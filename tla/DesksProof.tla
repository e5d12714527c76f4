----------------------------- MODULE DesksProof -----------------------------
(***************************************************************************)
(* Proofs about the smaller components, for any number of messages,        *)
(* deliveries, sources, requests and documents, and any bounds.  A         *)
(* behaviour of MCDesks is one of a single component, so each has an       *)
(* invariant of its own.                                                   *)
(*                                                                         *)
(* Receipts: what somebody is about to reverse is in the ledger, so what   *)
(* he writes is one unit of one sign, and nothing can be reversed beyond   *)
(* what the registers see.                                                 *)
(*                                                                         *)
(* Conversation: a message whose claim was never taken over is at one      *)
(* request at most, which holds its claim; what is already there of it     *)
(* (its row, the proposal it decided, the link it spent, the receipt)      *)
(* tells how often it took effect, one place for each kind of message.     *)
(*                                                                         *)
(* Integrations: a delivery that is still to be tried has an attempt left  *)
(* of those that it and its replays were given.  Of every credential that  *)
(* is to be valid yet, a descendant is, with the expiry it was given.      *)
(*                                                                         *)
(* Alerts: runs commit what they read some time before, so the invariant   *)
(* says how a run fits: it holds the rows it writes, no two runs hold the  *)
(* same, and each counts once more than what is committed.                 *)
(*                                                                         *)
(* Approvals: the decisions of a request are exactly those of the steps it *)
(* went through; a request being written holds all it is to invalidate,    *)
(* unless the two overlapped.                                              *)
(*                                                                         *)
(* Documents: every verdict and link is about a version that there is.     *)
(*                                                                         *)
(* Configurations: what is about to be published saw every version that    *)
(* is, unless the two crossed, and what a draft was brought back from is   *)
(* there and says the same.                                                *)
(***************************************************************************)
EXTENDS MCDesks, FiniteSetTheorems, TLAPS

-----------------------------------------------------------------------------
(* Receipts                                                                *)

\* The entries the ledger starts with are of one unit, a reversal is of one
\* unit the other way, and what is being reversed was there.
Entered ==
  /\ ledger \in [Entry -> [amount : {-1, 0, 1}, reverses : Entry \cup {None}]]
  /\ \A e \in Entry : IF ledger[e].reverses = None THEN ledger[e].amount \in {0, 1} ELSE ledger[e].amount \in {-1, 1}
  /\ session \in [Session -> Entry \cup {None}]
  /\ \A s \in Session : session[s] # None => ledger[session[s]].amount # 0

Held == [state : R!ReceiptState \cup {"NONE"}, maker : User \cup {None}, submitter : User \cup {None}]

Handled ==
  /\ money \in [ReceiptId -> Held]
  /\ \A r \in ReceiptId : money[r].state = "NONE" => money[r].maker = None /\ money[r].submitter = None
  /\ \A r \in ReceiptId : money[r].state \in {"PENDING_APPROVAL", "RECONCILED"} =>
       money[r].submitter \notin {None, money[r].maker}

LEMMA ReceiptStates == R!ReceiptState = {"UNRECONCILED", "PENDING_APPROVAL", "RECONCILED", "REVERSED"}
  BY DEF R!ReceiptState, R!ReceiptMoves

LEMMA MovesOfReceipts ==
  /\ R!ReceiptMoves["UNRECONCILED"] = {"PENDING_APPROVAL"}
  /\ R!ReceiptMoves["PENDING_APPROVAL"] = {"RECONCILED", "UNRECONCILED"}
  /\ R!ReceiptMoves["RECONCILED"] = {"REVERSED"} /\ R!ReceiptMoves["REVERSED"] = {}
  BY DEF R!ReceiptMoves

LEMMA EnteredInit == R!Init => Entered /\ Handled
  <1> SUFFICES ASSUME R!Init PROVE Entered /\ Handled
    OBVIOUS
  <1>1. \A e \in Entry : ledger[e] = [amount |-> IF e \in Seeded THEN 1 ELSE 0, reverses |-> None]
    BY DEF R!Init, R!NoEntry
  <1>2. Entered
    BY <1>1 DEF Entered, R!Init
  <1>3. \A r \in ReceiptId : money[r] = [state |-> "NONE", maker |-> None, submitter |-> None]
    BY DEF R!Init, R!NoReceipt
  <1> QED
    BY <1>2, <1>3 DEF Handled, Held, R!Init

LEMMA HandledStep ==
  ASSUME Handled, [R!Next]_receipts
  PROVE  Handled'
  <1>1. ASSUME NEW r \in ReceiptId, NEW u \in User, R!CreateReceipt(r, u)
        PROVE  Handled'
    <2>1. money' = [money EXCEPT ![r] = [R!NoReceipt EXCEPT !.state = "UNRECONCILED", !.maker = u]]
      BY <1>1 DEF R!CreateReceipt
    <2>2. R!NoReceipt \in Held
      BY DEF R!NoReceipt, Held
    <2> QED
      BY <2>1, <2>2, ReceiptStates DEF Handled, Held
  <1>2. ASSUME NEW r \in ReceiptId, NEW state \in R!ReceiptState, NEW u \in User, R!TransitionReceipt(r, state, u)
        PROVE  Handled'
    <2> DEFINE hand == IF state = "PENDING_APPROVAL" THEN u ELSE money[r].submitter
               row == [money[r] EXCEPT !.state = state, !.submitter = hand]
    <2>1. money[r] \in Held
      BY DEF Handled
    <2>2. money' = [money EXCEPT ![r] = row]
      <3>1. money' = [money EXCEPT ![r].state = state,
                                   ![r].submitter = IF state = "PENDING_APPROVAL" THEN u ELSE @]
        BY <1>2, Zenon DEF R!TransitionReceipt
      <3> QED
        BY <2>1, <3>1 DEF Handled, Held
    <2>0. row \in Held /\ row.state = state /\ row.submitter = hand /\ row.maker = money[r].maker
      BY <2>1 DEF Held
    <2>3. state \in R!ReceiptMoves[money[r].state] /\ (state = "PENDING_APPROVAL" => u # money[r].maker)
      BY <1>2 DEF R!TransitionReceipt
    <2>4. money[r].state \in R!ReceiptState
      <3>1. money[r] # [state |-> "NONE", maker |-> None, submitter |-> None]
        BY <1>2 DEF R!TransitionReceipt, R!NoReceipt
      <3>2. money[r].state = "NONE" => money[r].maker = None /\ money[r].submitter = None
        BY DEF Handled
      <3> QED
        BY <2>1, <3>1, <3>2 DEF Held
    <2>5. state = "RECONCILED" => money[r].state = "PENDING_APPROVAL"
      BY <2>3, <2>4, MovesOfReceipts, ReceiptStates
    <2>6. state \in {"PENDING_APPROVAL", "RECONCILED"} => row.submitter \notin {None, row.maker}
      BY <2>0, <2>3, <2>5, DesksAssumption DEF Handled
    <2>7. state # "NONE"
      BY ReceiptStates
    <2> HIDE DEF row, hand
    <2> QED
      BY <2>0, <2>2, <2>6, <2>7 DEF Handled
  <1>3. CASE UNCHANGED money
    BY <1>3 DEF Handled
  <1> QED
    BY <1>1, <1>2, <1>3 DEF R!Next, R!BeginReversal, R!FinishReversal, R!Rollback, receipts

LEMMA EnteredStep ==
  ASSUME Entered, [R!Next]_receipts
  PROVE  Entered'
  <1>1. ASSUME NEW s \in Session, NEW e \in Entry, R!BeginReversal(s, e)
        PROVE  Entered'
    <2>1. ledger[e].amount # 0
      BY <1>1 DEF R!BeginReversal, R!NoEntry, Entered
    <2> QED
      BY <1>1, <2>1 DEF R!BeginReversal, Entered
  <1>2. ASSUME NEW s \in Session, NEW f \in Entry, R!FinishReversal(s, f)
        PROVE  Entered'
    <2> DEFINE e == session[s]
    <2>1. e \in Entry /\ ledger[e].amount \in {-1, 1}
      BY <1>2 DEF R!FinishReversal, Entered
    <2>2. ledger[f].amount = 0
      BY <1>2 DEF R!FinishReversal, R!NoEntry
    <2>3. /\ ledger' = [ledger EXCEPT ![f] = [amount |-> -ledger[e].amount, reverses |-> e]]
          /\ session' = [session EXCEPT ![s] = None]
      BY <1>2 DEF R!FinishReversal
    <2>4. -ledger[e].amount \in {-1, 1} /\ e # None
      BY <2>1, DesksAssumption
    <2> HIDE DEF e
    <2>5. ledger' \in [Entry -> [amount : {-1, 0, 1}, reverses : Entry \cup {None}]]
      BY <2>1, <2>3, <2>4 DEF Entered
    <2>6. \A t \in Session : session'[t] # None => session[t] # None /\ session'[t] = session[t] /\ session[t] # f
      BY <2>2, <2>3 DEF Entered
    <2>7. session' \in [Session -> Entry \cup {None}]
      BY <2>3 DEF Entered
    <2>8. \A x \in Entry : x # f => ledger'[x] = ledger[x]
      BY <2>3 DEF Entered
    <2>9. ledger'[f].amount \in {-1, 1} /\ ledger'[f].reverses # None
      BY <2>3, <2>4 DEF Entered
    <2> QED
      BY <2>5, <2>6, <2>7, <2>8, <2>9 DEF Entered
  <1>3. ASSUME NEW s \in Session, R!Rollback(s)
        PROVE  Entered'
    BY <1>3 DEF R!Rollback, Entered
  <1>4. CASE UNCHANGED <<ledger, session>>
    BY <1>4 DEF Entered
  <1> QED
    BY <1>1, <1>2, <1>3, <1>4 DEF R!Next, R!CreateReceipt, R!TransitionReceipt, receipts

LEMMA ReceivedIsEnough == Entered /\ Handled => R!TypeOK /\ R!ReceivedNotOverstated /\ R!ReconciledByTwo
  <1> SUFFICES ASSUME Entered, Handled PROVE R!TypeOK /\ R!ReceivedNotOverstated /\ R!ReconciledByTwo
    OBVIOUS
  <1>1. R!TypeOK
    BY DEF Entered, Handled, Held, R!TypeOK
  <1>2. R!ReceivedNotOverstated
    <2> DEFINE Up == {e \in Entry : R!Shown(e) = 1}
               Down == {e \in Entry : R!Shown(e) = -1}
               Plus == {e \in Entry : ledger[e].amount = 1}
               Minus == {e \in Entry : ledger[e].amount = -1}
    <2>1. \A e \in Entry : R!Shown(e) = IF ledger[e].reverses = None THEN ledger[e].amount ELSE -1
      BY DEF Entered, R!Shown, R!Magnitude
    <2>2. Up \subseteq Plus /\ Minus \subseteq Down
      BY <2>1 DEF Entered
    <2>3. IsFiniteSet(Up) /\ IsFiniteSet(Down) /\ IsFiniteSet(Plus) /\ IsFiniteSet(Minus)
      BY DesksAssumption, FS_Subset
    <2>4. /\ Cardinality(Up) <= Cardinality(Plus) /\ Cardinality(Minus) <= Cardinality(Down)
          /\ Cardinality(Up) \in Nat /\ Cardinality(Plus) \in Nat
          /\ Cardinality(Minus) \in Nat /\ Cardinality(Down) \in Nat
      BY <2>2, <2>3, FS_Subset, FS_CardinalityType
    <2>5. \A S : R!Cardinality(S) = Cardinality(S)
      BY DEF R!Cardinality, Cardinality
    <2>6. Cardinality(Up) - Cardinality(Down) <= Cardinality(Plus) - Cardinality(Minus)
      <3> HIDE DEF Up, Down, Plus, Minus
      <3> QED
        BY <2>4
    <2> QED
      BY <2>5, <2>6 DEF R!ReceivedNotOverstated, R!Total
  <1>3. R!ReconciledByTwo
    BY DEF Handled, R!ReconciledByTwo
  <1> QED
    BY <1>1, <1>2, <1>3

-----------------------------------------------------------------------------
(* Conversation                                                            *)

\* A request that is at work is at a message; one that decides about a
\* proposal has one.
Working ==
  \A i \in Instances :
    /\ IF work[i].step = "idle" THEN work[i] = C!Idle ELSE work[i].event \in Messages
    /\ work[i].step = "acting" => work[i].target \in Proposals
    /\ work[i].step = "replying" => effects[work[i].event] > 0

\* A message that was never overtaken is at one request at most, which holds
\* its claim and has found no receipt of it.
Alone(e) ==
  \A i \in Instances : work[i].event = e =>
    /\ C!Holds(i, e)
    /\ work[i].step \in {"deciding", "acting"} => receipt[e] = None
    /\ work[i].step # "clashing"
    /\ work[i].step = "closing" /\ effects[e] > 0 /\ ~parted => e \in replies

\* What there is of a message that took effect, by what it says.
Effective(e) ==
  /\ effects[e] > 0 => receipt[e] # None
  /\ receipt[e] # None /\ said[e].kind # "TEXT" => effects[e] > 0
  /\ said[e].kind = "TEXT" => effects[e] = IF e \in messages THEN 1 ELSE 0
  /\ said[e].kind = "CONFIRM" => effects[e] = IF \E q \in Proposals : executed[q] = e THEN 1 ELSE 0
  /\ said[e].kind = "LINK" => effects[e] <= 1 /\ (effects[e] > 0 => said[e].about <= codes /\ challenge # said[e].about)
  /\ e \notin overtaken => effects[e] <= 1
  /\ consentEvent = e => effects[e] > 0

Settled(e) ==
  /\ e \in replies => effects[e] > 0
  /\ effects[e] > 0 /\ claim[e].state = "COMPLETED" => e \in replies \/ parted \/ e \in overtaken
  /\ e \in answered \ (early \cup overtaken) => claim[e].state = "COMPLETED"

Bound ==
  /\ parted \/ linked
  /\ challenge # None => challenge <= codes
  /\ \A e \in Messages : said[e].kind = "LINK" => said[e].about \in 1 .. MaxCodes

Talked ==
  /\ C!TypeOK /\ Working /\ Bound /\ C!DecidedOnce
  /\ \A e \in Messages \ overtaken : Alone(e)
  /\ \A e \in Messages : Effective(e) /\ Settled(e)

\* What is assumed of the names: no message is None or Web, and a link names
\* a code.
LEMMA NamesDiffer ==
  /\ None \notin Messages /\ Web \notin Messages /\ Web # None /\ None \notin Proposals /\ None \notin Instances
  /\ None \notin Nat /\ {MaxCodes, MaxChanges, MaxPosts, MaxFaults} \subseteq Nat
  BY DesksAssumption

LEMMA IdleIs == C!Idle \in C!Work /\ C!Idle.step = "idle" /\ C!Idle.event = None
  BY DEF C!Idle, C!Work, C!Steps

LEMMA TalkedInit == C!Init => Talked
  <1> SUFFICES ASSUME C!Init PROVE Talked
    OBVIOUS
  <1> USE NamesDiffer
  <1>1. /\ said \in Scripts
        /\ claim = [e \in Messages |-> [state |-> "NONE", holder |-> None, lapsed |-> FALSE, disposition |-> None]]
        /\ receipt = [e \in Messages |-> None] /\ messages = {}
        /\ proposal = [p \in Proposals |-> "NONE"] /\ executed = [p \in Proposals |-> None]
        /\ linked \in BOOLEAN /\ parted = ~linked /\ codes = 0 /\ challenge = None
        /\ consent = "OPTED_OUT" /\ consentEvent = None /\ changes = 0 /\ replies = {}
        /\ work = [i \in Instances |-> C!Idle] /\ posts = 0
        /\ answered = {} /\ early = {} /\ overtaken = {} /\ faults = 0
        /\ effects = [e \in Messages |-> 0]
    BY DEF C!Init
  <1>2. said \in [Messages -> C!Message]
    BY <1>1, DesksAssumption DEF C!Message, C!Kinds, C!Codes
  <1>3. C!TypeOK
    <2>1. claim \in [Messages -> C!Claim]
      BY <1>1 DEF C!Claim
    <2>2. 0 \in 0 .. MaxCodes /\ 0 \in 0 .. MaxChanges /\ 0 \in 0 .. MaxPosts /\ 0 \in 0 .. MaxFaults
      BY DesksAssumption
    <2>3. parted \in BOOLEAN
      BY <1>1
    <2>4. \A e \in Messages : (claim[e].state = "PROCESSING") = (claim[e].holder # None)
      BY <1>1
    <2> QED
      BY <1>1, <1>2, <2>1, <2>2, <2>3, <2>4, IdleIs DEF C!TypeOK
  <1>4. Working
    BY <1>1, IdleIs DEF Working
  <1>5. Bound
    BY <1>1, DesksAssumption DEF Bound
  <1>6. C!DecidedOnce
    BY <1>1 DEF C!DecidedOnce
  <1>7. \A e \in Messages : Alone(e) /\ Effective(e) /\ Settled(e)
    BY <1>1, IdleIs DEF Alone, Effective, Settled
  <1> QED
    BY <1>3, <1>4, <1>5, <1>6, <1>7 DEF Talked

-----------------------------------------------------------------------------
(* A request goes on                                                       *)

LEMMA Going ==
  ASSUME C!TypeOK, NEW i \in Instances, NEW s \in C!Steps, C!Goes(i, s)
  PROVE  \E w \in C!Work : /\ work' = [work EXCEPT ![i] = w] /\ w.step = s
                           /\ w.event = work[i].event /\ w.target = work[i].target
  <1> DEFINE w == [work[i] EXCEPT !.step = s]
  <1>1. work[i] \in C!Work /\ work \in [Instances -> C!Work]
    BY DEF C!TypeOK
  <1>2. w \in C!Work /\ w.step = s /\ w.event = work[i].event /\ w.target = work[i].target
    BY <1>1 DEF C!Work
  <1>3. work' = [work EXCEPT ![i] = w]
    BY DEF C!Goes
  <1> QED
    BY <1>2, <1>3

LEMMA Ending ==
  ASSUME C!TypeOK, NEW i \in Instances, NEW d \in C!Dispositions, C!Closes(i, d)
  PROVE  \E w \in C!Work : /\ work' = [work EXCEPT ![i] = w] /\ w.step = "closing"
                           /\ w.event = work[i].event
  <1> DEFINE w == [work[i] EXCEPT !.step = "closing", !.disposition = d]
  <1>1. work[i] \in C!Work /\ work \in [Instances -> C!Work]
    BY DEF C!TypeOK
  <1>2. w \in C!Work /\ w.step = "closing" /\ w.event = work[i].event
    BY <1>1 DEF C!Work, C!Steps
  <1>3. work' = [work EXCEPT ![i] = w]
    BY <1>1 DEF C!Closes, C!Work
  <1> QED
    BY <1>2, <1>3

\* A message a request is at is at no other, unless it was overtaken.
LEMMA AloneIs ==
  ASSUME Talked, NEW i \in Instances, NEW e \in Messages, work[i].event = e
  PROVE  e \notin overtaken =>
           /\ claim[e].state = "PROCESSING" /\ claim[e].holder = i
           /\ \A j \in Instances : work[j].event = e => j = i
           /\ work[i].step \in {"deciding", "acting"} => receipt[e] = None /\ effects[e] = 0
           /\ work[i].step # "clashing"
           /\ work[i].step = "closing" /\ effects[e] > 0 /\ ~parted => e \in replies
  <1>1. effects[e] \in Nat
    BY DEF Talked, C!TypeOK
  <1> QED
    BY <1>1 DEF Talked, Alone, Effective, C!Holds

LEMMA AtMessage ==
  ASSUME Talked, NEW i \in Instances, work[i].step # "idle"
  PROVE  work[i].event \in Messages
  BY DEF Talked, Working

\* A request moves on without an effect; it may leave a receipt and a reply.
LEMMA RequestMoves ==
  ASSUME Talked, NEW i \in Instances, NEW e \in Messages, NEW w \in C!Work, NEW d \in {"ACCEPTED", "UNBOUND"},
         work[i].event = e, w.event = e, w.step # "idle", work' = [work EXCEPT ![i] = w],
         w.step = "acting" => w.target \in Proposals,
         w.step = "replying" => effects[e] > 0,
         e \notin overtaken =>
           /\ w.step \in {"deciding", "acting"} => receipt'[e] = None
           /\ w.step # "clashing"
           /\ w.step = "closing" /\ effects[e] > 0 /\ ~parted => e \in replies',
         receipt' = receipt \/ (C!Receipt(e, d) /\ (said[e].kind = "TEXT" \/ effects[e] > 0)),
         replies' = replies \/ (replies' = replies \cup {e} /\ effects[e] > 0),
         faults' \in 0 .. MaxFaults,
         UNCHANGED <<said, claim, messages, proposal, executed, linked, codes, challenge, consent, consentEvent,
                     changes, posts, answered, effects, parted, early, overtaken>>
  PROVE  Talked'
  <1> USE NamesDiffer
  <1>1. /\ work' \in [Instances -> C!Work] /\ work'[i] = w
        /\ \A j \in Instances \ {i} : work'[j] = work[j]
    BY DEF Talked, C!TypeOK
  <1>2. /\ receipt' \in [Messages -> {None, "ACCEPTED", "UNBOUND"}]
        /\ \A f \in Messages \ {e} : receipt'[f] = receipt[f]
        /\ receipt'[e] = receipt[e] \/ (receipt[e] = None /\ receipt'[e] = d /\ (said[e].kind = "TEXT" \/ effects[e] > 0))
    <2>1. receipt \in [Messages -> {None, "ACCEPTED", "UNBOUND"}]
      BY DEF Talked, C!TypeOK
    <2>2. CASE receipt' = receipt
      BY <2>1, <2>2
    <2>3. CASE C!Receipt(e, d) /\ (said[e].kind = "TEXT" \/ effects[e] > 0)
      BY <2>1, <2>3 DEF C!Receipt
    <2> QED
      BY <2>2, <2>3
  <1>3. replies' \subseteq Messages /\ replies \subseteq replies' /\ \A f \in replies' : f \in replies \/ effects[f] > 0
    BY DEF Talked, C!TypeOK
  <1>4. C!TypeOK'
    BY <1>1, <1>2, <1>3 DEF Talked, C!TypeOK
  <1>5. Working'
    <2> SUFFICES ASSUME NEW j \in Instances
                 PROVE  /\ IF work'[j].step = "idle" THEN work'[j] = C!Idle ELSE work'[j].event \in Messages
                        /\ work'[j].step = "acting" => work'[j].target \in Proposals
                        /\ work'[j].step = "replying" => effects[work'[j].event] > 0
      BY DEF Working, C!Idle
    <2> QED
      BY <1>1 DEF Talked, Working
  <1>6. Bound' /\ C!DecidedOnce'
    BY DEF Talked, Bound, C!DecidedOnce
  <1>7. ASSUME NEW f \in Messages \ overtaken PROVE Alone(f)'
    <2>1. CASE f = e
      BY <1>1, <2>1, AloneIs DEF Alone, C!Holds
    <2>2. CASE f # e
      BY <1>1, <1>2, <1>3, <2>2 DEF Talked, Alone, C!Holds
    <2> QED
      BY <2>1, <2>2
  <1>8. \A f \in Messages : Effective(f)'
    <2> SUFFICES ASSUME NEW f \in Messages PROVE Effective(f)'
      OBVIOUS
    <2>1. Effective(f) /\ d # None
      BY DesksAssumption DEF Talked
    <2> QED
      BY <1>2, <2>1 DEF Effective
  <1>9. \A f \in Messages : Settled(f)'
    BY <1>3 DEF Talked, Settled
  <1> QED
    BY <1>4, <1>5, <1>6, <1>7, <1>8, <1>9 DEF Talked

\* A message takes effect.
LEMMA Applying ==
  ASSUME Talked, NEW i \in Instances, NEW e \in Messages,
         work[i].event = e, work[i].step \in {"deciding", "acting"}, C!Applies(i, e),
         messages' = (IF said[e].kind = "TEXT" THEN messages \cup {e} ELSE messages),
         said[e].kind = "TEXT" => e \notin messages,
         IF said[e].kind = "CONFIRM"
         THEN /\ \A q \in Proposals : executed[q] # e
              /\ \E q \in Proposals : executed'[q] = e
              /\ \A f \in Messages \ {e} : (\E q \in Proposals : executed'[q] = f) <=> (\E q \in Proposals : executed[q] = f)
         ELSE executed' = executed,
         IF said[e].kind = "LINK" THEN challenge = said[e].about /\ challenge' = None ELSE challenge' = challenge,
         linked' = linked \/ linked' = TRUE,
         consentEvent' = consentEvent \/ consentEvent' = e,
         C!DecidedOnce',
         proposal' \in [Proposals -> {"NONE", "PENDING", "EXECUTED", "CLOSED"}],
         executed' \in [Proposals -> Messages \cup {None, Web}],
         consent' \in {"OPTED_IN", "OPTED_OUT"},
         UNCHANGED <<said, claim, codes, changes, replies, posts, answered, faults, parted, early, overtaken>>
  PROVE  Talked'
  <1> USE NamesDiffer
  <1>0. C!TypeOK /\ "replying" \in C!Steps
    BY DEF Talked, C!Steps
  <1>1. PICK w \in C!Work : /\ work' = [work EXCEPT ![i] = w] /\ w.step = "replying" /\ w.event = e
    <2>1. C!Goes(i, "replying")
      BY DEF C!Applies
    <2> QED
      BY <1>0, <2>1, Going
  <1>2. /\ work' \in [Instances -> C!Work] /\ work'[i] = w
        /\ \A j \in Instances \ {i} : work'[j] = work[j]
    BY <1>0, <1>1 DEF C!TypeOK
  <1>3. /\ receipt' \in [Messages -> {None, "ACCEPTED", "UNBOUND"}]
        /\ \A f \in Messages \ {e} : receipt'[f] = receipt[f]
        /\ receipt'[e] # None
    <2>1. receipt \in [Messages -> {None, "ACCEPTED", "UNBOUND"}]
      BY <1>0 DEF C!TypeOK
    <2>2. receipt' = IF receipt[e] = None THEN [receipt EXCEPT ![e] = "ACCEPTED"] ELSE receipt
      BY DEF C!Applies, C!Receipt
    <2> QED
      BY <2>1, <2>2, DesksAssumption
  <1>4. /\ effects' \in [Messages -> Nat] /\ effects'[e] = effects[e] + 1 /\ effects[e] \in Nat
        /\ \A f \in Messages \ {e} : effects'[f] = effects[f]
    BY <1>0 DEF C!TypeOK, C!Applies
  <1>5. C!TypeOK'
    <2>1. challenge' \in C!Codes \cup {None} /\ linked' \in BOOLEAN /\ consentEvent' \in Messages \cup {None}
      BY <1>0 DEF C!TypeOK
    <2>2. messages' \subseteq Messages
      BY <1>0 DEF C!TypeOK
    <2> QED
      BY <1>0, <1>2, <1>3, <1>4, <2>1, <2>2 DEF C!TypeOK
  <1>6. Working'
    <2> SUFFICES ASSUME NEW j \in Instances
                 PROVE  /\ IF work'[j].step = "idle" THEN work'[j] = C!Idle ELSE work'[j].event \in Messages
                        /\ work'[j].step = "acting" => work'[j].target \in Proposals
                        /\ work'[j].step = "replying" => effects'[work'[j].event] > 0
      BY DEF Working, C!Idle
    <2>1. CASE j = i
      BY <1>1, <1>2, <1>4, <2>1
    <2>2. CASE j # i
      <3>1. /\ IF work[j].step = "idle" THEN work[j] = C!Idle ELSE work[j].event \in Messages
            /\ work[j].step = "acting" => work[j].target \in Proposals
            /\ work[j].step = "replying" => effects[work[j].event] > 0
        BY DEF Talked, Working
      <3>2. \A f \in Messages : effects[f] > 0 => effects'[f] > 0
        BY <1>4
      <3> QED
        BY <1>2, <2>2, <3>1, <3>2
    <2> QED
      BY <2>1, <2>2
  <1>7. Bound'
    BY DEF Talked, Bound
  <1>8. ASSUME NEW f \in Messages \ overtaken PROVE Alone(f)'
    <2>1. CASE f = e
      BY <1>1, <1>2, <2>1, AloneIs DEF Alone, C!Holds
    <2>2. CASE f # e
      BY <1>1, <1>2, <1>3, <1>4, <2>2 DEF Talked, Alone, C!Holds
    <2> QED
      BY <2>1, <2>2
  <1>9. ASSUME NEW f \in Messages \ {e} PROVE Effective(f)' /\ Settled(f)'
    <2>1. Effective(f) /\ Settled(f)
      BY DEF Talked
    <2>2. /\ effects'[f] = effects[f] /\ receipt'[f] = receipt[f]
          /\ f \in messages' <=> f \in messages
          /\ (\E q \in Proposals : executed'[q] = f) <=> (\E q \in Proposals : executed[q] = f)
          /\ consentEvent' = f => consentEvent = f
      BY <1>3, <1>4
    <2>3. said[f].kind = "LINK" => challenge' # said[f].about \/ challenge' = challenge
      BY DEF Talked, Bound
    <2>4. Effective(f)'
      BY <2>1, <2>2, <2>3 DEF Effective
    <2>5. Settled(f)'
      BY <2>1, <2>2 DEF Settled
    <2> QED
      BY <2>4, <2>5
  <1>10. Effective(e)'
    <2> DEFINE n == effects[e]
    <2>1. n \in Nat /\ effects'[e] = n + 1
      BY <1>4
    <2>2. Effective(e)
      BY DEF Talked
    <2>3. e \notin overtaken => n = 0
      BY AloneIs
    <2>4. said[e].kind \in {"TEXT", "CONFIRM", "LINK"} => n = 0
      <3>1. CASE said[e].kind = "TEXT" \/ said[e].kind = "CONFIRM"
        BY <2>2, <3>1 DEF Effective
      <3>2. CASE said[e].kind = "LINK"
        BY <2>1, <2>2, <3>2 DEF Effective
      <3> QED
        BY <3>1, <3>2
    <2>5. said[e].kind = "LINK" => said[e].about <= codes /\ challenge' # said[e].about
      BY DEF Talked, Bound
    <2> HIDE DEF n
    <2>6. effects'[e] > 0 /\ (n = 0 => effects'[e] = 1 /\ effects'[e] <= 1)
      BY <2>1
    <2>7. said[e].kind = "TEXT" => effects'[e] = IF e \in messages' THEN 1 ELSE 0
      BY <2>4, <2>6
    <2>8. said[e].kind = "CONFIRM" => effects'[e] = IF \E q \in Proposals : executed'[q] = e THEN 1 ELSE 0
      BY <2>4, <2>6
    <2> QED
      BY <1>3, <2>3, <2>4, <2>5, <2>6, <2>7, <2>8 DEF Effective
  <1>11. Settled(e)'
    <2>1. Settled(e)
      BY DEF Talked
    <2>2. e \notin overtaken => claim[e].state # "COMPLETED"
      BY AloneIs
    <2>3. effects'[e] > 0
      BY <1>4
    <2> QED
      BY <2>1, <2>2, <2>3 DEF Settled
  <1> QED
    BY <1>5, <1>6, <1>7, <1>8, <1>9, <1>10, <1>11 DEF Talked

\* RequestMoves, where nothing but the request is touched.
LEMMA JustMoves ==
  ASSUME Talked, NEW i \in Instances, NEW e \in Messages, NEW w \in C!Work,
         work[i].event = e, w.event = e, w.step # "idle", work' = [work EXCEPT ![i] = w],
         w.step = "acting" => w.target \in Proposals,
         w.step = "replying" => effects[e] > 0,
         e \notin overtaken =>
           /\ w.step \in {"deciding", "acting"} => receipt[e] = None
           /\ w.step # "clashing"
           /\ w.step = "closing" /\ effects[e] > 0 /\ ~parted => e \in replies,
         faults' \in 0 .. MaxFaults,
         UNCHANGED <<said, claim, receipt, messages, proposal, executed, linked, codes, challenge, consent, consentEvent,
                     changes, replies, posts, answered, effects, parted, early, overtaken>>
  PROVE  Talked'
  <1>1. "ACCEPTED" \in {"ACCEPTED", "UNBOUND"}
    OBVIOUS
  <1> QED
    BY <1>1, RequestMoves

\* A request ends without an effect: there was none, or nobody is there to
\* reply to.
LEMMA JustEnds ==
  ASSUME Talked, NEW i \in Instances, work[i].step # "idle", NEW d \in C!Dispositions, C!Closes(i, d),
         parted \/ work[i].step \in {"deciding", "acting"},
         UNCHANGED <<said, claim, receipt, messages, proposal, executed, linked, codes, challenge, consent, consentEvent,
                     changes, replies, posts, answered, faults, effects, parted, early, overtaken>>
  PROVE  Talked'
  <1> DEFINE e == work[i].event
  <1>1. e \in Messages
    BY AtMessage
  <1>2. PICK w \in C!Work : work' = [work EXCEPT ![i] = w] /\ w.step = "closing" /\ w.event = e
    BY Ending DEF Talked
  <1>3. e \notin overtaken /\ effects[e] > 0 => parted
    BY <1>1, AloneIs
  <1>4. faults' \in 0 .. MaxFaults
    BY DEF Talked, C!TypeOK
  <1> QED
    BY <1>1, <1>2, <1>3, <1>4, JustMoves

LEMMA LookTalked == ASSUME Talked, NEW i \in Instances, C!Look(i) PROVE Talked'
  <1> DEFINE e == work[i].event
  <1>1. /\ work[i].step = "claimed"
        /\ IF receipt[e] # None
           THEN replies' = (IF linked /\ C!Evidence(e) THEN replies \cup {e} ELSE replies) /\ C!Closes(i, "ACCEPTED")
           ELSE C!Goes(i, "deciding") /\ UNCHANGED replies
        /\ UNCHANGED <<said, changes, posts, answered, early, overtaken, claim, receipt, messages, proposal, executed,
                       linked, parted, codes, challenge, consent, consentEvent, faults, effects>>
    BY DEF C!Look, C!providerEventReceived, C!provider, C!threads, C!member
  <1>2. e \in Messages /\ faults' \in 0 .. MaxFaults /\ effects[e] \in Nat
    BY <1>1, AtMessage DEF Talked, C!TypeOK
  <1>3. CASE receipt[e] # None
    <2>1. PICK w \in C!Work : work' = [work EXCEPT ![i] = w] /\ w.step = "closing" /\ w.event = e
      <3>1. "ACCEPTED" \in C!Dispositions
        BY DEF C!Dispositions
      <3> QED
        BY <1>1, <1>3, <3>1, Ending DEF Talked
    <2>2. Effective(e) /\ (parted \/ linked)
      BY <1>2 DEF Talked, Bound
    <2>3. C!Evidence(e) <=> effects[e] > 0
      BY <1>2, <1>3, <2>2 DEF Effective, C!Evidence
    <2>4. /\ replies' = replies \/ (replies' = replies \cup {e} /\ effects[e] > 0)
          /\ effects[e] > 0 /\ ~parted => e \in replies'
      BY <1>1, <1>3, <2>2, <2>3
    <2>5. "ACCEPTED" \in {"ACCEPTED", "UNBOUND"}
      OBVIOUS
    <2> QED
      BY <1>1, <1>2, <2>1, <2>4, <2>5, RequestMoves
  <1>4. CASE receipt[e] = None
    <2>1. "deciding" \in C!Steps
      BY DEF C!Steps
    <2>2. PICK w \in C!Work : work' = [work EXCEPT ![i] = w] /\ w.step = "deciding" /\ w.event = e
      BY <1>1, <1>4, <2>1, Going DEF Talked
    <2> QED
      BY <1>1, <1>2, <1>4, <2>2, JustMoves
  <1> QED
    BY <1>3, <1>4

LEMMA UnboundTalked == ASSUME Talked, NEW i \in Instances, C!Unbound(i) PROVE Talked'
  <1> DEFINE e == work[i].event
  <1>1. /\ work[i].step = "deciding" /\ ~linked
        /\ IF said[e].kind = "TEXT" THEN C!Receipt(e, "UNBOUND") ELSE UNCHANGED receipt
        /\ C!Closes(i, "UNBOUND")
        /\ UNCHANGED <<said, changes, posts, answered, early, overtaken, claim, messages, proposal, executed,
                       linked, parted, codes, challenge, consent, consentEvent, replies, faults, effects>>
    BY DEF C!Unbound, C!provider, C!threads, C!member
  <1>2. e \in Messages /\ faults' \in 0 .. MaxFaults /\ parted
    BY <1>1, AtMessage DEF Talked, C!TypeOK, Bound
  <1>3. PICK w \in C!Work : work' = [work EXCEPT ![i] = w] /\ w.step = "closing" /\ w.event = e
    <2>1. "UNBOUND" \in C!Dispositions
      BY DEF C!Dispositions
    <2> QED
      BY <1>1, <2>1, Ending DEF Talked
  <1>4. "UNBOUND" \in {"ACCEPTED", "UNBOUND"}
    OBVIOUS
  <1> QED
    BY <1>1, <1>2, <1>3, <1>4, RequestMoves

LEMMA SubmitTalked == ASSUME Talked, NEW i \in Instances, C!Submit(i) PROVE Talked'
  <1> DEFINE e == work[i].event
  <1>1. /\ work[i].step = "deciding" /\ said[e].kind = "TEXT"
        /\ UNCHANGED <<said, changes, posts, answered, early, overtaken, claim, executed,
                       linked, parted, codes, challenge, consent, consentEvent, replies, faults>>
    BY DEF C!Submit, C!provider, C!member
  <1>2. e \in Messages /\ faults' \in 0 .. MaxFaults
    BY <1>1, AtMessage DEF Talked, C!TypeOK
  <1>3. CASE e \in messages
    <2>1. C!Goes(i, "clashing") /\ UNCHANGED <<receipt, messages, proposal, effects>>
      BY <1>3 DEF C!Submit
    <2>2. e \in overtaken
      BY <1>1, <1>2, <1>3, AloneIs DEF Talked, Effective
    <2>3. PICK w \in C!Work : work' = [work EXCEPT ![i] = w] /\ w.step = "clashing" /\ w.event = e
      <3>1. "clashing" \in C!Steps
        BY DEF C!Steps
      <3> QED
        BY <2>1, <3>1, Going DEF Talked
    <2> QED
      BY <1>1, <1>2, <2>1, <2>2, <2>3, JustMoves
  <1>4. CASE e \notin messages
    <2>1. /\ C!Applies(i, e) /\ messages' = messages \cup {e}
          /\ UNCHANGED proposal \/ (C!Unused # {} /\ proposal' = [proposal EXCEPT ![C!NextProposal] = "PENDING"])
      BY <1>4 DEF C!Submit
    <2>2. /\ proposal' \in [Proposals -> {"NONE", "PENDING", "EXECUTED", "CLOSED"}]
          /\ \A p \in Proposals : proposal'[p] = proposal[p] \/ (proposal[p] = "NONE" /\ proposal'[p] = "PENDING")
      <3>1. proposal \in [Proposals -> {"NONE", "PENDING", "EXECUTED", "CLOSED"}]
        BY DEF Talked, C!TypeOK
      <3>2. C!Unused # {} => C!NextProposal \in C!Unused
        BY DEF C!NextProposal
      <3> QED
        BY <2>1, <3>1, <3>2 DEF C!Unused
    <2>3. C!DecidedOnce'
      BY <1>1, <2>2 DEF Talked, C!DecidedOnce
    <2>4. executed' \in [Proposals -> Messages \cup {None, Web}] /\ consent' \in {"OPTED_IN", "OPTED_OUT"}
      BY <1>1 DEF Talked, C!TypeOK
    <2> QED
      BY <1>1, <1>2, <1>4, <2>1, <2>2, <2>3, <2>4, Applying
  <1> QED
    BY <1>3, <1>4

LEMMA LinkTalked == ASSUME Talked, NEW i \in Instances, C!AcceptLink(i) PROVE Talked'
  <1> DEFINE e == work[i].event
  <1>1. /\ work[i].step = "deciding" /\ said[e].kind = "LINK"
        /\ UNCHANGED <<said, changes, posts, answered, early, overtaken, claim, messages, proposal, executed,
                       parted, codes, consent, consentEvent, replies, faults>>
    BY DEF C!AcceptLink, C!provider, C!threads
  <1>2. e \in Messages
    BY <1>1, AtMessage
  <1>3. CASE challenge = said[e].about
    <2>1. C!Applies(i, e) /\ linked' = TRUE /\ challenge' = None
      BY <1>3 DEF C!AcceptLink
    <2>2. /\ proposal' \in [Proposals -> {"NONE", "PENDING", "EXECUTED", "CLOSED"}]
          /\ executed' \in [Proposals -> Messages \cup {None, Web}] /\ consent' \in {"OPTED_IN", "OPTED_OUT"}
          /\ C!DecidedOnce'
      BY <1>1 DEF Talked, C!TypeOK, C!DecidedOnce
    <2> QED
      BY <1>1, <1>2, <1>3, <2>1, <2>2, Applying
  <1>4. CASE challenge # said[e].about
    <2>1. C!Closes(i, "INVALID") /\ UNCHANGED <<receipt, effects, linked, challenge>> /\ "INVALID" \in C!Dispositions
      BY <1>4 DEF C!AcceptLink, C!Dispositions
    <2> QED
      BY <1>1, <2>1, JustEnds
  <1> QED
    BY <1>3, <1>4

LEMMA ConsentTalked == ASSUME Talked, NEW i \in Instances, C!setConsentByMobile(i) PROVE Talked'
  <1> DEFINE e == work[i].event
  <1>1. /\ work[i].step = "deciding" /\ said[e].kind \in {"START", "STOP"}
        /\ UNCHANGED <<said, changes, posts, answered, early, overtaken, claim, messages, proposal, executed,
                       linked, parted, codes, challenge, replies, faults>>
    BY DEF C!setConsentByMobile, C!provider, C!threads
  <1>2. e \in Messages /\ faults' \in 0 .. MaxFaults
    BY <1>1, AtMessage DEF Talked, C!TypeOK
  <1>3. CASE consentEvent = e
    <2>1. C!Goes(i, "replying") /\ UNCHANGED <<receipt, effects, consent, consentEvent>>
      BY <1>3 DEF C!setConsentByMobile
    <2>2. effects[e] > 0
      BY <1>2, <1>3 DEF Talked, Effective
    <2>3. PICK w \in C!Work : work' = [work EXCEPT ![i] = w] /\ w.step = "replying" /\ w.event = e
      <3>1. "replying" \in C!Steps
        BY DEF C!Steps
      <3> QED
        BY <2>1, <3>1, Going DEF Talked
    <2> QED
      BY <1>1, <1>2, <2>1, <2>2, <2>3, JustMoves
  <1>4. CASE consentEvent # e
    <2>1. /\ C!Applies(i, e) /\ consentEvent' = e
          /\ consent' = IF said[e].kind = "START" THEN "OPTED_IN" ELSE "OPTED_OUT"
      BY <1>4 DEF C!setConsentByMobile
    <2>2. /\ proposal' \in [Proposals -> {"NONE", "PENDING", "EXECUTED", "CLOSED"}]
          /\ executed' \in [Proposals -> Messages \cup {None, Web}] /\ consent' \in {"OPTED_IN", "OPTED_OUT"}
          /\ C!DecidedOnce'
      BY <1>1, <2>1 DEF Talked, C!TypeOK, C!DecidedOnce
    <2> QED
      BY <1>1, <1>2, <2>1, <2>2, Applying
  <1> QED
    BY <1>3, <1>4

LEMMA ActTalked == ASSUME Talked, NEW i \in Instances, C!actOnWhatsappProposal(i) PROVE Talked'
  <1> DEFINE e == work[i].event
  <1>1. /\ work[i].step = "deciding"
        /\ \/ \E p \in Proposals : work' = [work EXCEPT ![i].step = "acting", ![i].target = p]
           \/ C!Closes(i, "INVALID")
        /\ UNCHANGED <<said, changes, posts, answered, early, overtaken, claim, receipt, messages, proposal, executed,
                       linked, parted, codes, challenge, consent, consentEvent, replies, faults, effects>>
    BY DEF C!actOnWhatsappProposal, C!provider, C!threads, C!member
  <1>2. e \in Messages /\ faults' \in 0 .. MaxFaults
    BY <1>1, AtMessage DEF Talked, C!TypeOK
  <1>3. ASSUME NEW p \in Proposals, work' = [work EXCEPT ![i].step = "acting", ![i].target = p]
        PROVE  Talked'
    <2> DEFINE w == [work[i] EXCEPT !.step = "acting", !.target = p]
    <2>1. work[i] \in C!Work /\ work \in [Instances -> C!Work]
      BY DEF Talked, C!TypeOK
    <2>2. w \in C!Work /\ w.step = "acting" /\ w.event = e /\ w.target = p
      BY <2>1 DEF C!Work, C!Steps
    <2>3. work' = [work EXCEPT ![i] = w]
      BY <1>3, <2>1 DEF C!Work
    <2>4. e \notin overtaken => receipt[e] = None
      BY <1>1, <1>2, AloneIs
    <2> HIDE DEF w
    <2> QED
      BY <1>1, <1>2, <2>2, <2>3, <2>4, JustMoves
  <1>4. CASE C!Closes(i, "INVALID")
    <2>1. "INVALID" \in C!Dispositions
      BY DEF C!Dispositions
    <2> QED
      BY <1>1, <1>4, <2>1, JustEnds
  <1> QED
    BY <1>1, <1>3, <1>4

\* A proposal is executed with a key that none was executed with.
LEMMA Executing ==
  ASSUME Talked, NEW p \in Proposals, NEW key \in Messages \cup {Web}, proposal[p] = "PENDING",
         C!Execute(p, key), key = Web \/ \A q \in Proposals : executed[q] # key
  PROVE  /\ proposal' \in [Proposals -> {"NONE", "PENDING", "EXECUTED", "CLOSED"}]
         /\ executed' \in [Proposals -> Messages \cup {None, Web}]
         /\ C!DecidedOnce'
         /\ executed'[p] = key
         /\ \A f \in Messages \ {key} : (\E q \in Proposals : executed'[q] = f) <=> (\E q \in Proposals : executed[q] = f)
  <1> USE NamesDiffer
  <1>1. /\ proposal \in [Proposals -> {"NONE", "PENDING", "EXECUTED", "CLOSED"}]
        /\ executed \in [Proposals -> Messages \cup {None, Web}]
        /\ executed[p] = None
    BY DEF Talked, C!TypeOK, C!DecidedOnce
  <1>2. /\ proposal' = [proposal EXCEPT ![p] = "EXECUTED"] /\ executed' = [executed EXCEPT ![p] = key]
    BY DEF C!Execute
  <1>3. /\ proposal' \in [Proposals -> {"NONE", "PENDING", "EXECUTED", "CLOSED"}]
        /\ executed' \in [Proposals -> Messages \cup {None, Web}]
        /\ executed'[p] = key /\ proposal'[p] = "EXECUTED" /\ key # None
        /\ \A q \in Proposals \ {p} : executed'[q] = executed[q] /\ proposal'[q] = proposal[q]
    BY <1>1, <1>2
  <1>4. C!DecidedOnce'
    <2>1. \A q \in Proposals : (proposal'[q] = "EXECUTED") = (executed'[q] # None)
      BY <1>3 DEF Talked, C!DecidedOnce
    <2>2. \A q, r \in Proposals : executed'[q] = executed'[r] => q = r \/ executed'[q] \in {None, Web}
      BY <1>3 DEF Talked, C!DecidedOnce
    <2> QED
      BY <2>1, <2>2 DEF C!DecidedOnce
  <1>5. \A f \in Messages \ {key} : (\E q \in Proposals : executed'[q] = f) <=> (\E q \in Proposals : executed[q] = f)
    BY <1>1, <1>3
  <1> QED
    BY <1>3, <1>4, <1>5

LEMMA confirmTalked == ASSUME Talked, NEW i \in Instances, C!confirm(i) PROVE Talked'
  <1> DEFINE e == work[i].event
             p == work[i].target
  <1>1. /\ work[i].step = "acting" /\ said[e].kind = "CONFIRM"
        /\ UNCHANGED <<said, changes, posts, answered, early, overtaken, claim, linked, parted, codes, challenge,
                       consent, consentEvent, replies, faults>>
    BY DEF C!confirm, C!provider, C!member
  <1>2. e \in Messages /\ p \in Proposals /\ faults' \in 0 .. MaxFaults
    BY <1>1, AtMessage DEF Talked, C!TypeOK, Working
  <1>3. CASE executed[p] = e /\ C!Receipt(e, "ACCEPTED") /\ C!Goes(i, "replying") /\ UNCHANGED <<messages, proposal, executed, effects>>
    <2>1. effects[e] > 0
      BY <1>1, <1>2, <1>3 DEF Talked, Effective
    <2>2. PICK w \in C!Work : work' = [work EXCEPT ![i] = w] /\ w.step = "replying" /\ w.event = e
      <3>1. "replying" \in C!Steps
        BY DEF C!Steps
      <3> QED
        BY <1>3, <3>1, Going DEF Talked
    <2>3. "ACCEPTED" \in {"ACCEPTED", "UNBOUND"}
      OBVIOUS
    <2> QED
      BY <1>1, <1>2, <1>3, <2>1, <2>2, <2>3, RequestMoves
  <1>4. CASE /\ \A q \in Proposals : executed[q] # e
             /\ C!Actionable(p) /\ C!Execute(p, e) /\ C!Applies(i, e) /\ UNCHANGED messages
    <2>1. proposal[p] = "PENDING"
      BY <1>4 DEF C!Actionable
    <2>2. /\ proposal' \in [Proposals -> {"NONE", "PENDING", "EXECUTED", "CLOSED"}]
          /\ executed' \in [Proposals -> Messages \cup {None, Web}]
          /\ C!DecidedOnce'
          /\ executed'[p] = e
          /\ \A f \in Messages \ {e} : (\E q \in Proposals : executed'[q] = f) <=> (\E q \in Proposals : executed[q] = f)
      BY <1>2, <1>4, <2>1, Executing
    <2>3. consent' \in {"OPTED_IN", "OPTED_OUT"}
      BY <1>1 DEF Talked, C!TypeOK
    <2> QED
      BY <1>1, <1>2, <1>4, <2>2, <2>3, Applying
  <1>5. CASE C!Closes(i, "INVALID") /\ UNCHANGED <<receipt, messages, proposal, executed, effects>>
    <2>1. "INVALID" \in C!Dispositions
      BY DEF C!Dispositions
    <2> QED
      BY <1>1, <1>5, <2>1, JustEnds
  <1> QED
    BY <1>3, <1>4, <1>5 DEF C!confirm, C!threads

LEMMA cancelTalked == ASSUME Talked, NEW i \in Instances, C!cancel(i) PROVE Talked'
  <1> DEFINE e == work[i].event
             p == work[i].target
  <1>1. /\ work[i].step = "acting" /\ said[e].kind = "CANCEL"
        /\ UNCHANGED <<said, changes, posts, answered, early, overtaken, claim, messages, executed, linked, parted,
                       codes, challenge, consent, consentEvent, replies, faults>>
    BY DEF C!cancel, C!provider, C!member
  <1>2. e \in Messages /\ p \in Proposals
    BY <1>1, AtMessage DEF Talked, Working
  <1>3. CASE C!Actionable(p)
    <2>1. proposal[p] = "PENDING" /\ proposal' = [proposal EXCEPT ![p] = "CLOSED"] /\ C!Applies(i, e)
      BY <1>3 DEF C!cancel, C!Actionable
    <2>2. /\ proposal' \in [Proposals -> {"NONE", "PENDING", "EXECUTED", "CLOSED"}]
          /\ executed' \in [Proposals -> Messages \cup {None, Web}] /\ consent' \in {"OPTED_IN", "OPTED_OUT"}
          /\ C!DecidedOnce'
      BY <1>1, <1>2, <2>1 DEF Talked, C!TypeOK, C!DecidedOnce
    <2> QED
      BY <1>1, <1>2, <2>1, <2>2, Applying
  <1>4. CASE ~C!Actionable(p)
    <2>1. C!Closes(i, "INVALID") /\ UNCHANGED <<receipt, proposal, effects>> /\ "INVALID" \in C!Dispositions
      BY <1>4 DEF C!cancel, C!Dispositions
    <2> QED
      BY <1>1, <2>1, JustEnds
  <1> QED
    BY <1>3, <1>4

LEMMA RefuseTalked == ASSUME Talked, NEW i \in Instances, C!Refuse(i) PROVE Talked'
  <1>1. /\ work[i].step = "acting" /\ C!Closes(i, "INVALID") /\ "INVALID" \in C!Dispositions
        /\ UNCHANGED <<said, changes, posts, answered, early, overtaken, claim, receipt, messages, proposal, executed,
                       linked, parted, codes, challenge, consent, consentEvent, replies, faults, effects>>
    BY DEF C!Refuse, C!provider, C!threads, C!member, C!Dispositions
  <1> QED
    BY <1>1, JustEnds

LEMMA ReplyTalked == ASSUME Talked, NEW i \in Instances, C!persistAndQueueProviderReply(i) PROVE Talked'
  <1> DEFINE e == work[i].event
  <1>1. /\ work[i].step = "replying"
        /\ IF linked THEN replies' = replies \cup {e} /\ C!Closes(i, "ACCEPTED")
                     ELSE C!Closes(i, "UNBOUND") /\ UNCHANGED replies
        /\ UNCHANGED <<said, changes, posts, answered, early, overtaken, claim, receipt, messages, proposal, executed,
                       linked, parted, codes, challenge, consent, consentEvent, faults, effects>>
    BY DEF C!persistAndQueueProviderReply, C!provider, C!threads, C!member
  <1>2. e \in Messages /\ faults' \in 0 .. MaxFaults /\ effects[e] > 0 /\ (parted \/ linked)
    BY <1>1, AtMessage DEF Talked, C!TypeOK, Working, Bound
  <1>3. CASE linked
    <2>1. PICK w \in C!Work : work' = [work EXCEPT ![i] = w] /\ w.step = "closing" /\ w.event = e
      <3>1. "ACCEPTED" \in C!Dispositions
        BY DEF C!Dispositions
      <3> QED
        BY <1>1, <1>3, <3>1, Ending DEF Talked
    <2>2. "ACCEPTED" \in {"ACCEPTED", "UNBOUND"}
      OBVIOUS
    <2> QED
      BY <1>1, <1>2, <1>3, <2>1, <2>2, RequestMoves
  <1>4. CASE ~linked
    <2>1. "UNBOUND" \in C!Dispositions
      BY DEF C!Dispositions
    <2> QED
      BY <1>1, <1>2, <1>4, <2>1, JustEnds
  <1> QED
    BY <1>3, <1>4

LEMMA FailTalked == ASSUME Talked, NEW i \in Instances, C!Fail(i) PROVE Talked'
  <1> DEFINE e == work[i].event
  <1>1. /\ work[i].step \in {"claimed", "deciding", "acting", "replying"}
        /\ faults < MaxFaults /\ faults' = faults + 1 /\ C!Goes(i, "retrying")
        /\ UNCHANGED <<said, changes, posts, answered, early, overtaken, claim, receipt, messages, proposal, executed,
                       linked, parted, codes, challenge, consent, consentEvent, replies, effects>>
    BY DEF C!Fail, C!provider, C!threads, C!member
  <1>2. e \in Messages /\ faults' \in 0 .. MaxFaults
    BY <1>1, AtMessage, NamesDiffer DEF Talked, C!TypeOK
  <1>3. PICK w \in C!Work : work' = [work EXCEPT ![i] = w] /\ w.step = "retrying" /\ w.event = e
    <2>1. "retrying" \in C!Steps
      BY DEF C!Steps
    <2> QED
      BY <1>1, <2>1, Going DEF Talked
  <1> QED
    BY <1>1, <1>2, <1>3, JustMoves

-----------------------------------------------------------------------------
(* Claims are taken and given back                                         *)

\* What stays when a request of e takes or leaves it and the claim of e, at
\* most, is written.
LEMMA ClaimMoves ==
  ASSUME Talked, NEW i \in Instances, NEW e \in Messages, NEW w \in C!Work, NEW c \in C!Claim,
         work' = [work EXCEPT ![i] = w], claim' = [claim EXCEPT ![e] = c],
         (c.state = "PROCESSING") = (c.holder # None),
         IF w.step = "idle" THEN w = C!Idle ELSE w.event = e, w.step \in {"idle", "claimed"},
         work[i].event = e \/ work[i] = C!Idle,
         e \in overtaken' \/ (/\ \A j \in Instances \ {i} : work[j].event # e
                              /\ w.step = "idle" \/ (c.state = "PROCESSING" /\ c.holder = i)),
         c.state = "COMPLETED" => e \in overtaken' \/ (effects[e] > 0 => e \in replies \/ parted),
         e \in answered' => e \in early' \cup overtaken' \/ c.state = "COMPLETED",
         overtaken \subseteq overtaken', overtaken' \subseteq overtaken \cup {e},
         early' \subseteq Messages, early \subseteq early', answered' \subseteq answered \cup {e},
         posts' \in 0 .. MaxPosts, faults' \in 0 .. MaxFaults,
         UNCHANGED <<said, receipt, messages, proposal, executed, linked, codes, challenge, consent, consentEvent,
                     changes, replies, effects, parted>>
  PROVE  Talked'
  <1> USE NamesDiffer
  <1>1. /\ work' \in [Instances -> C!Work] /\ work'[i] = w
        /\ \A j \in Instances \ {i} : work'[j] = work[j]
    BY DEF Talked, C!TypeOK
  <1>2. /\ claim' \in [Messages -> C!Claim] /\ claim'[e] = c
        /\ \A f \in Messages \ {e} : claim'[f] = claim[f]
    BY DEF Talked, C!TypeOK
  <1>3. C!TypeOK'
    BY <1>1, <1>2 DEF Talked, C!TypeOK
  <1>4. Working'
    <2> SUFFICES ASSUME NEW j \in Instances
                 PROVE  /\ IF work'[j].step = "idle" THEN work'[j] = C!Idle ELSE work'[j].event \in Messages
                        /\ work'[j].step = "acting" => work'[j].target \in Proposals
                        /\ work'[j].step = "replying" => effects[work'[j].event] > 0
      BY DEF Working, C!Idle
    <2> QED
      BY <1>1 DEF Talked, Working
  <1>5. Bound' /\ C!DecidedOnce'
    BY DEF Talked, Bound, C!DecidedOnce
  <1>6. ASSUME NEW f \in Messages \ overtaken' PROVE Alone(f)'
    <2>1. CASE f = e
      <3>1. \A j \in Instances : work'[j].event = e => j = i /\ w.step = "claimed"
        BY <1>1, <1>6, <2>1, IdleIs
      <3> QED
        BY <1>1, <1>2, <1>6, <2>1, <3>1 DEF Alone, C!Holds
    <2>2. CASE f # e
      <3>1. \A j \in Instances : work'[j].event = f => work'[j] = work[j]
        BY <1>1, <2>2, IdleIs
      <3>2. Alone(f)
        BY <1>6 DEF Talked
      <3> QED
        BY <1>2, <2>2, <3>1, <3>2 DEF Alone, C!Holds
    <2> QED
      BY <2>1, <2>2
  <1>7. \A f \in Messages : Effective(f)'
    BY DEF Talked, Effective
  <1>8. \A f \in Messages : Settled(f)'
    <2>1. Settled(e)'
      BY <1>2 DEF Talked, Settled
    <2>2. \A f \in Messages \ {e} : Settled(f)'
      BY <1>2 DEF Talked, Settled
    <2> QED
      BY <2>1, <2>2
  <1> QED
    BY <1>3, <1>4, <1>5, <1>6, <1>7, <1>8 DEF Talked

LEMMA CompleteTalked == ASSUME Talked, NEW i \in Instances, C!Complete(i) PROVE Talked'
  <1> USE NamesDiffer
  <1> DEFINE e == work[i].event
             row == [state |-> "COMPLETED", holder |-> None, lapsed |-> FALSE, disposition |-> work[i].disposition]
             c == IF C!Holds(i, e) THEN row ELSE claim[e]
  <1>1. /\ work[i].step = "closing"
        /\ claim' = (IF C!Holds(i, e) THEN [claim EXCEPT ![e] = row] ELSE claim)
        /\ work' = [work EXCEPT ![i] = C!Idle] /\ answered' = answered \cup {e}
        /\ UNCHANGED <<said, changes, receipt, messages, proposal, executed, linked, parted, codes, challenge,
                       consent, consentEvent, replies, posts, faults, effects, early, overtaken>>
    BY DEF C!Complete, C!threads, C!member
  <1>2. /\ e \in Messages /\ work[i] \in C!Work /\ claim[e] \in C!Claim /\ claim \in [Messages -> C!Claim]
        /\ (claim[e].state = "PROCESSING") = (claim[e].holder # None)
        /\ early' \subseteq Messages /\ posts' \in 0 .. MaxPosts /\ faults' \in 0 .. MaxFaults
    BY <1>1, AtMessage DEF Talked, C!TypeOK
  <1>3. row \in C!Claim /\ row.state = "COMPLETED" /\ row.holder = None
    BY <1>2 DEF C!Claim, C!Work
  <1> HIDE DEF row
  <1>4. /\ c \in C!Claim /\ claim' = [claim EXCEPT ![e] = c] /\ (c.state = "PROCESSING") = (c.holder # None)
    BY <1>1, <1>2, <1>3
  <1>5. e \notin overtaken => /\ C!Holds(i, e) /\ \A j \in Instances \ {i} : work[j].event # e
                              /\ effects[e] > 0 => e \in replies \/ parted
    BY <1>1, <1>2, AloneIs DEF C!Holds
  <1>6. e \notin overtaken => c.state = "COMPLETED"
    BY <1>3, <1>5
  <1> HIDE DEF c
  <1> QED
    BY <1>1, <1>2, <1>4, <1>5, <1>6, IdleIs, ClaimMoves

LEMMA RetryTalked == ASSUME Talked, NEW i \in Instances, C!Retry(i) PROVE Talked'
  <1> USE NamesDiffer
  <1> DEFINE e == work[i].event
             row == [state |-> "RETRY", holder |-> None, lapsed |-> FALSE, disposition |-> None]
             c == IF C!Holds(i, e) THEN row ELSE claim[e]
  <1>1. /\ work[i].step \in {"retrying", "clashing"}
        /\ claim' = (IF C!Holds(i, e) THEN [claim EXCEPT ![e] = row] ELSE claim)
        /\ work' = [work EXCEPT ![i] = C!Idle]
        /\ answered' = (IF work[i].step = "clashing" THEN answered \cup {e} ELSE answered)
        /\ UNCHANGED <<said, changes, receipt, messages, proposal, executed, linked, parted, codes, challenge,
                       consent, consentEvent, replies, posts, faults, effects, early, overtaken>>
    BY DEF C!Retry, C!threads, C!member
  <1>2. /\ e \in Messages /\ work[i] \in C!Work /\ claim[e] \in C!Claim /\ claim \in [Messages -> C!Claim]
        /\ (claim[e].state = "PROCESSING") = (claim[e].holder # None)
        /\ early' \subseteq Messages /\ posts' \in 0 .. MaxPosts /\ faults' \in 0 .. MaxFaults
    BY <1>1, AtMessage DEF Talked, C!TypeOK
  <1>3. row \in C!Claim /\ row.state = "RETRY" /\ row.holder = None
    BY DEF C!Claim
  <1> HIDE DEF row
  <1>4. /\ c \in C!Claim /\ claim' = [claim EXCEPT ![e] = c] /\ (c.state = "PROCESSING") = (c.holder # None)
    BY <1>1, <1>2, <1>3
  <1>5. e \notin overtaken => /\ C!Holds(i, e) /\ claim[e].state = "PROCESSING"
                              /\ \A j \in Instances \ {i} : work[j].event # e
                              /\ work[i].step # "clashing"
    BY <1>1, <1>2, AloneIs DEF C!Holds
  <1>6. e \notin overtaken => c.state = "RETRY"
    BY <1>3, <1>5
  <1>7. e \in answered' => e \in early \cup overtaken
    BY <1>1, <1>2, <1>5 DEF Talked, Settled
  <1>8. /\ answered' \subseteq answered \cup {e} /\ early \subseteq early' /\ early' \subseteq Messages
        /\ overtaken \subseteq overtaken' /\ overtaken' \subseteq overtaken \cup {e}
        /\ e \in answered' => e \in early' \cup overtaken' \/ c.state = "COMPLETED"
        /\ c.state = "COMPLETED" => e \in overtaken' \/ (effects[e] > 0 => e \in replies \/ parted)
    BY <1>1, <1>2, <1>5, <1>6, <1>7
  <1> HIDE DEF c
  <1>9. /\ e \in overtaken' \/ (/\ \A j \in Instances \ {i} : work[j].event # e
                                /\ C!Idle.step = "idle" \/ (c.state = "PROCESSING" /\ c.holder = i))
        /\ IF C!Idle.step = "idle" THEN C!Idle = C!Idle ELSE C!Idle.event = e
        /\ C!Idle \in C!Work /\ C!Idle.step \in {"idle", "claimed"}
        /\ work' = [work EXCEPT ![i] = C!Idle]
        /\ UNCHANGED <<said, receipt, messages, proposal, executed, linked, codes, challenge, consent, consentEvent,
                        changes, replies, effects, parted>>
    BY <1>1, <1>5, IdleIs
  <1> QED
    BY <1>2, <1>4, <1>8, <1>9, ClaimMoves

LEMMA CrashTalked == ASSUME Talked, NEW i \in Instances, C!Crash(i) PROVE Talked'
  <1> USE NamesDiffer
  <1> DEFINE e == work[i].event
  <1>1. /\ work[i] # C!Idle /\ faults < MaxFaults /\ faults' = faults + 1
        /\ work' = [work EXCEPT ![i] = C!Idle]
        /\ UNCHANGED <<said, changes, posts, answered, early, overtaken, claim, receipt, messages, proposal, executed,
                       linked, parted, codes, challenge, consent, consentEvent, replies, effects>>
    BY DEF C!Crash, C!provider, C!threads, C!member
  <1>2. work[i].step # "idle"
    BY <1>1 DEF Talked, Working
  <1>3. /\ e \in Messages /\ claim[e] \in C!Claim /\ claim' = [claim EXCEPT ![e] = claim[e]]
        /\ (claim[e].state = "PROCESSING") = (claim[e].holder # None)
        /\ early' \subseteq Messages /\ posts' \in 0 .. MaxPosts /\ faults' \in 0 .. MaxFaults
    BY <1>1, <1>2, AtMessage DEF Talked, C!TypeOK
  <1>4. e \notin overtaken => \A j \in Instances \ {i} : work[j].event # e
    BY <1>3, AloneIs
  <1>5. Settled(e)
    BY <1>3 DEF Talked
  <1>6. /\ claim[e].state = "COMPLETED" => e \in overtaken' \/ (effects[e] > 0 => e \in replies \/ parted)
        /\ e \in answered' => e \in early' \cup overtaken' \/ claim[e].state = "COMPLETED"
    BY <1>1, <1>5 DEF Settled
  <1> QED
    BY <1>1, <1>3, <1>4, <1>6, IdleIs, ClaimMoves

LEMMA ReceiveTalked == ASSUME Talked, NEW i \in Instances, NEW e \in Messages, C!Receive(i, e) PROVE Talked'
  <1> USE NamesDiffer
  <1> DEFINE row == [state |-> "PROCESSING", holder |-> i, lapsed |-> FALSE, disposition |-> None]
             w == [C!Idle EXCEPT !.step = "claimed", !.event = e]
  <1>1. /\ work[i] = C!Idle /\ e \notin answered /\ posts < MaxPosts /\ posts' = posts + 1
        /\ \/ /\ claim' = [claim EXCEPT ![e] = row] /\ work' = [work EXCEPT ![i] = w]
              /\ overtaken' = (IF \E j \in Instances : work[j].event = e THEN overtaken \cup {e} ELSE overtaken)
              /\ UNCHANGED <<answered, early>>
           \/ /\ ~C!Claimable(e) /\ answered' = answered \cup {e}
              /\ early' = (IF claim[e].state = "PROCESSING" THEN early \cup {e} ELSE early)
              /\ UNCHANGED <<claim, work, overtaken>>
        /\ UNCHANGED <<said, changes, receipt, messages, proposal, executed, linked, parted, codes, challenge,
                       consent, consentEvent, replies, faults, effects>>
    BY DEF C!Receive, C!threads, C!member
  <1>2. /\ claim[e] \in C!Claim /\ (claim[e].state = "PROCESSING") = (claim[e].holder # None)
        /\ posts' \in 0 .. MaxPosts /\ faults' \in 0 .. MaxFaults
        /\ claim \in [Messages -> C!Claim] /\ work \in [Instances -> C!Work] /\ early \subseteq Messages
    BY <1>1 DEF Talked, C!TypeOK
  <1>3. CASE /\ claim' = [claim EXCEPT ![e] = row] /\ work' = [work EXCEPT ![i] = w]
             /\ overtaken' = (IF \E j \in Instances : work[j].event = e THEN overtaken \cup {e} ELSE overtaken)
             /\ UNCHANGED <<answered, early>>
    <2>1. row \in C!Claim /\ row.state = "PROCESSING" /\ row.holder = i
      BY DEF C!Claim
    <2>2. w \in C!Work /\ w.step = "claimed" /\ w.event = e
      BY DEF C!Idle, C!Work, C!Steps
    <2> HIDE DEF row, w
    <2>3. i # None /\ e \notin answered'
      BY <1>1, <1>3
    <2>4. e \in overtaken' \/ \A j \in Instances \ {i} : work[j].event # e
      BY <1>3
    <2>5. overtaken \subseteq overtaken' /\ overtaken' \subseteq overtaken \cup {e} /\ early' \subseteq Messages
      BY <1>2, <1>3
    <2> QED
      BY <1>1, <1>2, <1>3, <2>1, <2>2, <2>3, <2>4, <2>5, ClaimMoves
  <1>4. CASE /\ ~C!Claimable(e) /\ answered' = answered \cup {e}
             /\ early' = (IF claim[e].state = "PROCESSING" THEN early \cup {e} ELSE early)
             /\ UNCHANGED <<claim, work, overtaken>>
    <2>2. claim[e].state \in {"PROCESSING", "COMPLETED"}
      BY <1>2, <1>4 DEF C!Claimable, C!Claim
    <2>4. C!TypeOK'
      BY <1>1, <1>2, <1>4 DEF Talked, C!TypeOK
    <2>5. Working' /\ Bound' /\ C!DecidedOnce'
      BY <1>1, <1>4 DEF Talked, Working, Bound, C!DecidedOnce, C!Idle
    <2>6. \A f \in Messages \ overtaken' : Alone(f)'
      BY <1>1, <1>4 DEF Talked, Alone, C!Holds
    <2>7. \A f \in Messages : Effective(f)'
      BY <1>1, <1>4 DEF Talked, Effective
    <2>8. \A f \in Messages : Settled(f)'
      BY <1>1, <1>4, <2>2 DEF Talked, Settled
    <2> QED
      BY <2>4, <2>5, <2>6, <2>7, <2>8 DEF Talked
  <1> QED
    BY <1>1, <1>3, <1>4

LEMMA LeaseTalked == ASSUME Talked, NEW e \in Messages, C!LeaseRunsOut(e) PROVE Talked'
  <1> USE NamesDiffer
  <1>1. /\ claim' = [claim EXCEPT ![e].lapsed = TRUE]
        /\ \/ faults < MaxFaults /\ faults' = faults + 1
           \/ UNCHANGED faults
        /\ UNCHANGED <<said, changes, posts, answered, early, overtaken, receipt, messages, proposal, executed,
                       linked, parted, codes, challenge, consent, consentEvent, replies, work, effects>>
    BY DEF C!LeaseRunsOut, C!provider, C!threads, C!member
  <1>2. claim \in [Messages -> C!Claim] /\ faults' \in 0 .. MaxFaults
    BY <1>1 DEF Talked, C!TypeOK
  <1>3. /\ claim' \in [Messages -> C!Claim]
        /\ \A f \in Messages : claim'[f].state = claim[f].state /\ claim'[f].holder = claim[f].holder
    BY <1>1, <1>2 DEF C!Claim
  <1>4. C!TypeOK'
    BY <1>1, <1>2, <1>3 DEF Talked, C!TypeOK
  <1>5. Working' /\ Bound' /\ C!DecidedOnce'
    BY <1>1 DEF Talked, Working, Bound, C!DecidedOnce, C!Idle
  <1>6. \A f \in Messages \ overtaken' : Alone(f)'
    BY <1>1, <1>3 DEF Talked, Alone, C!Holds
  <1>7. \A f \in Messages : Effective(f)' /\ Settled(f)'
    BY <1>1, <1>3 DEF Talked, Effective, Settled
  <1> QED
    BY <1>4, <1>5, <1>6, <1>7 DEF Talked

-----------------------------------------------------------------------------
(* The member in the application                                           *)

\* What requests are at stays.
LEMMA MemberTalked ==
  ASSUME Talked, UNCHANGED <<said, posts, answered, early, overtaken, claim, receipt, messages, replies, work,
                             faults, effects, consentEvent>>,
         proposal' \in [Proposals -> {"NONE", "PENDING", "EXECUTED", "CLOSED"}],
         executed' \in [Proposals -> Messages \cup {None, Web}], C!DecidedOnce',
         \A f \in Messages : (\E q \in Proposals : executed'[q] = f) <=> (\E q \in Proposals : executed[q] = f),
         linked' \in BOOLEAN, parted' \in BOOLEAN, parted => parted', parted' \/ linked',
         codes' \in 0 .. MaxCodes, codes <= codes', challenge' \in C!Codes \cup {None},
         challenge' \in {None, challenge} \/ challenge' > codes, challenge' # None => challenge' <= codes',
         consent' \in {"OPTED_IN", "OPTED_OUT"}, changes' \in 0 .. MaxChanges
  PROVE  Talked'
  <1> USE NamesDiffer
  <1>1. C!TypeOK'
    BY DEF Talked, C!TypeOK
  <1>2. Working' /\ Bound'
    BY DEF Talked, Working, Bound, C!Idle
  <1>3. \A f \in Messages \ overtaken' : Alone(f)'
    BY DEF Talked, Alone, C!Holds
  <1>4. ASSUME NEW f \in Messages PROVE Effective(f)'
    <2>1. Effective(f)
      BY DEF Talked
    <2>2. said[f].kind = "LINK" /\ effects[f] > 0 => said[f].about <= codes' /\ challenge' # said[f].about
      <3> SUFFICES ASSUME said[f].kind = "LINK", effects[f] > 0
                   PROVE  said[f].about <= codes' /\ challenge' # said[f].about
        OBVIOUS
      <3>1. said[f].about \in 1 .. MaxCodes /\ said[f].about <= codes /\ challenge # said[f].about /\ codes \in 0 .. MaxCodes
        BY <2>1 DEF Talked, Bound, Effective, C!TypeOK
      <3>2. challenge' \in 1 .. MaxCodes \/ challenge' = None
        BY DEF C!Codes
      <3> QED
        BY <3>1, <3>2
    <2> QED
      BY <2>1, <2>2 DEF Effective
  <1>5. \A f \in Messages : Settled(f)'
    BY DEF Talked, Settled
  <1> QED
    BY <1>1, <1>2, <1>3, <1>4, <1>5 DEF Talked

LEMMA DecideTalked == ASSUME Talked, NEW p \in Proposals, C!DecideInApp(p) PROVE Talked'
  <1> USE NamesDiffer
  <1>1. /\ proposal[p] = "PENDING"
        /\ \/ C!Execute(p, Web)
           \/ proposal' = [proposal EXCEPT ![p] = "CLOSED"] /\ UNCHANGED executed
        /\ UNCHANGED <<said, changes, posts, answered, early, overtaken, claim, receipt, messages,
                       linked, parted, codes, challenge, consent, consentEvent, replies, work, faults, effects>>
    BY DEF C!DecideInApp, C!provider, C!member
  <1>2. /\ linked \in BOOLEAN /\ parted \in BOOLEAN /\ codes \in 0 .. MaxCodes /\ challenge \in C!Codes \cup {None}
        /\ consent \in {"OPTED_IN", "OPTED_OUT"} /\ changes \in 0 .. MaxChanges
        /\ codes <= codes /\ (challenge # None => challenge <= codes)
    BY DEF Talked, C!TypeOK, Bound
  <1>3. /\ proposal' \in [Proposals -> {"NONE", "PENDING", "EXECUTED", "CLOSED"}]
        /\ executed' \in [Proposals -> Messages \cup {None, Web}] /\ C!DecidedOnce'
        /\ \A f \in Messages : (\E q \in Proposals : executed'[q] = f) <=> (\E q \in Proposals : executed[q] = f)
    <2>1. CASE C!Execute(p, Web)
      <3>1. Web \in Messages \cup {Web} /\ Messages \ {Web} = Messages
        OBVIOUS
      <3> QED
        BY <1>1, <2>1, <3>1, Executing
    <2>2. CASE proposal' = [proposal EXCEPT ![p] = "CLOSED"] /\ UNCHANGED executed
      BY <1>1, <2>2 DEF Talked, C!TypeOK, C!DecidedOnce
    <2> QED
      BY <1>1, <2>1, <2>2
  <1>4. parted' \/ linked'
    BY <1>1 DEF Talked, Bound
  <1> QED
    BY <1>1, <1>2, <1>3, <1>4, MemberTalked

LEMMA ChannelTalked ==
  ASSUME Talked,
         \/ C!createWhatsappChallenge
         \/ C!ChallengeExpires
         \/ C!unlink
         \/ \E c \in {"OPTED_IN", "OPTED_OUT"} : C!updatePreference(c)
  PROVE  Talked'
  <1> USE NamesDiffer
  <1>1. /\ linked \in BOOLEAN /\ parted \in BOOLEAN /\ codes \in 0 .. MaxCodes /\ challenge \in C!Codes \cup {None}
        /\ consent \in {"OPTED_IN", "OPTED_OUT"} /\ changes \in 0 .. MaxChanges
        /\ parted \/ linked
        /\ codes <= codes /\ (challenge # None => challenge <= codes)
        /\ proposal \in [Proposals -> {"NONE", "PENDING", "EXECUTED", "CLOSED"}]
        /\ executed \in [Proposals -> Messages \cup {None, Web}] /\ C!DecidedOnce
    BY DEF Talked, C!TypeOK, Bound
  <1>2. C!Changes => changes' \in 0 .. MaxChanges
    BY <1>1, DesksAssumption DEF C!Changes
  <1>3. UNCHANGED <<proposal, executed>> => C!DecidedOnce'
    BY <1>1 DEF C!DecidedOnce
  <1>4. CASE C!createWhatsappChallenge
    <2>1. /\ C!Changes /\ codes < MaxCodes /\ codes' = codes + 1 /\ challenge' = codes + 1
          /\ UNCHANGED <<said, posts, answered, early, overtaken, claim, receipt, messages, proposal, executed, replies,
                         work, faults, effects, linked, parted, consent, consentEvent>>
      BY <1>4 DEF C!createWhatsappChallenge, C!requests, C!threads
    <2>2. /\ codes' \in 0 .. MaxCodes /\ codes <= codes' /\ challenge' \in C!Codes /\ challenge' > codes /\ challenge' <= codes'
      BY <1>1, <2>1 DEF C!Codes
    <2> QED
      BY <1>1, <1>2, <1>3, <2>1, <2>2, MemberTalked
  <1>5. CASE C!ChallengeExpires
    <2>1. /\ challenge' = None
          /\ UNCHANGED <<said, posts, answered, early, overtaken, claim, receipt, messages, proposal, executed, replies,
                         work, faults, effects, linked, parted, codes, changes, consent, consentEvent>>
      BY <1>5 DEF C!ChallengeExpires, C!requests, C!threads
    <2> QED
      BY <1>1, <1>3, <2>1, MemberTalked
  <1>6. CASE C!unlink
    <2>1. /\ C!Changes /\ linked' = FALSE /\ parted' = TRUE /\ consent' = "OPTED_OUT"
          /\ UNCHANGED <<said, posts, answered, early, overtaken, claim, receipt, messages, proposal, executed, replies,
                         work, faults, effects, codes, challenge, consentEvent>>
      BY <1>6 DEF C!unlink, C!requests, C!threads
    <2> QED
      BY <1>1, <1>2, <1>3, <2>1, MemberTalked
  <1>7. ASSUME NEW c \in {"OPTED_IN", "OPTED_OUT"}, C!updatePreference(c) PROVE Talked'
    <2>1. /\ C!Changes /\ consent' = c
          /\ UNCHANGED <<said, posts, answered, early, overtaken, claim, receipt, messages, proposal, executed, replies,
                         work, faults, effects, linked, parted, codes, challenge, consentEvent>>
      BY <1>7 DEF C!updatePreference, C!requests, C!threads
    <2> QED
      BY <1>1, <1>2, <1>3, <2>1, MemberTalked
  <1> QED
    BY <1>4, <1>5, <1>6, <1>7

LEMMA TalkedStep == Talked /\ [C!Next]_conversation => Talked'
  <1> SUFFICES ASSUME Talked, [C!Next]_conversation PROVE Talked'
    OBVIOUS
  <1>1. ASSUME NEW i \in Instances, C!RequestNext(i) PROVE Talked'
    BY <1>1, LookTalked, UnboundTalked, SubmitTalked, LinkTalked, ConsentTalked, ActTalked, confirmTalked, cancelTalked,
       RefuseTalked, ReplyTalked, CompleteTalked, RetryTalked, FailTalked, CrashTalked, ReceiveTalked
    DEF C!RequestNext
  <1>2. CASE UNCHANGED conversation
    <2>1. UNCHANGED <<said, posts, answered, early, overtaken, claim, receipt, messages, proposal, executed, replies,
                      work, faults, effects, linked, parted, codes, challenge, consent, consentEvent, changes>>
      BY <1>2 DEF conversation
    <2>2. C!TypeOK' /\ Working' /\ Bound' /\ C!DecidedOnce'
      BY <2>1 DEF Talked, C!TypeOK, Working, Bound, C!DecidedOnce, C!Idle
    <2>3. \A f \in Messages : (f \notin overtaken => Alone(f)') /\ Effective(f)' /\ Settled(f)'
      BY <2>1 DEF Talked, Alone, Effective, Settled, C!Holds
    <2> QED
      BY <2>1, <2>2, <2>3 DEF Talked
  <1> QED
    BY <1>1, <1>2, LeaseTalked, DecideTalked, ChannelTalked DEF C!Next

LEMMA TalkedIsEnough ==
  Talked => C!TypeOK /\ C!EventsTakeEffectOnce /\ C!DecidedOnce /\ C!RepliesAreTrue /\ C!NothingIsForgotten
  <1> SUFFICES ASSUME Talked
               PROVE  C!TypeOK /\ C!EventsTakeEffectOnce /\ C!DecidedOnce /\ C!RepliesAreTrue /\ C!NothingIsForgotten
    OBVIOUS
  <1>1. ASSUME NEW e \in Messages
        PROVE  effects[e] <= 1 \/ (e \in overtaken /\ said[e].kind \in {"CANCEL", "START", "STOP"})
    <2>1. Effective(e) /\ said[e].kind \in C!Kinds
      BY DEF Talked, C!TypeOK, C!Message
    <2> QED
      BY <2>1 DEF Effective, C!Kinds
  <1>2. answered \subseteq Messages
    BY DEF Talked, C!TypeOK
  <1>3. C!RepliesAreTrue
    BY DEF Talked, Settled, C!RepliesAreTrue
  <1>4. C!NothingIsForgotten
    BY <1>2 DEF Talked, Settled, C!NothingIsForgotten
  <1> QED
    BY <1>1, <1>3, <1>4 DEF Talked, C!EventsTakeEffectOnce

-----------------------------------------------------------------------------
(* Integrations                                                            *)

Sending == [state : {"ABSENT", "PENDING", "FAILED", "DEAD_LETTER"}, attempts : Nat,
            version : 0 .. MaxTries, payload : Payloads \cup {None}]
Letter == [state : {"ABSENT", "OPEN", "RESOLVED"}, replays : Nat]

\* A delivery that is still to be tried has an attempt left, which the next
\* one that buries it uses up.
Tried(e) ==
  /\ delivery[e].attempts <= delivery[e].version
  /\ (delivery[e].state = "DEAD_LETTER") = (letter[e].state = "OPEN")
  /\ delivery[e].attempts <= MaxAttempts + letter[e].replays
  /\ delivery[e].state # "DEAD_LETTER" => delivery[e].attempts < MaxAttempts + letter[e].replays
  /\ \A t \in tried : t[1] = e => t[2] <= delivery[e].attempts

Sent ==
  /\ delivery \in [Outbound -> Sending] /\ letter \in [Outbound -> Letter]
  /\ tried \subseteq Outbound \X (1 .. MaxTries) /\ due \subseteq Outbound
  /\ \A e \in Outbound : Tried(e)

LEMMA SentInit == N!Init => Sent
  <1> SUFFICES ASSUME N!Init PROVE Sent
    OBVIOUS
  <1>1. /\ delivery = [e \in Outbound |-> N!NoDelivery] /\ letter = [e \in Outbound |-> N!NoLetter]
        /\ tried = {} /\ due = {}
    BY DEF N!Init
  <1>2. MaxTries \in Nat /\ 0 \in 0 .. MaxTries /\ MaxAttempts \in Nat \ {0}
    BY DesksAssumption
  <1>3. /\ N!NoDelivery \in Sending /\ N!NoLetter \in Letter
        /\ N!NoDelivery.state = "ABSENT" /\ N!NoDelivery.attempts = 0 /\ N!NoDelivery.version = 0
        /\ N!NoLetter.state = "ABSENT" /\ N!NoLetter.replays = 0
    BY <1>2 DEF N!NoDelivery, N!NoLetter, Sending, Letter
  <1> QED
    BY <1>1, <1>2, <1>3 DEF Sent, Tried

LEMMA Buried ==
  ASSUME NEW d \in Sending, d.version < MaxTries
  PROVE  /\ N!Bury(d) \in Sending
         /\ N!Bury(d).state = "DEAD_LETTER" /\ N!Bury(d).attempts = d.attempts + 1
         /\ N!Bury(d).version = d.version + 1
         /\ [N!Bury(d) EXCEPT !.state = "FAILED"] \in Sending
         /\ [N!Bury(d) EXCEPT !.state = "FAILED"].state = "FAILED"
         /\ [N!Bury(d) EXCEPT !.state = "FAILED"].attempts = d.attempts + 1
         /\ [N!Bury(d) EXCEPT !.state = "FAILED"].version = d.version + 1
  <1> DEFINE a == d.attempts + 1
             v == d.version + 1
             bury == [d EXCEPT !.state = "DEAD_LETTER", !.attempts = a, !.version = v]
  <1>1. N!Bury(d) = bury
    BY DEF N!Bury
  <1>2. a \in Nat /\ v \in 0 .. MaxTries
    BY DesksAssumption DEF Sending
  <1> HIDE DEF a, v
  <1>3. bury \in Sending /\ bury.state = "DEAD_LETTER" /\ bury.attempts = a /\ bury.version = v
    BY <1>2 DEF Sending
  <1> HIDE DEF bury
  <1>4. /\ [bury EXCEPT !.state = "FAILED"] \in Sending
        /\ [bury EXCEPT !.state = "FAILED"].state = "FAILED"
        /\ [bury EXCEPT !.state = "FAILED"].attempts = bury.attempts
        /\ [bury EXCEPT !.state = "FAILED"].version = bury.version
    BY <1>3 DEF Sending
  <1> QED
    BY <1>1, <1>3, <1>4 DEF a, v

LEMMA Queuing ==
  ASSUME NEW p \in Payloads
  PROVE  N!Queued(p) \in Sending /\ N!Queued(p).state = "PENDING" /\ N!Queued(p).attempts = 0 /\ N!Queued(p).version = 1
  BY DesksAssumption DEF N!Queued, Sending

LEMMA TryBounds == MaxAttempts \in Nat /\ MaxAttempts > 0 /\ MaxTries \in Nat /\ MaxTries > 0
  BY DesksAssumption

\* What a delivery and its letter are made of.
LEMMA SentParts ==
  ASSUME Sent, NEW e \in Outbound
  PROVE  /\ delivery[e] \in Sending /\ letter[e] \in Letter /\ Tried(e)
         /\ delivery[e].attempts \in Nat /\ delivery[e].version \in Nat /\ letter[e].replays \in Nat
         /\ MaxAttempts + letter[e].replays \in Nat
         /\ tried \subseteq Outbound \X (1 .. MaxTries)
         /\ \A t \in tried : t[2] \in Nat
         /\ \A t \in tried : t[1] = e => t[2] <= delivery[e].attempts
  <1>1. delivery[e] \in Sending /\ letter[e] \in Letter /\ Tried(e) /\ tried \subseteq Outbound \X (1 .. MaxTries)
    BY DEF Sent
  <1>2. delivery[e].attempts \in Nat /\ delivery[e].version \in 0 .. MaxTries /\ letter[e].replays \in Nat
    BY <1>1 DEF Sending, Letter
  <1>3. delivery[e].version \in Nat /\ MaxAttempts + letter[e].replays \in Nat
    BY <1>2, TryBounds
  <1>4. \A t \in tried : t[2] \in Nat
    BY <1>1, TryBounds
  <1>5. \A t \in tried : t[1] = e => t[2] <= delivery[e].attempts
    BY <1>1 DEF Tried
  <1> QED
    BY <1>1, <1>2, <1>3, <1>4, <1>5

\* One delivery moves; its letter with it.
LEMMA OneSent ==
  ASSUME Sent, NEW e \in Outbound, NEW d \in Sending, NEW l \in Letter,
         delivery' = [delivery EXCEPT ![e] = d], letter' = [letter EXCEPT ![e] = l],
         UNCHANGED tried, due' \subseteq Outbound,
         d.attempts <= d.version, (d.state = "DEAD_LETTER") = (l.state = "OPEN"),
         d.attempts <= MaxAttempts + l.replays,
         d.state # "DEAD_LETTER" => d.attempts < MaxAttempts + l.replays,
         delivery[e].attempts <= d.attempts
  PROVE  Sent'
  <1>1. /\ delivery' \in [Outbound -> Sending] /\ letter' \in [Outbound -> Letter]
        /\ delivery'[e] = d /\ letter'[e] = l
        /\ \A x \in Outbound \ {e} : delivery'[x] = delivery[x] /\ letter'[x] = letter[x]
    BY DEF Sent
  <1>2. \A t \in tried : t[1] = e => t[2] <= d.attempts
    <2> SUFFICES ASSUME NEW t \in tried, t[1] = e PROVE t[2] <= d.attempts
      OBVIOUS
    <2>1. t[2] <= delivery[e].attempts /\ t[2] \in Nat /\ delivery[e].attempts \in Nat
      BY SentParts
    <2>2. d.attempts \in Nat
      BY DEF Sending
    <2> QED
      BY <2>1, <2>2
  <1>3. Tried(e)'
    BY <1>1, <1>2 DEF Tried
  <1>4. \A x \in Outbound \ {e} : Tried(x)'
    BY <1>1 DEF Sent, Tried
  <1> QED
    BY <1>1, <1>3, <1>4 DEF Sent

LEMMA RecordSent == ASSUME Sent, NEW e \in Outbound, NEW p \in Payloads, N!recordDelivery(e, p) PROVE Sent'
  <1>1. /\ delivery[e] = N!NoDelivery /\ delivery' = [delivery EXCEPT ![e] = N!Queued(p)]
        /\ due' = due \cup {e} /\ UNCHANGED <<letter, tried>>
    BY DEF N!recordDelivery
  <1>2. letter[e] \in Letter /\ letter' = [letter EXCEPT ![e] = letter[e]] /\ due' \subseteq Outbound
    BY <1>1 DEF Sent
  <1>3. letter[e].state # "OPEN" /\ delivery[e].attempts = 0
    BY <1>1 DEF Sent, Tried, N!NoDelivery
  <1>4. 0 < MaxAttempts + letter[e].replays /\ 0 <= MaxAttempts + letter[e].replays
    BY <1>2, DesksAssumption DEF Letter
  <1> DEFINE d == N!Queued(p)
  <1>5. d \in Sending /\ d.state = "PENDING" /\ d.attempts = 0 /\ d.version = 1
    BY Queuing
  <1>6. delivery' = [delivery EXCEPT ![e] = d] /\ UNCHANGED tried
    BY <1>1
  <1> HIDE DEF d
  <1>7. delivery[e].attempts <= d.attempts /\ d.attempts <= d.version /\ (d.state = "DEAD_LETTER") = (letter[e].state = "OPEN")
    BY <1>3, <1>5
  <1> QED
    BY <1>2, <1>4, <1>5, <1>6, <1>7, OneSent

LEMMA OpenedIs ==
  ASSUME NEW l \in Letter
  PROVE  N!Opened(l) \in Letter /\ N!Opened(l).state = "OPEN" /\ N!Opened(l).replays = l.replays
  BY DEF N!Opened, Letter

LEMMA FailSent == ASSUME Sent, NEW e \in Outbound, NEW p \in Payloads, N!recordFailedDelivery(e, p) PROVE Sent'
  <1> DEFINE d == IF delivery[e] = N!NoDelivery THEN N!Queued(p) ELSE delivery[e]
  <1>1. /\ d.state \in {"PENDING", "FAILED"} /\ d.version < MaxTries
        /\ delivery' = [delivery EXCEPT ![e] = N!Bury(d)]
        /\ letter' = [letter EXCEPT ![e] = N!Opened(@)]
        /\ due' = due \cup {e} /\ UNCHANGED tried
    BY Zenon DEF N!recordFailedDelivery
  <1>2. d \in Sending /\ d.attempts <= d.version /\ d.attempts < MaxAttempts + letter[e].replays /\ delivery[e].attempts <= d.attempts
    <2>1. CASE delivery[e] = N!NoDelivery
      <3>1. delivery[e].attempts = 0 /\ 0 < MaxAttempts + letter[e].replays
        BY <2>1, DesksAssumption DEF Sent, Letter, N!NoDelivery
      <3> QED
        BY <2>1, <3>1, Queuing
    <2>2. CASE delivery[e] # N!NoDelivery
      BY <1>1, <2>2 DEF Sent, Tried, Sending
    <2> QED
      BY <2>1, <2>2
  <1> HIDE DEF d
  <1>3. letter[e] \in Letter /\ letter' = [letter EXCEPT ![e] = N!Opened(letter[e])] /\ due' \subseteq Outbound
    BY <1>1 DEF Sent
  <1> DEFINE b == N!Bury(d)
             l == N!Opened(letter[e])
  <1>4. b \in Sending /\ b.state = "DEAD_LETTER" /\ b.attempts = d.attempts + 1 /\ b.version = d.version + 1
    BY <1>1, <1>2, Buried
  <1>5. l \in Letter /\ l.state = "OPEN" /\ l.replays = letter[e].replays
    BY <1>3, OpenedIs
  <1>6. delivery' = [delivery EXCEPT ![e] = b] /\ letter' = [letter EXCEPT ![e] = l] /\ UNCHANGED tried
    BY <1>1, <1>3
  <1> HIDE DEF b, l
  <1>7. /\ b.attempts <= b.version /\ b.attempts <= MaxAttempts + l.replays /\ delivery[e].attempts <= b.attempts
    <2>1. MaxAttempts + letter[e].replays \in Nat /\ delivery[e].attempts \in Nat
      BY SentParts
    <2>2. d.attempts \in Nat /\ d.version \in Nat
      BY <1>2, TryBounds DEF Sending
    <2> QED
      BY <1>2, <1>4, <1>5, <2>1, <2>2
  <1> QED
    BY <1>3, <1>4, <1>5, <1>6, <1>7, OneSent

LEMMA ReplaySent == ASSUME Sent, NEW e \in Outbound, N!replay(e) PROVE Sent'
  <1> DEFINE v == delivery[e].version + 1
             r == letter[e].replays + 1
             d == [[delivery[e] EXCEPT !.state = "PENDING"] EXCEPT !.version = v]
             l == [state |-> "RESOLVED", replays |-> r]
  <1>1. /\ delivery[e].state = "DEAD_LETTER" /\ delivery[e].version < MaxTries
        /\ delivery' = [delivery EXCEPT ![e].state = "PENDING", ![e].version = @ + 1]
        /\ letter' = [letter EXCEPT ![e] = [state |-> "RESOLVED", replays |-> @.replays + 1]]
        /\ due' = due \cup {e} /\ UNCHANGED tried
    BY Zenon DEF N!replay
  <1>2. /\ delivery[e] \in Sending /\ letter[e] \in Letter /\ v \in 0 .. MaxTries /\ r \in Nat
        /\ delivery[e].attempts \in Nat /\ delivery[e].version \in Nat
        /\ delivery[e].attempts <= delivery[e].version /\ delivery[e].attempts <= MaxAttempts + letter[e].replays
    <2>1. /\ delivery[e] \in Sending /\ letter[e] \in Letter /\ Tried(e)
          /\ delivery[e].attempts \in Nat /\ delivery[e].version \in Nat /\ letter[e].replays \in Nat
      BY SentParts
    <2>2. v \in 0 .. MaxTries /\ r \in Nat
      BY <1>1, <2>1, TryBounds
    <2> QED
      BY <2>1, <2>2 DEF Tried
  <1>3. delivery' = [delivery EXCEPT ![e] = d] /\ letter' = [letter EXCEPT ![e] = l] /\ due' \subseteq Outbound
    BY <1>1, <1>2 DEF Sent, Sending
  <1>4. delivery[e].attempts <= v /\ delivery[e].attempts < MaxAttempts + r
    <2>1. MaxAttempts \in Nat /\ letter[e].replays \in Nat
      BY <1>2, DesksAssumption DEF Letter
    <2> QED
      BY <1>2, <2>1
  <1> HIDE DEF v, r
  <1>5. d \in Sending /\ d.state = "PENDING" /\ d.attempts = delivery[e].attempts /\ d.version = v
    BY <1>2 DEF Sending
  <1>6. l \in Letter /\ l.state = "RESOLVED" /\ l.replays = r
    BY <1>2 DEF Letter
  <1> HIDE DEF d, l
  <1>7. d.attempts <= MaxAttempts + l.replays /\ delivery[e].attempts <= d.attempts
    <2>1. MaxAttempts + r \in Nat
      BY <1>2, DesksAssumption
    <2> QED
      BY <1>2, <1>4, <1>5, <1>6, <2>1
  <1>8. UNCHANGED tried
    BY <1>1
  <1> QED
    BY <1>3, <1>4, <1>5, <1>6, <1>7, <1>8, OneSent

LEMMA RunSent == ASSUME Sent, NEW S \in SUBSET Outbound, N!integrationDeliveries(S) PROVE Sent'
  <1> DEFINE gives(e) == delivery[e].attempts + 1 >= MaxAttempts
  <1>1. /\ \A e \in S : delivery[e].state \in {"PENDING", "FAILED"} /\ delivery[e].version < MaxTries
        /\ tried' = tried \cup {<<e, delivery[e].attempts + 1>> : e \in S}
        /\ delivery' = [e \in Outbound |->
             IF e \notin S THEN delivery[e]
             ELSE IF gives(e) THEN N!Bury(delivery[e])
             ELSE [N!Bury(delivery[e]) EXCEPT !.state = "FAILED"]]
        /\ letter' = [e \in Outbound |-> IF e \in S /\ gives(e) THEN N!Opened(letter[e]) ELSE letter[e]]
        /\ due' = due \ {e \in S : ~gives(e)}
    BY DEF N!integrationDeliveries
  <1> HIDE DEF gives
  <1>2. \A e \in Outbound : /\ delivery[e] \in Sending /\ letter[e] \in Letter /\ Tried(e)
                            /\ delivery[e].attempts \in Nat /\ delivery[e].version \in Nat /\ letter[e].replays \in Nat
    BY SentParts
  <1>3. \A e \in Outbound \ S : delivery'[e] = delivery[e] /\ letter'[e] = letter[e]
    BY <1>1
  <1>4. \A e \in S : /\ delivery'[e] \in Sending
                     /\ delivery'[e].state = IF gives(e) THEN "DEAD_LETTER" ELSE "FAILED"
                     /\ delivery'[e].attempts = delivery[e].attempts + 1
                     /\ delivery'[e].version = delivery[e].version + 1
    BY <1>1, <1>2, Buried
  <1>5. \A e \in S : /\ letter'[e] \in Letter /\ letter'[e].replays = letter[e].replays
                     /\ letter'[e].state = IF gives(e) THEN "OPEN" ELSE letter[e].state
    BY <1>1, <1>2, OpenedIs
  <1>6. delivery' \in [Outbound -> Sending] /\ letter' \in [Outbound -> Letter] /\ due' \subseteq Outbound
    <2>1. /\ delivery' = [e \in Outbound |-> delivery'[e]]
          /\ letter' = [e \in Outbound |-> letter'[e]]
      BY <1>1
    <2> QED
      BY <1>1, <1>2, <1>3, <1>4, <1>5, <2>1 DEF Sent
  <1>7. tried' \subseteq Outbound \X (1 .. MaxTries)
    <2>1. \A e \in S : delivery[e].attempts + 1 \in 1 .. MaxTries
      <3> SUFFICES ASSUME NEW e \in S PROVE delivery[e].attempts + 1 \in 1 .. MaxTries
        OBVIOUS
      <3>1. /\ delivery[e].attempts \in Nat /\ delivery[e].version \in Nat
            /\ delivery[e].version < MaxTries /\ delivery[e].attempts <= delivery[e].version
        BY <1>1, <1>2 DEF Tried
      <3> QED
        BY <3>1, TryBounds
    <2> QED
      BY <1>1, <2>1 DEF Sent
  <1>8. \A t \in tried' : t \in tried \/ (t[1] \in S /\ t[2] = delivery[t[1]].attempts + 1)
    BY <1>1
  <1>9. ASSUME NEW e \in Outbound \ S PROVE Tried(e)'
    <2>1. \A t \in tried' : t[1] = e => t \in tried
      BY <1>8
    <2> QED
      BY <1>2, <1>3, <2>1 DEF Tried
  <1>10. ASSUME NEW e \in S PROVE Tried(e)'
    <2> DEFINE n == delivery[e].attempts
               v == delivery[e].version
               r == letter[e].replays
    <2>1. n \in Nat /\ v \in Nat /\ r \in Nat /\ MaxAttempts \in Nat /\ n <= v /\ n < MaxAttempts + r
      BY <1>1, <1>2, TryBounds DEF Tried
    <2>2. \A t \in tried : t[1] = e => t[2] <= n /\ t[2] \in Nat
      BY SentParts
    <2>3. ~gives(e) => n + 1 < MaxAttempts
      BY <2>1 DEF gives
    <2>4. letter[e].state # "OPEN"
      BY <1>1, <1>2 DEF Tried
    <2>5. /\ delivery'[e].attempts = n + 1 /\ delivery'[e].version = v + 1 /\ letter'[e].replays = r
          /\ \A t \in tried' : t[1] = e => t \in tried \/ t[2] = n + 1
      BY <1>4, <1>5, <1>8
    <2> HIDE DEF n, v, r
    <2>6. n + 1 <= v + 1 /\ n + 1 <= MaxAttempts + r /\ (~gives(e) => n + 1 < MaxAttempts + r)
      BY <2>1, <2>3
    <2>7. \A t \in tried' : t[1] = e => t[2] <= n + 1
      BY <2>1, <2>2, <2>5
    <2>8. (delivery'[e].state = "DEAD_LETTER") = (letter'[e].state = "OPEN") /\ (delivery'[e].state # "DEAD_LETTER" => ~gives(e))
      BY <1>4, <1>5, <2>4
    <2> QED
      BY <2>5, <2>6, <2>7, <2>8 DEF Tried
  <1> QED
    BY <1>6, <1>7, <1>9, <1>10 DEF Sent

LEMMA SentStays == Sent /\ UNCHANGED <<delivery, letter, tried>> /\ due' \subseteq Outbound => Sent'
  BY DEF Sent, Tried

-----------------------------------------------------------------------------
Client == [state : {"ABSENT", "ACTIVE", "ROTATING"}, expires : Nat \cup {None}, from : Clients \cup {None}]

\* Of every root that is to be valid yet some descendant is, with the expiry
\* that the root was created with.
Kin(r) == \E c \in Clients : N!Accepted(c) /\ N!GoesBack(c, r) /\ client[c].expires = meant[r]

Trusted ==
  /\ client \in [Clients -> Client] /\ clock \in Nat /\ meant \in [Clients -> Nat \cup {None}]
  /\ DOMAIN webhooks \subseteq Clients \X EventKeys
  /\ \A c \in Clients : IF client[c].state = "ABSENT" THEN client[c] = N!NoClient ELSE client[c].expires \in Nat
  /\ \A r \in Roots : client[r] # N!NoClient => meant[r] \in Nat /\ (meant[r] > clock => Kin(r))
  /\ \A c \in Clients : client[c].state = "ROTATING" => client[c].expires <= clock + Window

LEMMA NoClientIs == N!NoClient \in Client /\ N!NoClient.state = "ABSENT" /\ N!NoClient.from = None
  BY DEF N!NoClient, Client

LEMMA TrustedInit == N!Init => Trusted
  <1> SUFFICES ASSUME N!Init PROVE Trusted
    OBVIOUS
  <1>1. /\ client = [c \in Clients |-> N!NoClient] /\ clock = 0 /\ webhooks = [k \in {} |-> None]
        /\ meant = [c \in Clients |-> None]
    BY DEF N!Init
  <1>2. Roots \subseteq Clients
    BY DesksAssumption
  <1> QED
    BY <1>1, <1>2, NoClientIs DEF Trusted

LEMMA CreateTrusted ==
  ASSUME Trusted, NEW c \in Clients, NEW x \in 1 .. N!Never, N!createApiClient(c, x)
  PROVE  Trusted'
  <1> DEFINE row == [state |-> "ACTIVE", expires |-> x, from |-> None]
  <1>1. /\ c \in Roots /\ client[c] = N!NoClient
        /\ client' = [client EXCEPT ![c] = row] /\ meant' = [meant EXCEPT ![c] = x] /\ UNCHANGED <<clock, webhooks>>
    BY DEF N!createApiClient
  <1>2. x \in Nat
    BY DesksAssumption DEF N!Never
  <1>3. row \in Client /\ row.state = "ACTIVE" /\ row.expires = x /\ row.from = None /\ row # N!NoClient
    BY <1>2, NoClientIs DEF Client
  <1> HIDE DEF row
  <1>4. /\ client' \in [Clients -> Client] /\ client'[c] = row /\ meant' \in [Clients -> Nat \cup {None}] /\ meant'[c] = x
        /\ \A d \in Clients \ {c} : client'[d] = client[d] /\ meant'[d] = meant[d]
    BY <1>1, <1>2, <1>3 DEF Trusted
  <1>5. \A d \in Clients : client'[d].from = client[d].from
    BY <1>1, <1>3, <1>4, NoClientIs
  <1>6. \A d, r \in Clients : N!GoesBack(d, r)' = N!GoesBack(d, r)
    BY <1>5 DEF N!GoesBack
  <1>7. N!GoesBack(c, c)
    BY DEF N!GoesBack
  <1>8. ASSUME NEW r \in Roots, client'[r] # N!NoClient
        PROVE  meant'[r] \in Nat /\ (meant'[r] > clock' => Kin(r)')
    <2>0. r \in Clients
      BY DesksAssumption
    <2>1. CASE r = c
      <3>1. x > clock => N!Accepted(c)' /\ N!GoesBack(c, c)' /\ client'[c].expires = meant'[c]
        BY <1>1, <1>3, <1>4, <1>6, <1>7 DEF N!Accepted, N!NoClient
      <3> QED
        BY <1>1, <1>2, <1>4, <2>1, <3>1 DEF Kin
    <2>2. CASE r # c
      <3>1. client'[r] = client[r] /\ meant'[r] = meant[r] /\ meant[r] \in Nat /\ (meant[r] > clock => Kin(r))
        BY <1>4, <1>8, <2>0, <2>2 DEF Trusted
      <3>2. ASSUME NEW d \in Clients, N!Accepted(d), N!GoesBack(d, r), client[d].expires = meant[r]
            PROVE  Kin(r)'
        <4>1. d # c
          BY <1>1, <3>2 DEF N!Accepted
        <4>2. client'[d] = client[d]
          BY <1>4, <4>1
        <4>3. N!Accepted(d)' /\ N!GoesBack(d, r)' /\ client'[d].expires = meant'[r]
          BY <1>1, <1>6, <2>0, <3>1, <3>2, <4>2 DEF N!Accepted, N!NoClient
        <4> QED
          BY <4>3 DEF Kin
      <3> QED
        BY <1>1, <3>1, <3>2 DEF Kin
    <2> QED
      BY <2>1, <2>2
  <1>9. \A d \in Clients : IF client'[d].state = "ABSENT" THEN client'[d] = N!NoClient ELSE client'[d].expires \in Nat
    BY <1>2, <1>3, <1>4 DEF Trusted
  <1>10. \A d \in Clients : client'[d].state = "ROTATING" => client'[d].expires <= clock' + Window
    BY <1>1, <1>3, <1>4 DEF Trusted
  <1>11. clock' \in Nat /\ DOMAIN webhooks' \subseteq Clients \X EventKeys
    BY <1>1 DEF Trusted
  <1> QED
    BY <1>4, <1>8, <1>9, <1>10, <1>11 DEF Trusted, N!NoClient

\* The new credential takes over what the old one was to be.
LEMMA RotateTrusted ==
  ASSUME Trusted, NEW c \in Clients, NEW d \in Clients, N!rotateApiClient(c, d)
  PROVE  Trusted'
  <1> DEFINE least == N!Least(client[c].expires, clock + Window)
             old == [[client[c] EXCEPT !.state = "ROTATING"] EXCEPT !.expires = least]
             new == [state |-> "ACTIVE", expires |-> client[c].expires, from |-> c]
  <1>1. /\ client[c] # N!NoClient /\ d \notin Roots /\ client[d] = N!NoClient
        /\ client' = [client EXCEPT ![d] = N!Successor(c),
                                    ![c].state = "ROTATING",
                                    ![c].expires = N!Least(@, clock + Window)]
        /\ UNCHANGED <<clock, webhooks, meant>>
    BY Zenon DEF N!rotateApiClient
  <1>2. client[c] \in Client /\ client[c].state # "ABSENT" /\ client[c].expires \in Nat /\ c # d
    BY <1>1 DEF Trusted
  <1>3. least \in Nat /\ least <= clock + Window /\ Window \in Nat
    BY <1>2, DesksAssumption DEF Trusted, N!Least
  <1>4. client' = [[client EXCEPT ![d] = new] EXCEPT ![c] = old]
    <2>1. client \in [Clients -> Client]
      BY DEF Trusted
    <2> QED
      BY <1>1, <1>2, <2>1 DEF N!Successor, Client
  <1> HIDE DEF least
  <1>5. old \in Client /\ old.state = "ROTATING" /\ old.expires = least /\ old.from = client[c].from
    BY <1>2, <1>3 DEF Client
  <1>6. new \in Client /\ new.state = "ACTIVE" /\ new.expires = client[c].expires /\ new.from = c
    BY <1>2 DEF Client
  <1> HIDE DEF old, new
  <1>7. /\ client' \in [Clients -> Client] /\ client'[d] = new /\ client'[c] = old
        /\ \A x \in Clients \ {c, d} : client'[x] = client[x]
    BY <1>2, <1>4, <1>5, <1>6 DEF Trusted
  <1>8. /\ client'[d].from = c /\ client[d].from = None
        /\ \A x \in Clients \ {d} : client'[x].from = client[x].from
    BY <1>1, <1>5, <1>6, <1>7, NoClientIs
  <1>9. \A x, r \in Clients : N!GoesBack(x, r) => N!GoesBack(x, r)' /\ (x = c => N!GoesBack(d, r)')
    <2> SUFFICES ASSUME NEW x \in Clients, NEW r \in Clients, N!GoesBack(x, r),
                        NEW S \in SUBSET Clients, r \in S, \A y \in Clients : client'[y].from \in S => y \in S
                 PROVE  x \in S /\ (x = c => d \in S)
      BY DEF N!GoesBack
    <2>1. None \notin S
      BY DesksAssumption
    <2>2. \A y \in Clients : client[y].from \in S => y \in S
      BY <1>8, <2>1
    <2>3. x \in S
      BY <2>2 DEF N!GoesBack
    <2> QED
      BY <1>8, <2>3
  <1>10. ASSUME NEW r \in Roots, client'[r] # N!NoClient
         PROVE  meant'[r] \in Nat /\ (meant'[r] > clock' => Kin(r)')
    <2>0. r \in Clients /\ r # d
      BY <1>1, DesksAssumption
    <2>1. client[r] # N!NoClient
      BY <1>1, <1>7, <1>10, <2>0
    <2>2. meant[r] \in Nat /\ (meant[r] > clock => Kin(r))
      BY <2>1 DEF Trusted
    <2>3. ASSUME NEW x \in Clients, N!Accepted(x), N!GoesBack(x, r), client[x].expires = meant[r]
          PROVE  Kin(r)'
      <3>1. x # d
        BY <1>1, <2>3 DEF N!Accepted
      <3>2. CASE x = c
        <4>1. client'[d].expires = meant[r] /\ meant[r] > clock /\ client'[d] # N!NoClient
          BY <1>6, <1>7, <2>3, <3>2, NoClientIs DEF N!Accepted
        <4>2. N!Accepted(d)' /\ N!GoesBack(d, r)' /\ client'[d].expires = meant'[r]
          BY <1>1, <1>9, <2>0, <2>3, <3>2, <4>1 DEF N!Accepted, N!NoClient
        <4> QED
          BY <4>2 DEF Kin
      <3>3. CASE x # c
        <4>1. client'[x] = client[x]
          BY <1>7, <3>1, <3>3
        <4>2. N!Accepted(x)' /\ N!GoesBack(x, r)' /\ client'[x].expires = meant'[r]
          BY <1>1, <1>9, <2>0, <2>3, <4>1 DEF N!Accepted, N!NoClient
        <4> QED
          BY <4>2 DEF Kin
      <3> QED
        BY <3>2, <3>3
    <2> QED
      BY <1>1, <2>2, <2>3 DEF Kin
  <1>11. \A x \in Clients : IF client'[x].state = "ABSENT" THEN client'[x] = N!NoClient ELSE client'[x].expires \in Nat
    BY <1>2, <1>3, <1>5, <1>6, <1>7 DEF Trusted
  <1>12. \A x \in Clients : client'[x].state = "ROTATING" => client'[x].expires <= clock' + Window
    BY <1>1, <1>3, <1>5, <1>6, <1>7 DEF Trusted
  <1>13. clock' \in Nat /\ DOMAIN webhooks' \subseteq Clients \X EventKeys /\ meant' \in [Clients -> Nat \cup {None}]
    BY <1>1 DEF Trusted
  <1> QED
    BY <1>7, <1>10, <1>11, <1>12, <1>13 DEF Trusted, N!NoClient

LEMMA TrustedLater ==
  ASSUME Trusted, UNCHANGED <<client, meant>>, clock' = clock \/ clock' = clock + 1,
         DOMAIN webhooks' \subseteq Clients \X EventKeys
  PROVE  Trusted'
  <1>1. clock' \in Nat /\ clock <= clock' /\ clock \in Nat /\ Window \in Nat
    BY DesksAssumption DEF Trusted
  <1>2. \A x, r \in Clients : N!GoesBack(x, r)' = N!GoesBack(x, r)
    BY DEF N!GoesBack
  <1>3. ASSUME NEW r \in Roots, client[r] # N!NoClient, meant[r] > clock' PROVE Kin(r)'
    <2>1. meant[r] \in Nat /\ meant[r] > clock /\ r \in Clients
      BY <1>1, <1>3, DesksAssumption DEF Trusted
    <2>2. PICK x \in Clients : N!Accepted(x) /\ N!GoesBack(x, r) /\ client[x].expires = meant[r]
      BY <1>3, <2>1 DEF Trusted, Kin
    <2>3. N!Accepted(x)' /\ N!GoesBack(x, r)' /\ client'[x].expires = meant'[r]
      BY <1>2, <1>3, <2>1, <2>2 DEF N!Accepted, N!NoClient
    <2> QED
      BY <2>3 DEF Kin
  <1>4. \A c \in Clients : client[c].state = "ROTATING" => client[c].expires <= clock' + Window
    BY <1>1 DEF Trusted
  <1> QED
    BY <1>1, <1>3, <1>4 DEF Trusted, N!NoClient

LEMMA IntegratedStep == Sent /\ Trusted /\ [N!Next]_<<outgoing, incoming>> => Sent' /\ Trusted'
  <1> SUFFICES ASSUME Sent, Trusted, [N!Next]_<<outgoing, incoming>> PROVE Sent' /\ Trusted'
    OBVIOUS
  <1>1. UNCHANGED incoming => Trusted'
    <2> SUFFICES ASSUME UNCHANGED incoming PROVE Trusted'
      OBVIOUS
    <2>1. UNCHANGED <<client, clock, webhooks, meant>> /\ DOMAIN webhooks' \subseteq Clients \X EventKeys
      BY DEF incoming, Trusted
    <2> QED
      BY <2>1, TrustedLater
  <1>2. UNCHANGED outgoing => Sent'
    BY SentStays DEF outgoing, Sent
  <1>3. N!outgoing = outgoing /\ N!incoming = incoming
    BY DEF N!outgoing, outgoing, N!incoming, incoming
  <1>4. ASSUME NEW e \in Outbound, NEW p \in Payloads, N!recordDelivery(e, p) \/ N!recordFailedDelivery(e, p)
        PROVE  Sent' /\ Trusted'
    BY <1>1, <1>3, <1>4, RecordSent, FailSent DEF N!recordDelivery, N!recordFailedDelivery, N!incoming, incoming
  <1>5. ASSUME NEW e \in Outbound, N!replay(e) PROVE Sent' /\ Trusted'
    BY <1>1, <1>3, <1>5, ReplaySent DEF N!replay, N!incoming, incoming
  <1>6. ASSUME NEW e \in Outbound, N!BackoffEnds(e) PROVE Sent' /\ Trusted'
    <2>1. UNCHANGED <<delivery, letter, tried>> /\ due' \subseteq Outbound /\ UNCHANGED incoming
      BY <1>6 DEF N!BackoffEnds, N!incoming, incoming, Sent
    <2> QED
      BY <1>1, <2>1, SentStays
  <1>7. ASSUME NEW S \in SUBSET Outbound, N!integrationDeliveries(S) PROVE Sent' /\ Trusted'
    BY <1>1, <1>7, RunSent DEF N!integrationDeliveries, N!incoming, incoming
  <1>8. ASSUME NEW c \in Clients, NEW x \in 1 .. N!Never, N!createApiClient(c, x) PROVE Sent' /\ Trusted'
    BY <1>2, <1>8, CreateTrusted DEF N!createApiClient, N!outgoing, outgoing
  <1>9. ASSUME NEW c \in Clients, NEW d \in Clients, N!rotateApiClient(c, d) PROVE Sent' /\ Trusted'
    BY <1>2, <1>9, RotateTrusted DEF N!rotateApiClient, N!outgoing, outgoing
  <1>10. ASSUME NEW c \in Clients, NEW k \in EventKeys, NEW p \in Payloads, N!ingestWebhook(c, k, p)
         PROVE  Sent' /\ Trusted'
    <2>1. /\ UNCHANGED <<client, clock, meant>> /\ UNCHANGED outgoing
          /\ DOMAIN webhooks' = DOMAIN webhooks \cup {<<c, k>>}
      BY <1>10 DEF N!ingestWebhook, N!outgoing, outgoing
    <2>2. DOMAIN webhooks' \subseteq Clients \X EventKeys
      BY <2>1 DEF Trusted
    <2> QED
      BY <1>2, <2>1, <2>2, TrustedLater
  <1>11. CASE N!Tick
    <2>1. UNCHANGED <<client, meant, webhooks>> /\ clock' = clock + 1 /\ UNCHANGED outgoing
      BY <1>11 DEF N!Tick, N!outgoing, outgoing
    <2>2. DOMAIN webhooks' \subseteq Clients \X EventKeys
      BY <2>1 DEF Trusted
    <2> QED
      BY <1>2, <2>1, <2>2, TrustedLater
  <1>12. CASE UNCHANGED <<outgoing, incoming>>
    BY <1>1, <1>2, <1>12
  <1> QED
    BY <1>4, <1>5, <1>6, <1>7, <1>8, <1>9, <1>10, <1>11, <1>12 DEF N!Next

LEMMA IntegratedIsEnough == Sent /\ Trusted => N!TypeOK /\ N!LettersMatch /\ N!RotationKeepsAccess
  <1> SUFFICES ASSUME Sent, Trusted PROVE N!TypeOK /\ N!LettersMatch /\ N!RotationKeepsAccess
    OBVIOUS
  <1>1. N!TypeOK
    BY DEF Sent, Trusted, Sending, Letter, Client, N!TypeOK
  <1>2. N!LettersMatch
    BY DEF Sent, Tried, N!LettersMatch
  <1>3. N!RotationKeepsAccess
    BY DEF Trusted, Kin, N!RotationKeepsAccess
  <1> QED
    BY <1>1, <1>2, <1>3

-----------------------------------------------------------------------------
(* Alerts                                                                  *)

Observation == [level : {"LOW", "HIGH", "GONE"}, owner : User \cup {None}]
Row == [state : A!States \cup {"ABSENT"}, resolvedAt : {None, "SET"}, owner : User \cup {None}, count : Nat]
Evaluation == [key : Sources \X (1 .. MaxDay), matched : BOOLEAN]
Partial(S) == UNION {[O -> S] : O \in SUBSET Sources}
Overlay == [seen : Partial(Observation), alert : Partial(Row),
            evaluated : SUBSET Evaluation, notice : SUBSET (Sources \X User)]

Stamped(a) == /\ a.state = "RESOLVED" => a.resolvedAt = "SET"
              /\ a.state = "OPEN" => a.resolvedAt = None
Grades(s, ev) == {e \in ev : e.key[1] = s /\ e.matched}
Calling(c) == {r \in recorded : r[2] = c}

Tables ==
  /\ source \in [Sources -> Observation] /\ unowned \subseteq Resources
  /\ alert \in [A!Alerts -> Row]
  /\ evaluated \subseteq Evaluation /\ IsFiniteSet(evaluated)
  /\ DOMAIN notice \subseteq Sources \X User /\ \A n \in DOMAIN notice : notice[n] \in {"PENDING", "SUPPRESSED"}
  /\ recorded \subseteq Calls \X Incidents /\ IsFiniteSet(recorded)
  /\ handed \subseteq A!Alerts
  /\ day \in 1 .. MaxDay

Accounts ==
  /\ \A s \in Sources : alert[s].count = Cardinality(Grades(s, evaluated))
  /\ \A e, f \in evaluated : e.key = f.key => e = f
  /\ \A c \in Incidents : alert[c].count = Cardinality(Calling(c))
  /\ \A a \in A!Alerts : Stamped(alert[a])
  /\ \A s \in Sources : alert[s].owner # None /\ s \notin handed => <<s, alert[s].owner>> \in DOMAIN notice

\* What a run t has not committed yet fits what is there: each source is still
\* to be seen or written once, on top of the row as it stands.
Fits(t, al, ev, no, hd) ==
  /\ \A s \in DOMAIN t.seen : s \notin DOMAIN t.alert /\ \A e \in t.evaluated : e.key[1] # s
  /\ \A e \in t.evaluated : e.matched => e.key[1] \in DOMAIN t.alert
  /\ \A e, f \in t.evaluated : e.key[1] = f.key[1] => e = f
  /\ \A e \in t.evaluated, f \in ev : e.key # f.key
  /\ \A s \in DOMAIN t.alert :
       /\ Stamped(t.alert[s])
       /\ t.alert[s].count = IF Grades(s, t.evaluated) = {} THEN al[s].count ELSE al[s].count + 1
       /\ t.alert[s].owner # None /\ s \notin hd => <<s, t.alert[s].owner>> \in no \cup t.notice
  /\ IsFiniteSet(t.evaluated)

Apart(t, u) ==
  /\ DOMAIN t.alert \cap DOMAIN u.alert = {}
  /\ \A e \in t.evaluated, f \in u.evaluated : e.key # f.key

Running ==
  /\ run \in [Workers -> Overlay]
  /\ \A w \in Workers : Fits(run[w], alert, evaluated, DOMAIN notice, handed)
  /\ \A v, w \in Workers : v # w => Apart(run[v], run[w])

Alerted == Tables /\ Accounts /\ Running

LEMMA SameCardinality == \A S : A!Cardinality(S) = Cardinality(S)
  BY DEF A!Cardinality, Cardinality

LEMMA PartialIs == \A S, f : f \in Partial(S) <=> \E O \in SUBSET Sources : f \in [O -> S]
  BY DEF Partial

LEMMA AlertsAre ==
  /\ A!Alerts = Sources \cup Incidents \cup Resources
  /\ \A s \in Sources : s \notin Incidents /\ s \notin Resources
  /\ \A c \in Incidents : c \notin Resources
  BY DesksAssumption DEF A!Alerts

LEMMA NoRow == A!NoAlert \in Row /\ A!NoAlert.state = "ABSENT" /\ A!NoAlert.count = 0 /\ A!NoAlert.owner = None /\ Stamped(A!NoAlert)
  BY DEF A!NoAlert, A!States, Row, Stamped

LEMMA Raising ==
  ASSUME NEW o \in User \cup {None}
  PROVE  /\ A!Raised(o) \in Row /\ Stamped(A!Raised(o)) /\ A!Raised(o).count = 1 /\ A!Raised(o).owner = o
  BY DEF A!Raised, A!States, Row, Stamped

LEMMA Reopening ==
  ASSUME NEW a \in Row
  PROVE  /\ A!Reopened(a) \in Row /\ Stamped(A!Reopened(a)) /\ A!Reopened(a).count = a.count /\ A!Reopened(a).owner = a.owner
  <1> DEFINE to == IF a.state = "RESOLVED" THEN "OPEN" ELSE a.state
  <1>1. A!Reopened(a) = [a EXCEPT !.state = to, !.resolvedAt = None]
    BY DEF A!Reopened
  <1>2. to \in A!States \cup {"ABSENT"} /\ to # "RESOLVED"
    BY DEF Row, A!States
  <1> HIDE DEF to
  <1> DEFINE b == [a EXCEPT !.state = to, !.resolvedAt = None]
  <1>3. b \in Row
    BY <1>2 DEF Row
  <1>4. b.state = to /\ b.resolvedAt = None /\ b.count = a.count /\ b.owner = a.owner
    BY DEF Row
  <1> HIDE DEF b
  <1>5. Stamped(b)
    BY <1>2, <1>4 DEF Stamped
  <1> QED
    BY <1>1, <1>3, <1>4, <1>5 DEF b

LEMMA Counting ==
  ASSUME NEW a \in Row, Stamped(a)
  PROVE  /\ A!Counted(a) \in Row /\ Stamped(A!Counted(a))
         /\ A!Counted(a).count = a.count + 1 /\ A!Counted(a).owner = a.owner
  BY DEF Row, Stamped, A!Counted

LEMMA Resolving ==
  ASSUME NEW a \in Row, Stamped(a)
  PROVE  /\ A!Resolved(a) \in Row /\ Stamped(A!Resolved(a)) /\ A!Resolved(a).count = a.count /\ A!Resolved(a).owner = a.owner
  <1>1. CASE a.state \in {"ABSENT", "RESOLVED"}
    BY <1>1 DEF A!Resolved
  <1>2. CASE a.state \notin {"ABSENT", "RESOLVED"}
    <2>1. A!Resolved(a) = [a EXCEPT !.state = "RESOLVED", !.resolvedAt = "SET"]
      BY <1>2 DEF A!Resolved, A!Set
    <2> QED
      BY <2>1 DEF Row, Stamped, A!States
  <1> QED
    BY <1>1, <1>2

LEMMA IdleRun ==
  /\ A!NoRun \in Overlay /\ DOMAIN A!NoRun.alert = {} /\ A!NoRun.evaluated = {} /\ A!NoRun.notice = {} /\ DOMAIN A!NoRun.seen = {}
  /\ \A al, ev, no, hd : Fits(A!NoRun, al, ev, no, hd)
  /\ \A t : Apart(A!NoRun, t) /\ Apart(t, A!NoRun)
  <1>1. /\ [s \in {} |-> None] \in [{} -> Observation] /\ [s \in {} |-> A!NoAlert] \in [{} -> Row]
    OBVIOUS
  <1>2. [s \in {} |-> None] \in Partial(Observation) /\ [s \in {} |-> A!NoAlert] \in Partial(Row)
    BY <1>1, PartialIs
  <1>3. /\ A!NoRun \in Overlay /\ DOMAIN A!NoRun.alert = {} /\ A!NoRun.evaluated = {} /\ A!NoRun.notice = {} /\ DOMAIN A!NoRun.seen = {}
    BY <1>2 DEF A!NoRun, Overlay
  <1>4. IsFiniteSet(A!NoRun.evaluated)
    BY <1>3, FS_EmptySet
  <1> QED
    BY <1>3, <1>4 DEF Fits, Apart

LEMMA AlertedInit == A!Init => Alerted
  <1> SUFFICES ASSUME A!Init PROVE Alerted
    OBVIOUS
  <1>1. /\ source \in [Sources -> [level : {"LOW", "HIGH"}, owner : User \cup {None}]]
        /\ unowned \in SUBSET Resources /\ alert = [a \in A!Alerts |-> A!NoAlert]
        /\ evaluated = {} /\ notice = [n \in {} |-> None] /\ run = [w \in Workers |-> A!NoRun]
        /\ day = 1 /\ recorded = {} /\ handed = {}
    BY DEF A!Init
  <1>2. source \in [Sources -> Observation]
    <2>1. \A s \in Sources : source[s] \in Observation
      BY <1>1 DEF Observation
    <2> QED
      BY <1>1, <2>1
  <1>3. Tables
    <2>1. 1 \in 1 .. MaxDay
      BY DesksAssumption
    <2> QED
      BY <1>1, <1>2, <2>1, NoRow, FS_EmptySet DEF Tables
  <1>4. Accounts
    <2>1. \A s \in Sources : Grades(s, evaluated) = {}
      BY <1>1 DEF Grades
    <2>2. \A c \in Incidents : Calling(c) = {}
      BY <1>1 DEF Calling
    <2>3. \A a \in A!Alerts : alert[a] = A!NoAlert
      BY <1>1
    <2> QED
      BY <1>1, <2>1, <2>2, <2>3, NoRow, FS_EmptySet, AlertsAre DEF Accounts
  <1>5. Running
    BY <1>1, IdleRun DEF Running
  <1> QED
    BY <1>3, <1>4, <1>5 DEF Alerted

\* A run fits as long as the rows it holds count the same.
LEMMA FitsStill ==
  ASSUME NEW t, NEW al, NEW ev, NEW no, NEW hd, NEW al2, NEW no2, NEW hd2,
         Fits(t, al, ev, no, hd), \A s \in DOMAIN t.alert : al2[s].count = al[s].count,
         no \subseteq no2, hd \subseteq hd2
  PROVE  Fits(t, al2, ev, no2, hd2)
  BY DEF Fits

LEMMA RunningStays ==
  ASSUME Running, UNCHANGED <<run, evaluated>>,
         \A s \in Sources : alert'[s].count = alert[s].count,
         DOMAIN notice \subseteq DOMAIN notice', handed \subseteq handed'
  PROVE  Running'
  <1>1. \A w \in Workers : DOMAIN run[w].alert \subseteq Sources
    BY PartialIs DEF Running, Overlay
  <1>2. \A w \in Workers : Fits(run[w], alert', evaluated, DOMAIN notice', handed')
    BY <1>1, FitsStill DEF Running
  <1> QED
    BY <1>2 DEF Running

-----------------------------------------------------------------------------
(* The worker                                                              *)

LEMMA OverlaysAre ==
  ASSUME NEW t \in Overlay
  PROVE  /\ t = [seen |-> t.seen, alert |-> t.alert, evaluated |-> t.evaluated, notice |-> t.notice]
         /\ DOMAIN t.seen \subseteq Sources /\ t.seen \in [DOMAIN t.seen -> Observation]
         /\ DOMAIN t.alert \subseteq Sources /\ t.alert \in [DOMAIN t.alert -> Row]
         /\ t.evaluated \subseteq Evaluation /\ t.notice \subseteq Sources \X User
  <1>1. t.seen \in Partial(Observation) /\ t.alert \in Partial(Row)
    BY DEF Overlay
  <1>2. PICK O \in SUBSET Sources : t.seen \in [O -> Observation]
    BY <1>1, PartialIs
  <1>3. PICK O2 \in SUBSET Sources : t.alert \in [O2 -> Row]
    BY <1>1, PartialIs
  <1>4. DOMAIN t.seen = O /\ DOMAIN t.alert = O2
    BY <1>2, <1>3
  <1> QED
    BY <1>2, <1>3, <1>4 DEF Overlay

\* What one run becomes.
LEMMA OneRun ==
  ASSUME Running, NEW w \in Workers, NEW u \in Overlay,
         run' = [run EXCEPT ![w] = u], UNCHANGED <<alert, evaluated, notice, handed>>,
         Fits(u, alert, evaluated, DOMAIN notice, handed),
         \A v \in Workers \ {w} : Apart(run[v], u) /\ Apart(u, run[v])
  PROVE  Running'
  <1>1. run' \in [Workers -> Overlay] /\ run'[w] = u /\ \A v \in Workers \ {w} : run'[v] = run[v]
    BY DEF Running
  <1>2. \A v \in Workers : Fits(run'[v], alert, evaluated, DOMAIN notice, handed)
    BY <1>1 DEF Running
  <1>3. \A v, x \in Workers : v # x => Apart(run'[v], run'[x])
    BY <1>1 DEF Running
  <1> QED
    BY <1>1, <1>2, <1>3 DEF Running

LEMMA BeginAlerted ==
  ASSUME Alerted, NEW w \in Workers, A!evaluateAlerts(w)
  PROVE  Alerted'
  <1> DEFINE look_ == [s \in A!observations |-> source[s]]
             u == [seen |-> look_, alert |-> A!NoRun.alert, evaluated |-> {}, notice |-> {}]
  <1>1. /\ run[w] = A!NoRun /\ run' = [run EXCEPT ![w].seen = look_]
        /\ UNCHANGED <<source, unowned, alert, evaluated, notice, day, recorded, handed>>
    BY DEF A!evaluateAlerts
  <1>2. run' = [run EXCEPT ![w] = u]
    <2>1. /\ A!NoRun = [seen |-> A!NoRun.seen, alert |-> A!NoRun.alert, evaluated |-> {}, notice |-> {}]
      BY IdleRun, OverlaysAre
    <2> HIDE DEF look_
    <2>2. [A!NoRun EXCEPT !.seen = look_] = u
      BY <2>1
    <2> QED
      BY <1>1, <2>2 DEF Alerted, Running
  <1>3. look_ \in Partial(Observation)
    <2>1. A!observations \subseteq Sources
      BY DEF A!observations
    <2>2. look_ \in [A!observations -> Observation]
      BY <2>1 DEF Alerted, Tables
    <2> QED
      BY <2>1, <2>2, PartialIs
  <1> HIDE DEF look_
  <1>4. u \in Overlay /\ u.seen = look_ /\ DOMAIN u.alert = {} /\ u.evaluated = {} /\ u.notice = {}
    BY <1>3, IdleRun DEF Overlay
  <1> HIDE DEF u
  <1>5. IsFiniteSet(u.evaluated)
    BY <1>4, FS_EmptySet
  <1>6. Fits(u, alert, evaluated, DOMAIN notice, handed) /\ \A v \in Workers \ {w} : Apart(run[v], u) /\ Apart(u, run[v])
    BY <1>4, <1>5 DEF Fits, Apart
  <1>7. Running'
    BY <1>1, <1>2, <1>4, <1>6, OneRun DEF Alerted
  <1> QED
    BY <1>1, <1>7 DEF Alerted, Tables, Accounts, Calling

LEMMA TablesStay ==
  ASSUME Tables, Accounts, UNCHANGED <<source, unowned, alert, evaluated, notice, day, recorded, handed>>
  PROVE  Tables' /\ Accounts'
  BY DEF Tables, Accounts, Calling

\* A source is evaluated: the run writes its row, unless there is nothing to
\* write, on top of what is committed, which no other run holds.
LEMMA EvaluateAlerted ==
  ASSUME Alerted, NEW w \in Workers, NEW s \in Sources, A!Evaluate(w, s)
  PROVE  Alerted'
  <1> DEFINE t == run[w]
             o == t.seen[s]
             matched == A!Matched(o)
             a == IF ~A!Matched(o) THEN A!Resolved(alert[s])
                  ELSE IF alert[s] = A!NoAlert THEN A!Raised(o.owner)
                  ELSE A!Counted(A!Reopened(alert[s]))
             rest == [x \in DOMAIN t.seen \ {s} |-> t.seen[x]]
             held == DOMAIN t.alert \cup IF A!Touches(s, o) THEN {s} ELSE {}
             rows == [x \in held |-> IF x = s THEN a ELSE t.alert[x]]
             grade == [key |-> <<s, day>>, matched |-> matched]
             told == IF A!Matched(o) /\ a.owner # None THEN t.notice \cup {<<s, a.owner>>} ELSE t.notice
             u == [seen |-> rest, alert |-> rows, evaluated |-> t.evaluated \cup {grade}, notice |-> told]
  <1>1. /\ s \in DOMAIN t.seen /\ A!Free(w, s, o)
        /\ run' = [run EXCEPT ![w] = IF A!Evaluated(s) THEN [t EXCEPT !.seen = rest] ELSE u]
        /\ UNCHANGED <<source, unowned, rule, alert, evaluated, notice, look, day, recorded, handed, steps>>
    BY Zenon DEF A!Evaluate, A!Key
  <1>2. Tables' /\ Accounts'
    BY <1>1, TablesStay DEF Alerted
  <1>3. /\ t \in Overlay /\ Fits(t, alert, evaluated, DOMAIN notice, handed)
        /\ \A v \in Workers \ {w} : run[v] \in Overlay /\ Apart(run[v], t) /\ Apart(t, run[v])
    BY DEF Alerted, Running
  <1>4. o \in Observation /\ alert[s] \in Row /\ Stamped(alert[s]) /\ day \in 1 .. MaxDay
    BY <1>1, <1>3, OverlaysAre, AlertsAre DEF Alerted, Tables, Accounts
  <1>5. rest \in Partial(Observation) /\ DOMAIN rest = DOMAIN t.seen \ {s}
    <2>1. DOMAIN t.seen \subseteq Sources /\ t.seen \in [DOMAIN t.seen -> Observation]
      BY <1>3, OverlaysAre
    <2>2. rest \in [DOMAIN t.seen \ {s} -> Observation]
      BY <2>1
    <2> QED
      BY <2>1, <2>2, PartialIs
  <1>6. CASE A!Evaluated(s)
    <2> DEFINE v == [t EXCEPT !.seen = rest]
    <2>0. run' = [run EXCEPT ![w] = v]
      BY <1>1, <1>6
    <2>1. v \in Overlay /\ v.seen = rest /\ v.alert = t.alert /\ v.evaluated = t.evaluated /\ v.notice = t.notice
      BY <1>3, <1>5 DEF Overlay
    <2> HIDE DEF v, t, rest
    <2>2. Fits(v, alert, evaluated, DOMAIN notice, handed)
      BY <1>3, <1>5, <2>1 DEF Fits
    <2>3. \A x \in Workers \ {w} : Apart(run[x], v) /\ Apart(v, run[x])
      BY <1>3, <2>1 DEF Apart
    <2>4. Running'
      BY <1>1, <2>0, <2>1, <2>2, <2>3, OneRun DEF Alerted
    <2> QED
      BY <1>2, <2>4 DEF Alerted
  <1>7. CASE ~A!Evaluated(s)
    <2>1. \A f \in evaluated : f.key # <<s, day>>
      BY <1>7 DEF A!Evaluated, A!Key
    <2>2. \A v \in Workers \ {w} : \A f \in run[v].evaluated : f.key # <<s, day>>
      BY <1>1 DEF A!Free, A!Key
    <2>3. \A v \in Workers \ {w} : s \in held /\ s \notin DOMAIN t.alert => s \notin DOMAIN run[v].alert
      BY <1>1 DEF A!Free
    <2>4. o.owner \in User \cup {None}
      BY <1>4 DEF Observation
    <2>5. /\ a \in Row /\ Stamped(a)
          /\ a.count = IF matched THEN alert[s].count + 1 ELSE alert[s].count
          /\ ~matched => a.owner = alert[s].owner
      <3>1. CASE ~A!Matched(o)
        BY <1>4, <3>1, Resolving
      <3>2. CASE A!Matched(o) /\ alert[s] = A!NoAlert
        BY <2>4, <3>2, Raising, NoRow
      <3>3. CASE A!Matched(o) /\ alert[s] # A!NoAlert
        <4>1. A!Reopened(alert[s]) \in Row /\ Stamped(A!Reopened(alert[s])) /\ A!Reopened(alert[s]).count = alert[s].count
          BY <1>4, Reopening
        <4> QED
          BY <3>3, <4>1, Counting
      <3> QED
        BY <3>1, <3>2, <3>3
    <2>6. /\ DOMAIN t.alert \subseteq Sources /\ t.alert \in [DOMAIN t.alert -> Row]
          /\ t.evaluated \subseteq Evaluation /\ t.notice \subseteq Sources \X User
      BY <1>3, OverlaysAre
    <2>7. s \notin DOMAIN t.alert /\ \A e \in t.evaluated : e.key[1] # s
      BY <1>1, <1>3 DEF Fits
    <2>8. grade \in Evaluation /\ grade.key = <<s, day>> /\ grade.matched = matched
      <3>1. matched \in BOOLEAN
        BY DEF A!Matched
      <3> HIDE DEF matched
      <3> QED
        BY <1>4, <3>1 DEF Evaluation
    <2>9. (matched => s \in held) /\ held \subseteq DOMAIN t.alert \cup {s} /\ DOMAIN t.alert \subseteq held
      BY DEF A!Touches
    <2>10. /\ told \subseteq Sources \X User /\ t.notice \subseteq told
           /\ matched /\ a.owner # None => <<s, a.owner>> \in told
      <3>1. a.owner \in User \cup {None}
        BY <2>5 DEF Row
      <3> HIDE DEF a
      <3> QED
        BY <2>6, <3>1
    <2>11. run' = [run EXCEPT ![w] = u]
      BY <1>1, <1>7
    <2>12. ~matched /\ alert[s].owner # None /\ s \notin handed => <<s, alert[s].owner>> \in DOMAIN notice
      BY DEF Alerted, Accounts
    <2> HIDE DEF a, held, matched, grade, told, rest
    <2>13. rows \in Partial(Row) /\ DOMAIN rows = held
      <3>1. held \subseteq Sources /\ rows \in [held -> Row]
        BY <2>5, <2>6, <2>9
      <3> QED
        BY <3>1, PartialIs
    <2>14. /\ s \in held => rows[s] = a
           /\ \A x \in held : x # s => x \in DOMAIN t.alert /\ rows[x] = t.alert[x]
      BY <2>9
    <2> HIDE DEF rows
    <2>15. /\ u \in Overlay /\ u.seen = rest /\ u.alert = rows /\ u.notice = told
           /\ u.evaluated = t.evaluated \cup {grade}
      BY <1>5, <2>6, <2>8, <2>10, <2>13 DEF Overlay
    <2> HIDE DEF u
    <2> DEFINE ev == t.evaluated
               ov == t.alert
    <2>16. /\ \A x \in DOMAIN rest : x \notin DOMAIN ov /\ x # s /\ \A e \in ev : e.key[1] # x
           /\ \A e \in ev : e.matched => e.key[1] \in DOMAIN ov
           /\ \A e, f \in ev : e.key[1] = f.key[1] => e = f
           /\ \A e \in ev, f \in evaluated : e.key # f.key
           /\ \A x \in DOMAIN ov :
                /\ Stamped(ov[x])
                /\ ov[x].count = IF Grades(x, ev) = {} THEN alert[x].count ELSE alert[x].count + 1
                /\ ov[x].owner # None /\ x \notin handed => <<x, ov[x].owner>> \in DOMAIN notice \cup t.notice
           /\ IsFiniteSet(ev)
      BY <1>3, <1>5 DEF Fits
    <2>17. ev \subseteq Evaluation /\ u.evaluated = ev \cup {grade} /\ s \notin DOMAIN ov /\ \A e \in ev : e.key[1] # s
      BY <2>6, <2>7, <2>15
    <2>18. /\ DOMAIN ov \subseteq held /\ \A x \in held : x # s => x \in DOMAIN ov /\ rows[x] = ov[x]
           /\ held \subseteq DOMAIN ov \cup {s}
           /\ \A v \in Workers \ {w} : /\ DOMAIN ov \cap DOMAIN run[v].alert = {}
                                       /\ \A e \in ev, f \in run[v].evaluated : e.key # f.key
                                       /\ s \in held => s \notin DOMAIN run[v].alert
      BY <1>3, <2>3, <2>7, <2>9, <2>14 DEF Apart
    <2> HIDE DEF ev, ov, o, t
    <2>19. grade.key[1] = s
      BY <2>8
    <2>20. \A x \in DOMAIN u.seen : x \notin DOMAIN u.alert /\ \A e \in u.evaluated : e.key[1] # x
      BY <2>9, <2>13, <2>15, <2>16, <2>17, <2>18, <2>19
    <2>21. \A e \in u.evaluated : e.matched => e.key[1] \in DOMAIN u.alert
      BY <2>8, <2>9, <2>13, <2>15, <2>16, <2>17, <2>18, <2>19
    <2>22. \A e, f \in u.evaluated : e.key[1] = f.key[1] => e = f
      BY <2>16, <2>17, <2>19
    <2>23. \A e \in u.evaluated, f \in evaluated : e.key # f.key
      BY <2>1, <2>8, <2>16, <2>17
    <2>24. IsFiniteSet(u.evaluated)
      BY <2>16, <2>17, FS_AddElement
    <2>25. ASSUME NEW x \in DOMAIN u.alert
           PROVE  /\ Stamped(u.alert[x])
                  /\ u.alert[x].count = IF Grades(x, u.evaluated) = {} THEN alert[x].count ELSE alert[x].count + 1
                  /\ u.alert[x].owner # None /\ x \notin handed => <<x, u.alert[x].owner>> \in DOMAIN notice \cup u.notice
      <3>1. CASE x = s
        <4>1. u.alert[x] = a /\ Stamped(a)
          BY <2>5, <2>13, <2>14, <2>15, <2>25, <3>1
        <4>2. Grades(s, u.evaluated) = {} <=> ~matched
          BY <2>8, <2>17, <2>19 DEF Grades
        <4>3. a.owner # None /\ s \notin handed => <<s, a.owner>> \in DOMAIN notice \cup told
          BY <2>5, <2>10, <2>12
        <4> QED
          BY <2>5, <2>15, <3>1, <4>1, <4>2, <4>3
      <3>2. CASE x # s
        <4>1. x \in DOMAIN ov /\ u.alert[x] = ov[x]
          BY <2>13, <2>15, <2>18, <3>2
        <4>2. Grades(x, u.evaluated) = Grades(x, ev)
          BY <2>17, <2>19, <3>2 DEF Grades
        <4> QED
          BY <2>10, <2>15, <2>16, <4>1, <4>2
      <3> QED
        BY <3>1, <3>2
    <2>26. Fits(u, alert, evaluated, DOMAIN notice, handed)
      BY <2>20, <2>21, <2>22, <2>23, <2>24, <2>25 DEF Fits
    <2>27. \A v \in Workers \ {w} : Apart(run[v], u) /\ Apart(u, run[v])
      BY <2>2, <2>8, <2>13, <2>15, <2>17, <2>18 DEF Apart
    <2>28. Running'
      BY <1>1, <2>11, <2>15, <2>26, <2>27, OneRun DEF Alerted
    <2> QED
      BY <1>2, <2>28 DEF Alerted
  <1> QED
    BY <1>6, <1>7

LEMMA CommitAlerted ==
  ASSUME Alerted, NEW w \in Workers, A!Commit(w)
  PROVE  Alerted'
  <1> DEFINE t == run[w]
             told == DOMAIN notice \cup t.notice
  <1>1. /\ alert' = [a \in A!Alerts |-> IF a \in DOMAIN t.alert THEN t.alert[a] ELSE alert[a]]
        /\ evaluated' = evaluated \cup t.evaluated
        /\ notice' = [n \in told |-> IF n \in DOMAIN notice THEN notice[n] ELSE "PENDING"]
        /\ run' = [run EXCEPT ![w] = A!NoRun]
        /\ UNCHANGED <<source, unowned, day, recorded, handed>>
    BY DEF A!Commit
  <1>2. t \in Overlay /\ Fits(t, alert, evaluated, DOMAIN notice, handed)
    BY DEF Alerted, Running
  <1>3. /\ DOMAIN t.alert \subseteq Sources /\ t.alert \in [DOMAIN t.alert -> Row]
        /\ t.evaluated \subseteq Evaluation /\ t.notice \subseteq Sources \X User
    BY <1>2, OverlaysAre
  <1> DEFINE ov == t.alert
             ev == t.evaluated
             no == t.notice
  <1>4. /\ \A s \in DOMAIN ov : alert'[s] = ov[s] /\ ov[s] \in Row
        /\ \A a \in A!Alerts : a \notin DOMAIN ov => alert'[a] = alert[a]
        /\ alert' = [a \in A!Alerts |-> alert'[a]]
    BY <1>1, <1>3, AlertsAre
  <1>5. DOMAIN notice' = told /\ \A n \in told : notice'[n] \in {"PENDING", "SUPPRESSED"}
    BY <1>1 DEF Alerted, Tables
  <1>6. /\ \A e \in ev : e.matched => e.key[1] \in DOMAIN ov
        /\ \A e, f \in ev : e.key[1] = f.key[1] => e = f
        /\ \A e \in ev, f \in evaluated : e.key # f.key
        /\ \A s \in DOMAIN ov :
             /\ Stamped(ov[s])
             /\ ov[s].count = IF Grades(s, ev) = {} THEN alert[s].count ELSE alert[s].count + 1
             /\ ov[s].owner # None /\ s \notin handed => <<s, ov[s].owner>> \in told
        /\ IsFiniteSet(ev)
    BY <1>2 DEF Fits
  <1>7. run' \in [Workers -> Overlay] /\ run'[w] = A!NoRun /\ \A v \in Workers \ {w} : run'[v] = run[v]
    BY <1>1, IdleRun DEF Alerted, Running
  <1>8. \A v \in Workers \ {w} : /\ run[v] \in Overlay /\ Fits(run[v], alert, evaluated, DOMAIN notice, handed)
                                 /\ DOMAIN ov \cap DOMAIN run[v].alert = {} /\ DOMAIN run[v].alert \subseteq Sources
                                 /\ \A e \in ev, f \in run[v].evaluated : e.key # f.key
    BY OverlaysAre DEF Alerted, Running, Apart
  <1>9. evaluated' = evaluated \cup ev /\ DOMAIN ov \subseteq Sources /\ ev \subseteq Evaluation /\ no \subseteq Sources \X User
    BY <1>1, <1>3
  <1>10. told = DOMAIN notice \cup no
    OBVIOUS
  <1> HIDE DEF t, ov, ev, no, told
  <1>11. Tables'
    <2>1. alert' \in [A!Alerts -> Row]
      BY <1>4 DEF Alerted, Tables
    <2>2. IsFiniteSet(evaluated')
      BY <1>6, <1>9, FS_Union DEF Alerted, Tables
    <2> QED
      BY <1>1, <1>5, <1>9, <1>10, <2>1, <2>2 DEF Alerted, Tables
  <1>12. Accounts'
    <2>1. ASSUME NEW s \in Sources PROVE alert'[s].count = Cardinality(Grades(s, evaluated'))
      <3>1. /\ Grades(s, evaluated') = Grades(s, evaluated) \cup Grades(s, ev)
            /\ Grades(s, evaluated) \in SUBSET evaluated
        BY <1>9 DEF Grades
      <3>2. IsFiniteSet(Grades(s, evaluated)) /\ alert[s].count = Cardinality(Grades(s, evaluated))
        BY <3>1, FS_Subset DEF Alerted, Tables, Accounts
      <3>3. CASE Grades(s, ev) = {}
        <4>1. alert'[s].count = alert[s].count
          BY <1>4, <1>6, <3>3, AlertsAre
        <4> QED
          BY <3>1, <3>2, <3>3, <4>1
      <3>4. CASE Grades(s, ev) # {}
        <4>1. PICK e \in Grades(s, ev) : TRUE
          BY <3>4
        <4>2. e \in ev /\ e.key[1] = s /\ e.matched
          BY <4>1 DEF Grades
        <4>3. Grades(s, ev) = {e}
          BY <1>6, <4>1, <4>2 DEF Grades
        <4>4. e \notin evaluated /\ e \notin Grades(s, evaluated)
          BY <1>6, <4>2 DEF Grades
        <4>5. alert'[s].count = alert[s].count + 1
          BY <1>4, <1>6, <3>4, <4>2
        <4>6. Cardinality(Grades(s, evaluated) \cup {e}) = Cardinality(Grades(s, evaluated)) + 1
          BY <3>2, <4>4, FS_AddElement
        <4>7. Cardinality(Grades(s, evaluated')) = Cardinality(Grades(s, evaluated) \cup {e})
          BY <3>1, <4>3
        <4> QED
          BY <3>2, <4>5, <4>6, <4>7
      <3> QED
        BY <3>3, <3>4
    <2>2. \A e, f \in evaluated' : e.key = f.key => e = f
      BY <1>6, <1>9 DEF Alerted, Accounts
    <2>3. ASSUME NEW c \in Incidents PROVE alert'[c].count = Cardinality(Calling(c)')
      BY <1>1, <1>4, <1>9, AlertsAre DEF Alerted, Accounts, Calling
    <2>4. ASSUME NEW a \in A!Alerts PROVE Stamped(alert'[a])
      BY <1>4, <1>6 DEF Alerted, Accounts
    <2>5. ASSUME NEW s \in Sources, alert'[s].owner # None, s \notin handed' PROVE <<s, alert'[s].owner>> \in DOMAIN notice'
      BY <1>1, <1>4, <1>5, <1>6, <1>10, <2>5, AlertsAre DEF Alerted, Accounts
    <2> QED
      BY <2>1, <2>2, <2>3, <2>4, <2>5 DEF Accounts
  <1>13. Running'
    <2>1. ASSUME NEW v \in Workers \ {w} PROVE Fits(run[v], alert', evaluated', DOMAIN notice', handed')
      <3> DEFINE r == run[v]
      <3>1. /\ Fits(r, alert, evaluated, DOMAIN notice, handed)
            /\ DOMAIN ov \cap DOMAIN r.alert = {} /\ DOMAIN r.alert \subseteq Sources
            /\ \A e \in ev, f \in r.evaluated : e.key # f.key
        BY <1>8
      <3> HIDE DEF r
      <3>2. Fits(r, alert', evaluated, DOMAIN notice', handed')
        <4>1. \A s \in DOMAIN r.alert : alert'[s].count = alert[s].count
          BY <1>4, <3>1, AlertsAre
        <4>2. DOMAIN notice \subseteq DOMAIN notice' /\ handed \subseteq handed'
          BY <1>1, <1>5, <1>10
        <4> QED
          BY <3>1, <4>1, <4>2, FitsStill
      <3>3. \A e \in r.evaluated, f \in evaluated' : e.key # f.key
        BY <1>9, <3>1, <3>2 DEF Fits
      <3>4. Fits(r, alert', evaluated', DOMAIN notice', handed')
        BY <3>2, <3>3 DEF Fits
      <3> QED
        BY <3>4 DEF r
    <2>2. \A v \in Workers : Fits(run'[v], alert', evaluated', DOMAIN notice', handed')
      BY <1>7, <2>1, IdleRun
    <2>3. \A v, x \in Workers : v # x => Apart(run'[v], run'[x])
      BY <1>7, IdleRun DEF Alerted, Running
    <2> QED
      BY <1>7, <2>2, <2>3 DEF Running
  <1> QED
    BY <1>11, <1>12, <1>13 DEF Alerted

LEMMA AbortAlerted ==
  ASSUME Alerted, NEW w \in Workers, A!Abort(w)
  PROVE  Alerted'
  <1>1. /\ run' = [run EXCEPT ![w] = A!NoRun]
        /\ UNCHANGED <<source, unowned, alert, evaluated, notice, day, recorded, handed>>
    BY DEF A!Abort
  <1>2. Running'
    BY <1>1, IdleRun, OneRun DEF Alerted
  <1> QED
    BY <1>1, <1>2, TablesStay DEF Alerted

-----------------------------------------------------------------------------
(* People, ownership and what the alerts are about                         *)

LEMMA NoticesAlerted ==
  ASSUME Alerted, A!notificationDeliveries
  PROVE  Alerted'
  <1>1. /\ notice' = [n \in DOMAIN notice |-> "SUPPRESSED"]
        /\ UNCHANGED <<source, unowned, alert, evaluated, run, day, recorded, handed>>
    BY DEF A!notificationDeliveries
  <1>2. DOMAIN notice' = DOMAIN notice /\ \A n \in DOMAIN notice' : notice'[n] = "SUPPRESSED"
    BY <1>1
  <1> QED
    BY <1>1, <1>2 DEF Alerted, Tables, Accounts, Running, Calling

\* A row is written while no run holds it: it keeps its count.
LEMMA RowsAlerted ==
  ASSUME Alerted, alert' \in [A!Alerts -> Row], \A a \in A!Alerts : Stamped(alert'[a]),
         \A s \in Sources : /\ alert'[s].count = alert[s].count
                            /\ s \notin handed' => alert'[s].owner = alert[s].owner,
         \A c \in Incidents : alert'[c].count = Cardinality(Calling(c)'),
         recorded' \subseteq Calls \X Incidents, IsFiniteSet(recorded'),
         handed \subseteq handed', handed' \subseteq A!Alerts,
         UNCHANGED <<evaluated, notice, run, day>>,
         source' \in [Sources -> Observation], unowned' \subseteq Resources
  PROVE  Alerted'
  <1>1. Tables'
    BY DEF Alerted, Tables
  <1>2. Accounts'
    BY DEF Alerted, Accounts
  <1>3. Running'
    BY RunningStays DEF Alerted
  <1> QED
    BY <1>1, <1>2, <1>3 DEF Alerted

LEMMA ActAlerted ==
  ASSUME Alerted, NEW a \in A!Alerts, NEW m \in User \cup {None},
         NEW action \in {"ACKNOWLEDGE", "ASSIGN", "SNOOZE", "ESCALATE", "RESOLVE", "REOPEN"}, A!act(a, action, m)
  PROVE  Alerted'
  <1> DEFINE to == A!nextState(a, action)
             whose == IF m = None THEN alert[a].owner ELSE m
             stamp == CASE to = "RESOLVED" -> "SET" [] to = "OPEN" -> None [] OTHER -> alert[a].resolvedAt
             row == [alert[a] EXCEPT !.state = to, !.owner = whose, !.resolvedAt = stamp]
  <1>0. A!Acted(alert[a], to, m) = row
    BY DEF A!Acted, A!Set
  <1>1. /\ alert' = [alert EXCEPT ![a] = row]
        /\ handed' = IF m = None THEN handed ELSE handed \cup {a}
        /\ UNCHANGED <<source, unowned, evaluated, notice, run, day, recorded>>
    BY <1>0, Zenon DEF A!act
  <1>2. alert[a] \in Row
    BY DEF Alerted, Tables
  <1>3. to \in A!States \cup {"ABSENT"} /\ whose \in User \cup {None} /\ stamp \in {None, "SET"}
    <2>1. to \in A!States \cup {"ABSENT"}
      BY <1>2 DEF A!nextState, A!States, Row
    <2> QED
      BY <1>2, <2>1 DEF Row
  <1>4. (to = "RESOLVED" => stamp = "SET") /\ (to = "OPEN" => stamp = None) /\ (m = None => whose = alert[a].owner)
    OBVIOUS
  <1> HIDE DEF to, whose, stamp
  <1>5. row \in Row
    BY <1>2, <1>3 DEF Row
  <1>6. row.state = to /\ row.owner = whose /\ row.resolvedAt = stamp /\ row.count = alert[a].count
    BY <1>2 DEF Row
  <1> HIDE DEF row
  <1>7. /\ alert' \in [A!Alerts -> Row] /\ alert'[a] = row
        /\ \A x \in A!Alerts \ {a} : alert'[x] = alert[x]
    BY <1>1, <1>5 DEF Alerted, Tables
  <1>8. Stamped(row)
    BY <1>4, <1>6 DEF Stamped
  <1>9. \A x \in A!Alerts : Stamped(alert'[x]) /\ alert'[x].count = alert[x].count
    BY <1>6, <1>7, <1>8 DEF Alerted, Accounts
  <1>10. \A x \in A!Alerts : x \notin handed' => alert'[x].owner = alert[x].owner
    BY <1>1, <1>4, <1>6, <1>7
  <1>11. \A c \in Incidents : alert'[c].count = Cardinality(Calling(c)')
    BY <1>1, <1>9, AlertsAre DEF Alerted, Accounts, Calling
  <1> QED
    BY <1>1, <1>7, <1>9, <1>10, <1>11, RowsAlerted, AlertsAre DEF Alerted, Tables

LEMMA OccurrenceAlerted ==
  ASSUME Alerted, NEW call \in Calls, NEW c \in Incidents, A!createOccurrence(call, c)
  PROVE  Alerted'
  <1> DEFINE new == CASE alert[c] = A!NoAlert -> A!Raised(None)
                      [] alert[c].state = "RESOLVED" -> A!Counted(A!Reopened(alert[c]))
                      [] OTHER -> A!Counted(alert[c])
  <1>1. /\ \A r \in recorded : r[1] # call
        /\ recorded' = recorded \cup {<<call, c>>}
        /\ alert' = [alert EXCEPT ![c] = new]
        /\ UNCHANGED <<source, unowned, evaluated, notice, run, day, handed>>
    BY Zenon DEF A!createOccurrence
  <1>2. c \in A!Alerts /\ alert[c] \in Row /\ Stamped(alert[c])
    BY AlertsAre DEF Alerted, Tables, Accounts
  <1>3. new \in Row /\ Stamped(new) /\ new.count = alert[c].count + 1
    <2>1. CASE alert[c] = A!NoAlert
      BY <2>1, Raising, NoRow
    <2>2. CASE alert[c] # A!NoAlert /\ alert[c].state = "RESOLVED"
      <3>1. A!Reopened(alert[c]) \in Row /\ Stamped(A!Reopened(alert[c])) /\ A!Reopened(alert[c]).count = alert[c].count
        BY <1>2, Reopening
      <3> QED
        BY <2>2, <3>1, Counting
    <2>3. CASE alert[c] # A!NoAlert /\ alert[c].state # "RESOLVED"
      BY <1>2, <2>3, Counting
    <2> QED
      BY <2>1, <2>2, <2>3
  <1> HIDE DEF new
  <1>4. /\ alert' \in [A!Alerts -> Row] /\ alert'[c] = new
        /\ \A x \in A!Alerts \ {c} : alert'[x] = alert[x]
    BY <1>1, <1>2, <1>3 DEF Alerted, Tables
  <1>5. IsFiniteSet(recorded') /\ recorded' \subseteq Calls \X Incidents /\ <<call, c>> \notin recorded
    BY <1>1, FS_AddElement DEF Alerted, Tables
  <1>6. ASSUME NEW x \in Incidents PROVE alert'[x].count = Cardinality(Calling(x)')
    <2>1. Calling(x) \in SUBSET recorded
      BY DEF Calling
    <2>2. IsFiniteSet(Calling(x)) /\ alert[x].count = Cardinality(Calling(x))
      BY <2>1, FS_Subset DEF Alerted, Tables, Accounts
    <2>3. CASE x = c
      <3>1. Calling(c)' = Calling(c) \cup {<<call, c>>} /\ <<call, c>> \notin Calling(c)
        BY <1>1, <1>5 DEF Calling
      <3> QED
        BY <1>3, <1>4, <2>2, <2>3, <3>1, FS_AddElement
    <2>4. CASE x # c
      <3>1. Calling(x)' = Calling(x)
        BY <1>1, <2>4 DEF Calling
      <3> QED
        BY <1>4, <2>2, <2>4, <3>1, AlertsAre
    <2> QED
      BY <2>3, <2>4
  <1>7. \A s \in Sources : alert'[s] = alert[s]
    BY <1>4, AlertsAre
  <1>8. \A a \in A!Alerts : Stamped(alert'[a])
    BY <1>3, <1>4 DEF Alerted, Accounts
  <1> QED
    BY <1>1, <1>4, <1>5, <1>6, <1>7, <1>8, RowsAlerted DEF Alerted, Tables

LEMMA OwnershipAlerted ==
  ASSUME Alerted, A!RaiseOwnership
  PROVE  Alerted'
  <1> DEFINE new(a) == IF a \notin look.found THEN A!Resolved(alert[a])
                       ELSE IF alert[a] = A!NoAlert THEN A!Raised(None) ELSE A!Reopened(alert[a])
  <1>1. /\ alert' = [a \in A!Alerts |-> IF a \notin Resources THEN alert[a] ELSE new(a)]
        /\ UNCHANGED <<source, unowned, evaluated, notice, run, day, recorded, handed>>
    BY DEF A!RaiseOwnership
  <1>2. \A a \in A!Alerts : alert[a] \in Row /\ Stamped(alert[a])
    BY DEF Alerted, Tables, Accounts
  <1>3. \A a \in A!Alerts : new(a) \in Row /\ Stamped(new(a))
    BY <1>2, Resolving, Raising, Reopening
  <1> HIDE DEF new
  <1>4. alert' \in [A!Alerts -> Row] /\ \A a \in A!Alerts : Stamped(alert'[a]) /\ (a \notin Resources => alert'[a] = alert[a])
    BY <1>1, <1>2, <1>3
  <1>5. \A s \in Sources \cup Incidents : alert'[s] = alert[s]
    BY <1>4, AlertsAre
  <1>6. \A c \in Incidents : alert'[c].count = Cardinality(Calling(c)')
    BY <1>1, <1>5 DEF Alerted, Accounts, Calling
  <1> QED
    BY <1>1, <1>4, <1>5, <1>6, RowsAlerted DEF Alerted, Tables

\* Nothing of what the accounts are about is written.
LEMMA AlertedStays ==
  ASSUME Alerted, UNCHANGED <<alert, evaluated, notice, run, recorded, handed>>,
         source' \in [Sources -> Observation], unowned' \subseteq Resources, day' \in 1 .. MaxDay
  PROVE  Alerted'
  BY DEF Alerted, Tables, Accounts, Running, Calling

LEMMA AlertedStep == Alerted /\ [A!Next]_<<rules, notes, alert, handed, steps>> => Alerted'
  <1> SUFFICES ASSUME Alerted, [A!Next]_<<rules, notes, alert, handed, steps>> PROVE Alerted'
    OBVIOUS
  <1>0. source \in [Sources -> Observation] /\ unowned \subseteq Resources /\ day \in 1 .. MaxDay
    BY DEF Alerted, Tables
  <1>1. ASSUME NEW w \in Workers, A!evaluateAlerts(w) \/ A!Commit(w) \/ A!Abort(w) \/ \E s \in Sources : A!Evaluate(w, s)
        PROVE  Alerted'
    BY <1>1, BeginAlerted, CommitAlerted, AbortAlerted, EvaluateAlerted
  <1>2. CASE A!notificationDeliveries
    BY <1>2, NoticesAlerted
  <1>3. CASE \E a \in A!Alerts, m \in User \cup {None},
                x \in {"ACKNOWLEDGE", "ASSIGN", "SNOOZE", "ESCALATE", "RESOLVE", "REOPEN"} : A!act(a, x, m)
    BY <1>3, ActAlerted
  <1>4. CASE \E call \in Calls, c \in Incidents : A!createOccurrence(call, c)
    BY <1>4, OccurrenceAlerted
  <1>5. CASE A!saveRule \/ A!evaluateOwnershipAlerts
    <2>1. UNCHANGED <<source, unowned, day, alert, evaluated, notice, run, recorded, handed>>
      BY <1>5 DEF A!saveRule, A!evaluateOwnershipAlerts
    <2> QED
      BY <1>0, <2>1, AlertedStays
  <1>6. CASE A!RaiseOwnership
    BY <1>6, OwnershipAlerted
  <1>7. CASE A!Changes
    <2>1. UNCHANGED <<day, alert, evaluated, notice, run, recorded, handed>>
      BY <1>7 DEF A!Changes
    <2>2. source' \in [Sources -> Observation] /\ unowned' \subseteq Resources
      <3>1. CASE \E s \in Sources, l \in {"LOW", "HIGH", "GONE"} :
                   source' = [source EXCEPT ![s].level = l] /\ UNCHANGED unowned
        BY <1>0, <3>1 DEF Observation
      <3>2. CASE \E r \in Resources : unowned' = (IF r \in unowned THEN unowned \ {r} ELSE unowned \cup {r}) /\ UNCHANGED source
        BY <1>0, <3>2
      <3> QED
        BY <1>7, <3>1, <3>2 DEF A!Changes
    <2> QED
      BY <1>0, <2>1, <2>2, AlertedStays
  <1>8. CASE A!Midnight
    <2>1. day < MaxDay /\ day' = day + 1 /\ UNCHANGED <<source, unowned, alert, evaluated, notice, run, recorded, handed>>
      BY <1>8 DEF A!Midnight
    <2>2. day' \in 1 .. MaxDay
      BY <1>0, <2>1, DesksAssumption
    <2> QED
      BY <1>0, <2>1, <2>2, AlertedStays
  <1>9. CASE UNCHANGED <<rules, notes, alert, handed, steps>>
    BY <1>0, <1>9, AlertedStays DEF rules, notes
  <1> QED
    BY <1>1, <1>2, <1>3, <1>4, <1>5, <1>6, <1>7, <1>8, <1>9 DEF A!Next

LEMMA AlertedIsEnough == Alerted => A!TypeOK /\ A!AlertsAreAccounted /\ A!OwnersAreTold
  <1> SUFFICES ASSUME Alerted PROVE A!TypeOK /\ A!AlertsAreAccounted /\ A!OwnersAreTold
    OBVIOUS
  <1>1. A!TypeOK
    BY DEF Alerted, Tables, Row, Evaluation, A!TypeOK, A!Set
  <1>2. \A s \in Sources : A!Cardinality({e \in evaluated : e.key[1] = s /\ e.matched}) = alert[s].count
    BY SameCardinality DEF Alerted, Accounts, Grades
  <1>3. \A c \in Incidents : A!Cardinality({r \in recorded : r[2] = c}) = alert[c].count
    BY SameCardinality DEF Alerted, Accounts, Calling
  <1>4. A!AlertsAreAccounted
    BY <1>2, <1>3 DEF Alerted, Accounts, Stamped, A!AlertsAreAccounted, A!Set
  <1>5. A!OwnersAreTold
    BY DEF Alerted, Accounts, A!OwnersAreTold
  <1> QED
    BY <1>1, <1>4, <1>5

-----------------------------------------------------------------------------
(* Approvals                                                               *)

Request == [state : {"ABSENT", "PENDING", "APPROVED", "REJECTED", "INVALIDATED"},
            snapshot : Snapshots \cup {None}, requester : User \cup {None}, step : Nat]
Decision == [request : Requests, step : Nat, by : User, decision : {"APPROVE", "REJECT"}]
Reached(r) == IF request[r].state \in {"APPROVED", "REJECTED"} THEN request[r].step ELSE request[r].step - 1

\* A request under way is not there yet, and it holds what it invalidates.
Asking ==
  /\ request \in [Requests -> Request]
  /\ policy.steps \in PolicySteps
  /\ edits \in Nat /\ edits <= MaxPolicies
  /\ overlapped \subseteq Requests
  /\ DOMAIN asking \subseteq {r \in Requests : request[r].state = "ABSENT"}
  /\ \A a \in DOMAIN asking : /\ asking[a].requester \in User /\ asking[a].snapshot \in Snapshots
                              /\ asking[a].invalidates \subseteq P!Pending
  /\ \A a, b \in DOMAIN asking : a # b =>
       asking[a].invalidates \cap asking[b].invalidates = {} /\ {a, b} \subseteq overlapped

\* It leaves no request of another snapshot pending, except one it overlapped.
OneSnapshot ==
  /\ \A a \in DOMAIN asking : \A p \in P!Pending :
       request[p].snapshot = asking[a].snapshot \/ p \in asking[a].invalidates \/ {a, p} \cap overlapped # {}
  /\ P!OneSnapshotPending

Earned(r) ==
  /\ request[r].state = "ABSENT" => P!Decided(r) = {}
  /\ request[r].state # "ABSENT" =>
       /\ request[r].step >= 1
       /\ {d.step : d \in P!Decided(r)} = 1 .. Reached(r)
       /\ Cardinality(P!Decided(r)) = Reached(r)
       /\ request[r].state = "APPROVED" /\ edits = 0 => Reached(r) = Len(policy.steps)
       /\ \A d \in P!Decided(r) :
            /\ d.by # request[r].requester
            /\ d.decision = IF request[r].state = "REJECTED" /\ d.step = Reached(r) THEN "REJECT" ELSE "APPROVE"

Deciding ==
  /\ IsFiniteSet(decisions)
  /\ decisions \subseteq Decision
  /\ \A r \in Requests : Earned(r)

Overriding ==
  /\ \A o \in overrides : o.decision \in decisions /\ o.by \in User
  /\ P!OverridesAreApproved

Governed == Asking /\ OneSnapshot /\ Deciding /\ Overriding

LEMMA GovernedInit == P!Init => Governed
  <1> SUFFICES ASSUME P!Init PROVE Governed
    OBVIOUS
  <1>1. /\ request = [r \in Requests |-> P!NoRequest] /\ asking = [r \in {} |-> None]
        /\ decisions = {} /\ overrides = {} /\ overlapped = {} /\ edits = 0
        /\ policy.steps \in PolicySteps
    BY DEF P!Init
  <1>2. P!NoRequest \in Request /\ P!NoRequest.state = "ABSENT"
    BY DEF P!NoRequest, Request
  <1>3. Asking
    BY <1>1, <1>2, DesksAssumption DEF Asking
  <1>4. P!Pending = {}
    BY <1>1, <1>2 DEF P!Pending
  <1>5. OneSnapshot
    BY <1>1, <1>4 DEF OneSnapshot, P!OneSnapshotPending
  <1>6. Deciding
    BY <1>1, <1>2, FS_EmptySet DEF Deciding, Earned, P!Decided
  <1>7. Overriding
    BY <1>1 DEF Overriding, P!OverridesAreApproved
  <1> QED
    BY <1>3, <1>5, <1>6, <1>7 DEF Governed

LEMMA UpdateStep ==
  ASSUME Governed, NEW list \in PolicySteps, NEW active \in BOOLEAN, P!update(list, active)
  PROVE  Governed'
  <1>1. /\ edits < MaxPolicies /\ edits' = edits + 1 /\ policy' = [steps |-> list, active |-> active]
        /\ UNCHANGED <<request, asking, decisions, overrides, overlapped>>
    BY DEF P!update
  <1>2. edits' \in Nat /\ edits' <= MaxPolicies /\ edits' # 0
    BY <1>1, DesksAssumption DEF Governed, Asking
  <1>3. policy'.steps \in PolicySteps
    BY <1>1
  <1>4. P!Pending' = P!Pending
    BY <1>1 DEF P!Pending
  <1>5. Asking' /\ OneSnapshot' /\ Overriding'
    BY <1>1, <1>2, <1>3, <1>4 DEF Governed, Asking, OneSnapshot, P!OneSnapshotPending, Overriding, P!OverridesAreApproved
  <1>6. ASSUME NEW r \in Requests
        PROVE  Earned(r)'
    <2>1. Earned(r) /\ P!Decided(r)' = P!Decided(r) /\ Reached(r)' = Reached(r)
      BY <1>1 DEF Governed, Deciding, P!Decided, Reached
    <2> QED
      BY <1>1, <1>2, <2>1 DEF Earned
  <1>7. Deciding'
    BY <1>1, <1>6 DEF Governed, Deciding
  <1> QED
    BY <1>5, <1>7 DEF Governed

\* What does not touch the requests, decisions and the policy leaves these be.
LEMMA DecidingStays ==
  ASSUME Governed, UNCHANGED <<policy, request, decisions, overrides, edits>>
  PROVE  Deciding' /\ Overriding'
  <1>1. ASSUME NEW r \in Requests
        PROVE  Earned(r)'
    <2>1. Earned(r) /\ P!Decided(r)' = P!Decided(r) /\ Reached(r)' = Reached(r)
      BY DEF Governed, Deciding, P!Decided, Reached
    <2> QED
      BY <2>1 DEF Earned
  <1> QED
    BY <1>1 DEF Governed, Deciding, Overriding, P!OverridesAreApproved

LEMMA AskStep ==
  ASSUME Governed, NEW r \in Requests, NEW u \in User, NEW s \in Snapshots, P!requestApproval(r, u, s)
  PROVE  Governed'
  <1> DEFINE ask == [requester |-> u, snapshot |-> s, invalidates |-> P!Stale(s)]
  <1>1. /\ request[r] = P!NoRequest /\ r \notin DOMAIN asking
        /\ \A x \in P!Stale(s) : ~P!Locked(x)
        /\ asking' = [x \in DOMAIN asking \cup {r} |-> IF x = r THEN ask ELSE asking[x]]
        /\ overlapped' = IF DOMAIN asking = {} THEN overlapped ELSE overlapped \cup DOMAIN asking \cup {r}
        /\ UNCHANGED <<policy, request, decisions, overrides, edits>>
    BY DEF P!requestApproval
  <1>2. /\ DOMAIN asking' = DOMAIN asking \cup {r} /\ asking'[r] = ask
        /\ \A x \in DOMAIN asking : asking'[x] = asking[x]
    BY <1>1
  <1>3. ask.requester = u /\ ask.snapshot = s /\ ask.invalidates = P!Stale(s)
    OBVIOUS
  <1> HIDE DEF ask
  <1>4. P!Pending' = P!Pending
    BY <1>1 DEF P!Pending
  <1>5. P!Stale(s) \subseteq P!Pending /\ \A p \in P!Pending : request[p].snapshot = s \/ p \in P!Stale(s)
    BY DEF P!Stale
  <1>6. \A a \in DOMAIN asking : asking[a].invalidates \cap P!Stale(s) = {}
    BY <1>1 DEF P!Locked
  <1>7. overlapped \subseteq overlapped' /\ \A a \in DOMAIN asking : {a, r} \subseteq overlapped'
    BY <1>1
  <1>8. P!NoRequest.state = "ABSENT"
    BY DEF P!NoRequest
  <1>9. overlapped' \subseteq Requests
    BY <1>1 DEF Governed, Asking
  <1>10. DOMAIN asking' \subseteq {x \in Requests : request'[x].state = "ABSENT"}
    BY <1>1, <1>2, <1>8 DEF Governed, Asking
  <1>11. \A a \in DOMAIN asking' : /\ asking'[a].requester \in User /\ asking'[a].snapshot \in Snapshots
                                   /\ asking'[a].invalidates \subseteq P!Pending'
    BY <1>2, <1>3, <1>4, <1>5 DEF Governed, Asking
  <1>12. \A a, b \in DOMAIN asking' : a # b =>
           asking'[a].invalidates \cap asking'[b].invalidates = {} /\ {a, b} \subseteq overlapped'
    BY <1>2, <1>3, <1>6, <1>7 DEF Governed, Asking
  <1>13. Asking'
    BY <1>1, <1>9, <1>10, <1>11, <1>12 DEF Governed, Asking
  <1>14. ASSUME NEW a \in DOMAIN asking', NEW p \in P!Pending'
         PROVE  request'[p].snapshot = asking'[a].snapshot \/ p \in asking'[a].invalidates \/ {a, p} \cap overlapped' # {}
    <2>1. CASE a = r
      BY <1>1, <1>2, <1>3, <1>4, <1>5, <2>1
    <2>2. CASE a # r
      BY <1>1, <1>2, <1>4, <1>7, <2>2 DEF Governed, OneSnapshot
    <2> QED
      BY <2>1, <2>2
  <1>15. P!OneSnapshotPending'
    BY <1>1, <1>4, <1>7 DEF Governed, OneSnapshot, P!OneSnapshotPending
  <1> QED
    BY <1>1, <1>13, <1>14, <1>15, DecidingStays DEF Governed, OneSnapshot

LEMMA RequestStep ==
  ASSUME Governed, NEW r \in Requests, P!Request(r)
  PROVE  Governed'
  <1> DEFINE row == [state |-> "PENDING", snapshot |-> asking[r].snapshot, requester |-> asking[r].requester, step |-> 1]
             stale == asking[r].invalidates
  <1>1. /\ r \in DOMAIN asking
        /\ request' = [x \in Requests |-> IF x = r THEN row
                         ELSE IF x \in stale THEN [request[x] EXCEPT !.state = "INVALIDATED"] ELSE request[x]]
        /\ asking' = [x \in DOMAIN asking \ {r} |-> asking[x]]
        /\ UNCHANGED <<policy, decisions, overrides, overlapped, edits>>
    BY DEF P!Request
  <1>2. row \in Request /\ row.state = "PENDING" /\ row.snapshot = asking[r].snapshot /\ row.step = 1
    BY <1>1 DEF Governed, Asking, Request
  <1>3. \A x \in Requests : request[x] \in Request /\ [request[x] EXCEPT !.state = "INVALIDATED"] \in Request
    BY DEF Governed, Asking, Request
  <1>4. stale \subseteq P!Pending
    BY <1>1 DEF Governed, Asking
  <1> HIDE DEF row, stale
  <1>5. request' \in [Requests -> Request]
    BY <1>1, <1>2, <1>3
  <1>6. /\ request'[r] = row
        /\ \A x \in Requests \ {r} : /\ request'[x].snapshot = request[x].snapshot
                                     /\ request'[x].requester = request[x].requester
                                     /\ request'[x].step = request[x].step
                                     /\ request'[x].state = IF x \in stale THEN "INVALIDATED" ELSE request[x].state
    BY <1>1, <1>3 DEF Request
  <1>7. \A x \in stale : x \in Requests /\ request[x].state = "PENDING"
    BY <1>4 DEF P!Pending
  <1>8. r \notin stale /\ request[r].state = "ABSENT"
    BY <1>1, <1>7 DEF Governed, Asking
  <1>9. P!Pending' = (P!Pending \ stale) \cup {r}
    BY <1>2, <1>6, <1>8 DEF P!Pending
  <1>10. DOMAIN asking' = DOMAIN asking \ {r} /\ \A a \in DOMAIN asking' : asking'[a] = asking[a]
    BY <1>1
  <1>11. Asking'
    <2>1. \A a \in DOMAIN asking' : asking[a].invalidates \cap stale = {} /\ asking[a].invalidates \subseteq P!Pending
      BY <1>1, <1>10 DEF Governed, Asking, stale
    <2>2. \A a \in DOMAIN asking' : asking'[a].invalidates \subseteq P!Pending'
      BY <1>9, <1>10, <2>1
    <2>3. DOMAIN asking' \subseteq {x \in Requests : request'[x].state = "ABSENT"}
      BY <1>6, <1>7, <1>10 DEF Governed, Asking
    <2>4. \A a \in DOMAIN asking' : asking'[a].requester \in User /\ asking'[a].snapshot \in Snapshots
      BY <1>10 DEF Governed, Asking
    <2>5. \A a, b \in DOMAIN asking' : a # b =>
            asking'[a].invalidates \cap asking'[b].invalidates = {} /\ {a, b} \subseteq overlapped'
      BY <1>1, <1>10 DEF Governed, Asking
    <2>6. policy'.steps \in PolicySteps /\ edits' \in Nat /\ edits' <= MaxPolicies /\ overlapped' \subseteq Requests
      BY <1>1 DEF Governed, Asking
    <2> QED
      BY <1>5, <2>2, <2>3, <2>4, <2>5, <2>6 DEF Asking
  <1>12. \A p \in P!Pending' : p = r \/ (p \in P!Pending /\ p \notin stale /\ p # r /\ request'[p].snapshot = request[p].snapshot)
    BY <1>6, <1>8, <1>9 DEF P!Pending
  <1>13. ASSUME NEW a \in DOMAIN asking', NEW p \in P!Pending'
         PROVE  request'[p].snapshot = asking'[a].snapshot \/ p \in asking'[a].invalidates \/ {a, p} \cap overlapped' # {}
    <2>1. CASE p = r
      BY <1>1, <1>10, <2>1 DEF Governed, Asking
    <2>2. CASE p # r
      BY <1>1, <1>10, <1>12, <2>2 DEF Governed, OneSnapshot
    <2> QED
      BY <2>1, <2>2
  <1>14. \A p \in P!Pending' : p # r => request'[p].snapshot = request'[r].snapshot \/ {r, p} \cap overlapped' # {}
    BY <1>1, <1>2, <1>6, <1>12 DEF Governed, OneSnapshot, stale
  <1>15. P!OneSnapshotPending'
    <2> SUFFICES ASSUME NEW p \in P!Pending', NEW q \in P!Pending', p # q
                 PROVE  request'[p].snapshot = request'[q].snapshot \/ {p, q} \cap overlapped' # {}
      BY DEF P!OneSnapshotPending
    <2>1. CASE p = r
      BY <1>14, <2>1
    <2>2. CASE q = r
      BY <1>14, <2>2
    <2>3. CASE p # r /\ q # r
      BY <1>1, <1>12, <2>3 DEF Governed, OneSnapshot, P!OneSnapshotPending
    <2> QED
      BY <2>1, <2>2, <2>3
  <1>16. ASSUME NEW x \in Requests
         PROVE  Earned(x)'
    <2>1. Earned(x) /\ P!Decided(x)' = P!Decided(x)
      BY <1>1 DEF Governed, Deciding, P!Decided
    <2>2. CASE x = r
      <3>1. P!Decided(x)' = {} /\ request'[x].state = "PENDING" /\ request'[x].step = 1
        BY <1>2, <1>6, <1>8, <2>1, <2>2 DEF Earned
      <3>2. Reached(x)' = 0
        BY <3>1 DEF Reached
      <3>3. {d.step : d \in P!Decided(x)'} = 1 .. 0 /\ Cardinality(P!Decided(x)') = 0
        BY <3>1, FS_EmptySet
      <3> QED
        BY <3>1, <3>2, <3>3 DEF Earned
    <2>3. CASE x # r
      <3>1. /\ request'[x].requester = request[x].requester /\ request'[x].step = request[x].step
            /\ request'[x].state = IF x \in stale THEN "INVALIDATED" ELSE request[x].state
        BY <1>6, <2>3
      <3>2. Reached(x)' = Reached(x)
        BY <1>7, <3>1 DEF Reached
      <3> QED
        BY <1>1, <1>7, <2>1, <3>1, <3>2 DEF Earned
    <2> QED
      BY <2>2, <2>3
  <1>17. Deciding'
    BY <1>1, <1>16 DEF Governed, Deciding
  <1>18. Overriding'
    <2>1. \A x \in Requests : request[x].state = "APPROVED" =>
            request'[x].state = "APPROVED" /\ request'[x].snapshot = request[x].snapshot
      BY <1>6, <1>7, <1>8
    <2>2. \A o \in overrides : o.decision.request \in Requests
      BY DEF Governed, Overriding, Deciding, Decision
    <2> QED
      BY <1>1, <2>1, <2>2 DEF Governed, Overriding, P!OverridesAreApproved
  <1> QED
    BY <1>11, <1>13, <1>15, <1>17, <1>18 DEF Governed, OneSnapshot

LEMMA WithdrawStep ==
  ASSUME Governed, NEW r \in Requests, P!Withdraw(r)
  PROVE  Governed'
  <1>1. /\ asking' = [x \in DOMAIN asking \ {r} |-> asking[x]]
        /\ UNCHANGED <<policy, request, decisions, overrides, overlapped, edits>>
    BY DEF P!Withdraw
  <1>2. DOMAIN asking' = DOMAIN asking \ {r} /\ \A a \in DOMAIN asking' : asking'[a] = asking[a]
    BY <1>1
  <1>3. P!Pending' = P!Pending
    BY <1>1 DEF P!Pending
  <1>4. Asking' /\ OneSnapshot'
    BY <1>1, <1>2, <1>3 DEF Governed, Asking, OneSnapshot, P!OneSnapshotPending
  <1> QED
    BY <1>1, <1>4, DecidingStays DEF Governed

LEMMA DecideStep ==
  ASSUME Governed, NEW r \in Requests, NEW u \in User, NEW role \in Roles, NEW decision \in {"APPROVE", "REJECT"},
         P!decideApproval(r, u, role, decision)
  PROVE  Governed'
  <1> DEFINE i == request[r]
             complete == decision = "REJECT" \/ i.step >= Len(policy.steps)
             d == [request |-> r, step |-> i.step, by |-> u, decision |-> decision]
             on == [i EXCEPT !.step = @ + 1]
             done == [i EXCEPT !.state = IF decision = "APPROVE" THEN "APPROVED" ELSE "REJECTED"]
             row == IF complete THEN done ELSE on
  <1>1. /\ i.state = "PENDING" /\ ~P!Locked(r) /\ i.requester # u
        /\ i.step \in DOMAIN policy.steps
        /\ decisions' = decisions \cup {d}
        /\ UNCHANGED <<policy, asking, overrides, overlapped, edits>>
    BY DEF P!decideApproval
  <1>2. request' = [request EXCEPT ![r] = row]
    BY DEF P!decideApproval
  <1>3. i \in Request /\ i.step \in Nat /\ i.step >= 1
    BY <1>1 DEF Governed, Asking, Request, Deciding, Earned
  <1>4. i.step <= Len(policy.steps) /\ Len(policy.steps) \in Nat
    <2>1. policy.steps \in Seq(Roles)
      BY DesksAssumption DEF Governed, Asking
    <2> QED
      BY <1>1, <2>1
  <1>5. /\ row \in Request /\ row.requester = i.requester /\ row.snapshot = i.snapshot
        /\ complete => row.step = i.step /\ row.state = IF decision = "APPROVE" THEN "APPROVED" ELSE "REJECTED"
        /\ ~complete => row.step = i.step + 1 /\ row.state = "PENDING"
    <2>1. on \in Request /\ on.requester = i.requester /\ on.snapshot = i.snapshot /\ on.step = i.step + 1 /\ on.state = "PENDING"
      BY <1>1, <1>3 DEF Request
    <2>2. /\ done \in Request /\ done.requester = i.requester /\ done.snapshot = i.snapshot /\ done.step = i.step
          /\ done.state = IF decision = "APPROVE" THEN "APPROVED" ELSE "REJECTED"
      BY <1>3 DEF Request
    <2> HIDE DEF on, done, i
    <2> QED
      BY <2>1, <2>2
  <1>6. d \in Decision /\ d.request = r /\ d.step = i.step /\ d.by = u /\ d.decision = decision
    BY <1>3 DEF Decision
  <1>7. complete \in BOOLEAN /\ (~complete => decision = "APPROVE")
        /\ (complete /\ decision = "APPROVE" => i.step = Len(policy.steps))
    BY <1>3, <1>4
  <1> HIDE DEF i, on, done, row, d, complete
  <1>8. /\ request' \in [Requests -> Request] /\ request'[r] = row
        /\ \A x \in Requests \ {r} : request'[x] = request[x]
    BY <1>2, <1>5 DEF Governed, Asking
  <1>9. P!Pending' \subseteq P!Pending /\ P!Pending \subseteq P!Pending' \cup {r}
    BY <1>1, <1>8 DEF P!Pending, i
  <1>10. \A x \in Requests : request'[x].snapshot = request[x].snapshot
    BY <1>5, <1>8 DEF i
  <1>11. Asking'
    <2>1. \A a \in DOMAIN asking' : asking'[a].invalidates \subseteq P!Pending'
      BY <1>1, <1>9 DEF Governed, Asking, P!Locked
    <2>2. DOMAIN asking' \subseteq {x \in Requests : request'[x].state = "ABSENT"}
      BY <1>1, <1>8 DEF Governed, Asking, i
    <2> QED
      BY <1>1, <1>8, <2>1, <2>2 DEF Governed, Asking
  <1>12. OneSnapshot'
    <2>1. \A p \in P!Pending' : p \in Requests /\ p \in P!Pending
      BY <1>9 DEF P!Pending
    <2> QED
      BY <1>1, <1>10, <2>1 DEF Governed, OneSnapshot, P!OneSnapshotPending
  <1>13. ASSUME NEW x \in Requests
         PROVE  Earned(x)'
    <2>1. Earned(x)
      BY DEF Governed, Deciding
    <2>2. CASE x # r
      <3>1. P!Decided(x)' = P!Decided(x)
        BY <1>1, <1>6, <2>2 DEF P!Decided
      <3>2. request'[x] = request[x] /\ Reached(x)' = Reached(x)
        BY <1>8, <2>2 DEF Reached
      <3> QED
        BY <1>1, <2>1, <3>1, <3>2 DEF Earned
    <2>3. CASE x = r
      <3>1. P!Decided(r)' = P!Decided(r) \cup {d}
        BY <1>1, <1>6 DEF P!Decided
      <3>2. Reached(r) = i.step - 1
        BY <1>1 DEF Reached, i
      <3>3. Reached(r)' = i.step
        <4>1. CASE complete
          BY <1>5, <1>8, <4>1 DEF Reached
        <4>2. CASE ~complete
          <5>1. request'[r].step = i.step + 1 /\ request'[r].state = "PENDING"
            BY <1>5, <1>8, <4>2
          <5> QED
            BY <1>3, <5>1 DEF Reached
        <4> QED
          BY <4>1, <4>2
      <3>4. /\ {e.step : e \in P!Decided(r)} = 1 .. i.step - 1
            /\ Cardinality(P!Decided(r)) = i.step - 1
            /\ \A e \in P!Decided(r) : e.by # i.requester /\ e.decision = "APPROVE"
        BY <1>1, <2>1, <2>3, <3>2 DEF Earned, i
      <3>5. d \notin P!Decided(r)
        <4>1. i.step \notin 1 .. i.step - 1
          BY <1>3
        <4> QED
          BY <1>6, <3>4, <4>1
      <3>6. IsFiniteSet(P!Decided(r))
        BY FS_Subset DEF Governed, Deciding, P!Decided
      <3>7. Cardinality(P!Decided(r)') = i.step
        <4>1. Cardinality(P!Decided(r) \cup {d}) = Cardinality(P!Decided(r)) + 1
          BY <3>5, <3>6, FS_AddElement
        <4> QED
          BY <1>3, <3>1, <3>4, <4>1
      <3>8. {e.step : e \in P!Decided(r)'} = 1 .. i.step
        <4>1. {e.step : e \in P!Decided(r) \cup {d}} = {e.step : e \in P!Decided(r)} \cup {i.step}
          BY <1>6
        <4>2. (1 .. i.step - 1) \cup {i.step} = 1 .. i.step
          BY <1>3
        <4> QED
          BY <3>1, <3>4, <4>1, <4>2
      <3>9. \A e \in P!Decided(r) : e.step # i.step
        <4>1. i.step \notin 1 .. i.step - 1
          BY <1>3
        <4> QED
          BY <3>4, <4>1
      <3>10. \A e \in P!Decided(r)' :
               /\ e.by # request'[r].requester
               /\ e.decision = IF request'[r].state = "REJECTED" /\ e.step = i.step THEN "REJECT" ELSE "APPROVE"
        <4> SUFFICES ASSUME NEW e \in P!Decided(r)'
                     PROVE  /\ e.by # request'[r].requester
                            /\ e.decision = IF request'[r].state = "REJECTED" /\ e.step = i.step THEN "REJECT" ELSE "APPROVE"
          OBVIOUS
        <4>1. CASE e = d
          BY <1>1, <1>5, <1>6, <1>7, <1>8, <4>1
        <4>2. CASE e # d
          BY <1>5, <1>8, <3>1, <3>4, <3>9, <4>2
        <4> QED
          BY <4>1, <4>2
      <3>11. request'[r].state = "APPROVED" => i.step = Len(policy'.steps)
        BY <1>1, <1>5, <1>7, <1>8
      <3>12. request'[r].step >= 1 /\ request'[r].state # "ABSENT"
        BY <1>3, <1>5, <1>7, <1>8
      <3> QED
        BY <2>3, <3>3, <3>7, <3>8, <3>10, <3>11, <3>12 DEF Earned
    <2> QED
      BY <2>2, <2>3
  <1>14. Deciding'
    BY <1>1, <1>6, <1>13, FS_AddElement DEF Governed, Deciding
  <1>15. Overriding'
    <2>1. \A x \in Requests : request[x].state = "APPROVED" => request'[x] = request[x]
      BY <1>1, <1>8 DEF i
    <2>2. \A o \in overrides : o.decision.request \in Requests
      BY DEF Governed, Overriding, Deciding, Decision
    <2> QED
      BY <1>1, <2>1, <2>2 DEF Governed, Overriding, P!OverridesAreApproved
  <1> QED
    BY <1>11, <1>12, <1>14, <1>15 DEF Governed

LEMMA OverrideStep ==
  ASSUME Governed, NEW u \in User, NEW d \in decisions, NEW s \in Snapshots, P!overrideEligibility(u, d, s)
  PROVE  Governed'
  <1>1. /\ d.by # u /\ request[d.request].state = "APPROVED" /\ request[d.request].snapshot = s
        /\ overrides' = overrides \cup {[decision |-> d, by |-> u, snapshot |-> s]}
        /\ UNCHANGED <<policy, request, asking, decisions, overlapped, edits>>
    BY DEF P!overrideEligibility
  <1>2. P!Pending' = P!Pending
    BY <1>1 DEF P!Pending
  <1>3. Asking' /\ OneSnapshot'
    BY <1>1, <1>2 DEF Governed, Asking, OneSnapshot, P!OneSnapshotPending
  <1>4. ASSUME NEW r \in Requests
        PROVE  Earned(r)'
    <2>1. Earned(r) /\ P!Decided(r)' = P!Decided(r) /\ Reached(r)' = Reached(r)
      BY <1>1 DEF Governed, Deciding, P!Decided, Reached
    <2> QED
      BY <1>1, <2>1 DEF Earned
  <1>5. Deciding'
    BY <1>1, <1>4 DEF Governed, Deciding
  <1>6. Overriding'
    BY <1>1 DEF Governed, Overriding, P!OverridesAreApproved
  <1> QED
    BY <1>3, <1>5, <1>6 DEF Governed

LEMMA GovernedStep == Governed /\ [P!Next]_approvals => Governed'
  <1> SUFFICES ASSUME Governed, [P!Next]_approvals PROVE Governed'
    OBVIOUS
  <1>1. CASE \E s \in PolicySteps, a \in BOOLEAN : P!update(s, a)
    BY <1>1, UpdateStep
  <1>2. CASE \E r \in Requests, u \in User, s \in Snapshots : P!requestApproval(r, u, s)
    BY <1>2, AskStep
  <1>3. CASE \E r \in Requests : P!Request(r) \/ P!Withdraw(r)
    BY <1>3, RequestStep, WithdrawStep
  <1>4. CASE \E r \in Requests, u \in User, role \in Roles, d \in {"APPROVE", "REJECT"} : P!decideApproval(r, u, role, d)
    BY <1>4, DecideStep
  <1>5. CASE \E u \in User, d \in decisions, s \in Snapshots : P!overrideEligibility(u, d, s)
    BY <1>5, OverrideStep
  <1>6. CASE UNCHANGED approvals
    <2>1. UNCHANGED <<policy, request, asking, decisions, overrides, overlapped, edits>>
      BY <1>6 DEF approvals
    <2>2. P!Pending' = P!Pending
      BY <2>1 DEF P!Pending
    <2>3. Asking' /\ OneSnapshot'
      BY <2>1, <2>2 DEF Governed, Asking, OneSnapshot, P!OneSnapshotPending
    <2> QED
      BY <2>1, <2>3, DecidingStays DEF Governed
  <1> QED
    BY <1>1, <1>2, <1>3, <1>4, <1>5, <1>6 DEF P!Next

LEMMA GovernedIsEnough == Governed => P!TypeOK /\ P!ApprovalIsEarned /\ P!OneSnapshotPending /\ P!OverridesAreApproved
  <1> SUFFICES ASSUME Governed PROVE P!TypeOK /\ P!ApprovalIsEarned /\ P!OneSnapshotPending /\ P!OverridesAreApproved
    OBVIOUS
  <1>1. P!TypeOK
    <2>1. \A r \in Requests : request[r] \in Request
      BY DEF Governed, Asking
    <2> QED
      BY <2>1 DEF Governed, Asking, Deciding, Decision, Request, Overriding, P!TypeOK
  <1>2. P!ApprovalIsEarned
    <2>1. \A S : P!Cardinality(S) = Cardinality(S)
      BY DEF P!Cardinality, Cardinality
    <2>2. \A r \in Requests : Earned(r)
      BY DEF Governed, Deciding
    <2> QED
      BY <2>1, <2>2 DEF P!ApprovalIsEarned, Earned, Reached
  <1> QED
    BY <1>1, <1>2 DEF Governed, OneSnapshot, Overriding

-----------------------------------------------------------------------------
(* Documents                                                               *)

Contents == {"PLAIN", "EICAR"}
Paper == [state : {"ABSENT", "PENDING", "VERIFIED", "QUARANTINED"}, current : Nat]
Kept == {v \in Papers \X Nat : v[2] \in 1 .. Len(version[v[1]])}

\* Verdicts, links and the rest are about versions that there are.
Filed ==
  /\ document \in [Papers -> Paper]
  /\ version \in [Papers -> Seq(Contents)]
  /\ \A d \in Papers : document[d].current = Len(version[d])
  /\ \A i \in DOMAIN order : order[i] \in Kept
  /\ DOMAIN scan \subseteq Kept /\ batch \subseteq Kept
  /\ \A a \in Attachments : handoff[a] \in Kept \cup {None}
  /\ handoff = [a \in Attachments |-> handoff[a]]
  /\ token \in [Tokens -> [of : Kept \cup {None}, used : BOOLEAN]]

\* What was found clean carries no signature.
Scanned == \A v \in DOMAIN scan : scan[v] \in {"CLEAN", "REJECTED"} /\ (scan[v] = "CLEAN" => D!Content(v) # "EICAR")

Shelved == Filed /\ Scanned /\ D!VerdictsFollowVersions /\ D!LinksAreClean

Noted ==
  /\ comment \in [version : Nat, author : User \cup {None}, resolvedBy : User \cup {None}]
  /\ history \in Seq(User \cup {None}) /\ Len(history) = comment.version
  /\ D!CommentsAreTheirAuthors

LEMMA ShelvedInit == D!Init => Shelved /\ Noted
  <1> SUFFICES ASSUME D!Init PROVE Shelved /\ Noted
    OBVIOUS
  <1>1. /\ document = [d \in Papers |-> D!NoDocument] /\ version = [d \in Papers |-> <<>>]
        /\ order = <<>> /\ scan = [v \in {} |-> "CLEAN"] /\ batch = {}
        /\ handoff = [a \in Attachments |-> None] /\ token = [t \in Tokens |-> [of |-> None, used |-> FALSE]]
        /\ comment = D!NoComment /\ history = <<>>
    BY DEF D!Init
  <1>2. D!NoDocument \in Paper /\ D!NoDocument.state = "ABSENT" /\ D!NoDocument.current = 0
    BY DEF D!NoDocument, Paper
  <1>3. <<>> \in Seq(Contents) /\ Len(<<>>) = 0
    OBVIOUS
  <1>4. Filed
    BY <1>1, <1>2, <1>3 DEF Filed
  <1>5. Scanned /\ D!VerdictsFollowVersions /\ D!LinksAreClean
    BY <1>1, <1>2 DEF Scanned, D!VerdictsFollowVersions, D!LinksAreClean
  <1>6. D!NoComment \in [version : Nat, author : User \cup {None}, resolvedBy : User \cup {None}] /\ D!NoComment.version = 0
    BY DEF D!NoComment
  <1>7. <<>> \in Seq(User \cup {None}) /\ DOMAIN <<>> = {}
    OBVIOUS
  <1>8. Noted
    BY <1>1, <1>3, <1>6, <1>7 DEF Noted, D!CommentsAreTheirAuthors
  <1> QED
    BY <1>4, <1>5, <1>8 DEF Shelved

\* A new version is of no verdict, and its document of none any more.
LEMMA AddStep ==
  ASSUME Shelved, NEW d \in Papers, NEW c \in Contents, D!Add(d, c),
         UNCHANGED <<scan, batch, token>>,
         \/ UNCHANGED handoff
         \/ \E a \in Attachments : handoff' = [handoff EXCEPT ![a] = <<d, document[d].current + 1>>]
  PROVE  Shelved'
  <1> DEFINE n == document[d].current
             row == [state |-> "PENDING", current |-> n + 1]
  <1>1. /\ document' = [document EXCEPT ![d] = row]
        /\ version' = [version EXCEPT ![d] = Append(@, c)]
        /\ order' = Append(order, <<d, n + 1>>)
    BY DEF D!Add
  <1>2. n \in Nat /\ n = Len(version[d]) /\ version[d] \in Seq(Contents)
    BY DEF Shelved, Filed, Paper
  <1>3. row \in Paper /\ row.state = "PENDING" /\ row.current = n + 1
    BY <1>2 DEF Paper
  <1> HIDE DEF row, n
  <1>4. /\ document' \in [Papers -> Paper] /\ document'[d] = row
        /\ \A x \in Papers \ {d} : document'[x] = document[x]
    BY <1>1, <1>3 DEF Shelved, Filed
  <1>5. /\ Append(version[d], c) \in Seq(Contents) /\ Len(Append(version[d], c)) = n + 1
        /\ \A i \in 1 .. n : Append(version[d], c)[i] = version[d][i]
    BY <1>2
  <1>6. /\ version' \in [Papers -> Seq(Contents)] /\ version'[d] = Append(version[d], c)
        /\ \A x \in Papers \ {d} : version'[x] = version[x]
    BY <1>1, <1>5 DEF Shelved, Filed
  <1>7. \A v \in Kept : v \in Kept' /\ D!Content(v)' = D!Content(v)
    <2> SUFFICES ASSUME NEW v \in Kept PROVE v \in Kept' /\ D!Content(v)' = D!Content(v)
      OBVIOUS
    <2>1. v \in Papers \X Nat /\ v[1] \in Papers /\ v[2] \in 1 .. Len(version[v[1]])
      BY DEF Kept
    <2>2. CASE v[1] = d
      <3>1. v[2] \in 1 .. n /\ v[2] \in 1 .. n + 1
        BY <1>2, <2>1, <2>2
      <3> QED
        BY <1>5, <1>6, <2>1, <2>2, <3>1 DEF Kept, D!Content
    <2>3. CASE v[1] # d
      BY <1>6, <2>1, <2>3 DEF Kept, D!Content
    <2> QED
      BY <2>2, <2>3
  <1>8. <<d, n + 1>> \in Kept' /\ <<d, n + 1>> \notin Kept
    BY <1>2, <1>5, <1>6 DEF Kept
  <1>9. \A x \in Papers : document'[x].current = Len(version'[x])
    BY <1>3, <1>4, <1>5, <1>6 DEF Shelved, Filed
  <1>10. \A i \in DOMAIN order' : order'[i] \in Kept'
    <2>1. \A i \in DOMAIN order' : order'[i] = <<d, n + 1>> \/ (i \in DOMAIN order /\ order'[i] = order[i])
      BY <1>1
    <2> QED
      BY <1>7, <1>8, <2>1 DEF Shelved, Filed
  <1>11. /\ \A a \in Attachments : handoff'[a] \in Kept' \cup {None}
         /\ handoff' = [a \in Attachments |-> handoff'[a]]
         /\ \A a \in Attachments : handoff'[a] = handoff[a] \/ handoff'[a] = <<d, n + 1>>
         /\ \A a, b \in Attachments : handoff'[a] = <<d, n + 1>> /\ handoff'[b] = <<d, n + 1>> => a = b
    <2>0. <<d, n + 1>> \in Papers \X Nat /\ <<d, n + 1>> # None
      <3>1. <<d, n + 1>> \in Papers \X Nat
        BY <1>2
      <3>2. None \notin Papers \X Nat
        BY DesksAssumption
      <3> QED
        BY <3>1, <3>2
    <2>1. \A a \in Attachments : handoff[a] \in Kept \cup {None} /\ handoff[a] # <<d, n + 1>>
      BY <1>8, <2>0 DEF Shelved, Filed
    <2>2. CASE UNCHANGED handoff
      BY <1>7, <2>1, <2>2 DEF Shelved, Filed
    <2>3. ASSUME NEW a \in Attachments, handoff' = [handoff EXCEPT ![a] = <<d, n + 1>>]
          PROVE  <1>11!:
      <3>1. handoff = [x \in Attachments |-> handoff[x]]
        BY DEF Shelved, Filed
      <3>2. handoff' = [x \in Attachments |-> IF x = a THEN <<d, n + 1>> ELSE handoff[x]]
        BY <2>3, <3>1
      <3> QED
        BY <1>7, <1>8, <2>1, <3>2
    <2> QED
      BY <2>2, <2>3 DEF n
  <1>12. token' \in [Tokens -> [of : Kept' \cup {None}, used : BOOLEAN]]
    BY <1>7 DEF Shelved, Filed
  <1>13. DOMAIN scan' \subseteq Kept' /\ batch' \subseteq Kept'
    BY <1>7 DEF Shelved, Filed
  <1>14. Filed'
    BY <1>4, <1>6, <1>9, <1>10, <1>11, <1>12, <1>13 DEF Filed
  <1>15. Scanned'
    BY <1>7 DEF Shelved, Filed, Scanned
  <1>16. D!VerdictsFollowVersions'
    <2> SUFFICES ASSUME NEW x \in Papers
                 PROVE  /\ <<x, document'[x].current>> \in DOMAIN scan' /\ scan'[<<x, document'[x].current>>] = "REJECTED" => document'[x].state = "QUARANTINED"
                        /\ document'[x].state = "VERIFIED" => <<x, document'[x].current>> \in DOMAIN scan' /\ scan'[<<x, document'[x].current>>] = "CLEAN"
      BY DEF D!VerdictsFollowVersions
    <2>1. CASE x = d
      <3>1. <<x, document'[x].current>> \notin DOMAIN scan'
        BY <1>3, <1>4, <1>8, <2>1 DEF Shelved, Filed
      <3> QED
        BY <1>3, <1>4, <2>1, <3>1
    <2>2. CASE x # d
      BY <1>4, <2>2 DEF Shelved, D!VerdictsFollowVersions
    <2> QED
      BY <2>1, <2>2
  <1>17. D!LinksAreClean'
    <2>1. \A t \in Tokens : token'[t].of # None => version'[token'[t].of[1]][token'[t].of[2]] # "EICAR"
      <3> SUFFICES ASSUME NEW t \in Tokens, token[t].of # None
                   PROVE  version'[token[t].of[1]][token[t].of[2]] # "EICAR"
        OBVIOUS
      <3>1. \A v \in Kept : version'[v[1]][v[2]] = D!Content(v)
        BY <1>7 DEF D!Content
      <3>2. token[t].of \in Kept /\ D!Content(token[t].of) # "EICAR"
        BY DEF Shelved, Filed, D!LinksAreClean
      <3> QED
        BY <3>1, <3>2
    <2>2. \A a, b \in Attachments : handoff'[a] # None /\ handoff'[a] = handoff'[b] => a = b
      <3> SUFFICES ASSUME NEW a \in Attachments, NEW b \in Attachments, handoff'[a] # None, handoff'[a] = handoff'[b]
                   PROVE  a = b
        OBVIOUS
      <3>1. CASE handoff'[a] = <<d, n + 1>>
        BY <1>11, <3>1
      <3>2. CASE handoff'[a] # <<d, n + 1>>
        BY <1>11, <3>2 DEF Shelved, D!LinksAreClean
      <3> QED
        BY <3>1, <3>2
    <2> QED
      BY <2>1, <2>2 DEF D!LinksAreClean, D!Content
  <1> QED
    BY <1>14, <1>15, <1>16, <1>17 DEF Shelved

\* While the versions stay, so does what they say.
LEMMA KeptStays == UNCHANGED version => Kept' = Kept /\ \A v : D!Content(v)' = D!Content(v)
  BY DEF Kept, D!Content

LEMMA ScanStep ==
  ASSUME Shelved, D!documentScans
  PROVE  Shelved'
  <1>1. batch' = {order[i] : i \in D!Oldest} /\ UNCHANGED <<document, version, order, scan, handoff, token>>
    BY DEF D!documentScans
  <1>2. D!Oldest \subseteq DOMAIN order
    BY DEF D!Oldest, D!Unscanned
  <1>3. batch' \subseteq Kept
    BY <1>1, <1>2 DEF Shelved, Filed
  <1> QED
    BY <1>1, <1>3, KeptStays DEF Shelved, Filed, Scanned, D!VerdictsFollowVersions, D!LinksAreClean

LEMMA RecordStep ==
  ASSUME Shelved, D!Record
  PROVE  Shelved'
  <1> DEFINE bad == D!Rejected(batch)
  <1>1. /\ scan' = [v \in DOMAIN scan \cup bad |-> IF v \in DOMAIN scan THEN scan[v] ELSE "REJECTED"]
        /\ document' = [d \in Papers |-> IF \E v \in bad : v[1] = d THEN [document[d] EXCEPT !.state = "QUARANTINED"]
                                         ELSE document[d]]
        /\ batch' = {} /\ UNCHANGED <<version, order, handoff, token>>
    BY DEF D!Record, D!Quarantine
  <1>2. bad \subseteq Kept
    BY DEF D!Rejected, Shelved, Filed
  <1> HIDE DEF bad
  <1>3. \A d \in Papers : document[d] \in Paper /\ [document[d] EXCEPT !.state = "QUARANTINED"] \in Paper
    BY DEF Shelved, Filed, Paper
  <1>4. /\ document' \in [Papers -> Paper]
        /\ \A d \in Papers : /\ document'[d].current = document[d].current
                             /\ document'[d].state = IF \E v \in bad : v[1] = d THEN "QUARANTINED" ELSE document[d].state
    BY <1>1, <1>3 DEF Paper
  <1>5. /\ DOMAIN scan' = DOMAIN scan \cup bad
        /\ \A v \in DOMAIN scan : scan'[v] = scan[v]
        /\ \A v \in DOMAIN scan' : v \notin DOMAIN scan => v \in bad /\ scan'[v] = "REJECTED"
    BY <1>1
  <1>6. Kept' = Kept /\ \A v : D!Content(v)' = D!Content(v)
    BY <1>1, KeptStays
  <1>7. Filed'
    BY <1>1, <1>2, <1>4, <1>5, <1>6 DEF Shelved, Filed
  <1>8. Scanned'
    BY <1>5, <1>6 DEF Shelved, Scanned
  <1>9. D!VerdictsFollowVersions'
    <2> SUFFICES ASSUME NEW x \in Papers
                 PROVE  /\ <<x, document'[x].current>> \in DOMAIN scan' /\ scan'[<<x, document'[x].current>>] = "REJECTED" => document'[x].state = "QUARANTINED"
                        /\ document'[x].state = "VERIFIED" => <<x, document'[x].current>> \in DOMAIN scan' /\ scan'[<<x, document'[x].current>>] = "CLEAN"
      BY DEF D!VerdictsFollowVersions
    <2> DEFINE v == <<x, document'[x].current>>
    <2>1. v = <<x, document[x].current>> /\ v[1] = x
      BY <1>4
    <2>2. CASE v \in bad
      BY <1>4, <2>1, <2>2
    <2>3. CASE v \notin bad
      <3>1. /\ v \in DOMAIN scan /\ scan[v] = "REJECTED" => document[x].state = "QUARANTINED"
            /\ document[x].state = "VERIFIED" => v \in DOMAIN scan /\ scan[v] = "CLEAN"
        BY <2>1 DEF Shelved, D!VerdictsFollowVersions
      <3> QED
        BY <1>4, <1>5, <2>3, <3>1
    <2> QED
      BY <2>2, <2>3
  <1>10. D!LinksAreClean'
    BY <1>1, <1>6 DEF Shelved, D!LinksAreClean
  <1> QED
    BY <1>7, <1>8, <1>9, <1>10 DEF Shelved

LEMMA AttestStep ==
  ASSUME Shelved, NEW v \in Kept, D!Attest(v)
  PROVE  Shelved'
  <1>1. /\ v \notin DOMAIN scan /\ D!Content(v) # "EICAR"
        /\ document[v[1]].current = v[2]
        /\ scan' = [x \in DOMAIN scan \cup {v} |-> IF x = v THEN "CLEAN" ELSE scan[x]]
        /\ document' = [document EXCEPT ![v[1]].state = "VERIFIED"]
        /\ UNCHANGED <<version, order, batch, handoff, token>>
    BY DEF D!Attest
  <1>2. v[1] \in Papers /\ v = <<v[1], v[2]>>
    BY DEF Kept
  <1>3. /\ document' \in [Papers -> Paper]
        /\ \A d \in Papers : /\ document'[d].current = document[d].current
                             /\ document'[d].state = IF d = v[1] THEN "VERIFIED" ELSE document[d].state
    BY <1>1, <1>2 DEF Shelved, Filed, Paper
  <1>4. DOMAIN scan' = DOMAIN scan \cup {v} /\ scan'[v] = "CLEAN" /\ \A x \in DOMAIN scan : scan'[x] = scan[x]
    BY <1>1
  <1>5. Kept' = Kept /\ \A x : D!Content(x)' = D!Content(x)
    BY <1>1, KeptStays
  <1>6. Filed'
    BY <1>1, <1>3, <1>4, <1>5 DEF Shelved, Filed
  <1>7. Scanned'
    BY <1>1, <1>4, <1>5 DEF Shelved, Scanned
  <1>8. D!VerdictsFollowVersions'
    <2> SUFFICES ASSUME NEW x \in Papers
                 PROVE  /\ <<x, document'[x].current>> \in DOMAIN scan' /\ scan'[<<x, document'[x].current>>] = "REJECTED" => document'[x].state = "QUARANTINED"
                        /\ document'[x].state = "VERIFIED" => <<x, document'[x].current>> \in DOMAIN scan' /\ scan'[<<x, document'[x].current>>] = "CLEAN"
      BY DEF D!VerdictsFollowVersions
    <2>1. CASE x = v[1]
      <3>1. <<x, document'[x].current>> = v
        BY <1>1, <1>2, <1>3, <2>1
      <3> QED
        BY <1>4, <3>1
    <2>2. CASE x # v[1]
      <3>1. <<x, document'[x].current>> # v /\ document'[x].current = document[x].current /\ document'[x].state = document[x].state
        BY <1>2, <1>3, <2>2
      <3> QED
        BY <1>4, <3>1 DEF Shelved, D!VerdictsFollowVersions
    <2> QED
      BY <2>1, <2>2
  <1>9. D!LinksAreClean'
    BY <1>1, <1>5 DEF Shelved, D!LinksAreClean
  <1> QED
    BY <1>6, <1>7, <1>8, <1>9 DEF Shelved

LEMMA IssueStep ==
  ASSUME Shelved, NEW t \in Tokens, NEW v \in Kept, D!issueDocumentAccess(t, v)
  PROVE  Shelved'
  <1>1. /\ v \in DOMAIN scan /\ scan[v] = "CLEAN"
        /\ token' = [token EXCEPT ![t].of = v]
        /\ UNCHANGED <<document, version, order, scan, batch, handoff>>
    BY DEF D!issueDocumentAccess
  <1>2. Kept' = Kept /\ \A x : D!Content(x)' = D!Content(x)
    BY <1>1, KeptStays
  <1>3. /\ token' \in [Tokens -> [of : Kept \cup {None}, used : BOOLEAN]]
        /\ \A x \in Tokens : token'[x].of = IF x = t THEN v ELSE token[x].of
    BY <1>1 DEF Shelved, Filed
  <1>4. Filed' /\ Scanned' /\ D!VerdictsFollowVersions'
    BY <1>1, <1>2, <1>3 DEF Shelved, Filed, Scanned, D!VerdictsFollowVersions
  <1>5. D!Content(v) # "EICAR"
    BY <1>1 DEF Shelved, Scanned
  <1>6. D!LinksAreClean'
    BY <1>1, <1>2, <1>3, <1>5 DEF Shelved, D!LinksAreClean
  <1> QED
    BY <1>4, <1>6 DEF Shelved

LEMMA DownloadStep ==
  ASSUME Shelved, NEW t \in Tokens, D!downloadDocument(t)
  PROVE  Shelved'
  <1>1. token' = [token EXCEPT ![t].used = TRUE] /\ UNCHANGED <<document, version, order, scan, batch, handoff>>
    BY DEF D!downloadDocument
  <1>2. Kept' = Kept /\ \A x : D!Content(x)' = D!Content(x)
    BY <1>1, KeptStays
  <1>3. /\ token' \in [Tokens -> [of : Kept \cup {None}, used : BOOLEAN]]
        /\ \A x \in Tokens : token'[x].of = token[x].of
    BY <1>1 DEF Shelved, Filed
  <1> QED
    BY <1>1, <1>2, <1>3 DEF Shelved, Filed, Scanned, D!VerdictsFollowVersions, D!LinksAreClean

LEMMA ShelvedStays == Shelved /\ UNCHANGED papers => Shelved'
  BY KeptStays DEF papers, Shelved, Filed, Scanned, D!VerdictsFollowVersions, D!LinksAreClean

LEMMA NotedStep ==
  ASSUME Noted, NEW u \in User, NEW edit \in BOOLEAN, NEW resolved \in {"KEEP", "YES", "NO"},
         D!addGovernedComment(u) \/ D!updateGovernedComment(u, edit, resolved)
  PROVE  Noted'
  <1> DEFINE Comment == [version : Nat, author : User \cup {None}, resolvedBy : User \cup {None}]
  <1>1. CASE D!addGovernedComment(u)
    <2>1. comment' = [version |-> 1, author |-> u, resolvedBy |-> None] /\ history' = <<u>>
      BY <1>1 DEF D!addGovernedComment
    <2>2. <<u>> \in Seq(User \cup {None}) /\ Len(<<u>>) = 1 /\ \A i \in DOMAIN <<u>> : <<u>>[i] = u
      OBVIOUS
    <2> QED
      BY <2>1, <2>2 DEF Noted, D!CommentsAreTheirAuthors
  <1>2. CASE D!updateGovernedComment(u, edit, resolved)
    <2> DEFINE by == CASE resolved = "YES" -> u [] resolved = "NO" -> None [] OTHER -> comment.resolvedBy
               new == [comment EXCEPT !.version = comment.version + 1, !.resolvedBy = by]
               entry == IF edit THEN u ELSE None
    <2>1. /\ edit => comment.author = u
          /\ comment' = new /\ history' = Append(history, entry)
      BY <1>2 DEF D!updateGovernedComment
    <2>2. by \in User \cup {None} /\ entry \in {None, comment.author} \cap (User \cup {None})
      BY <2>1 DEF Noted
    <2> HIDE DEF by
    <2> DEFINE n == comment.version + 1
    <2>0. comment \in Comment /\ n \in Nat
      BY DEF Noted
    <2> HIDE DEF n
    <2>3. [comment EXCEPT !.version = n, !.resolvedBy = by] \in Comment
          /\ [comment EXCEPT !.version = n, !.resolvedBy = by].version = n
          /\ [comment EXCEPT !.version = n, !.resolvedBy = by].author = comment.author
      BY <2>0, <2>2
    <2>30. new \in Comment /\ new.version = comment.version + 1 /\ new.author = comment.author
      BY <2>3 DEF n
    <2> HIDE DEF entry, new
    <2>4. /\ history' \in Seq(User \cup {None}) /\ Len(history') = Len(history) + 1
          /\ \A i \in DOMAIN history' : history'[i] = entry \/ (i \in DOMAIN history /\ history'[i] = history[i])
      BY <2>1, <2>2 DEF Noted
    <2>5. Len(history') = comment'.version /\ comment' \in Comment
      BY <2>1, <2>30, <2>4 DEF Noted
    <2> QED
      BY <2>1, <2>2, <2>30, <2>4, <2>5 DEF Noted, D!CommentsAreTheirAuthors
  <1> QED
    BY <1>1, <1>2

LEMMA ShelvedStep == Shelved /\ Noted /\ [D!Next]_<<papers, comments>> => Shelved' /\ Noted'
  <1> SUFFICES ASSUME Shelved, Noted, [D!Next]_<<papers, comments>> PROVE Shelved' /\ Noted'
    OBVIOUS
  <1>1. UNCHANGED comments => Noted'
    BY DEF comments, Noted, D!CommentsAreTheirAuthors
  <1>2. CASE \E d \in Papers, c \in {"PLAIN", "EICAR"} : D!uploadDocument(d, c) \/ \E a \in Attachments : D!createGovernedDocument(a, d, c)
    BY <1>1, <1>2, AddStep DEF D!uploadDocument, D!createGovernedDocument, Contents, D!comments, comments
  <1>3. CASE D!documentScans \/ D!Record
    BY <1>1, <1>3, ScanStep, RecordStep DEF D!documentScans, D!Record, D!comments, comments
  <1>4. CASE \E i \in DOMAIN order : D!Attest(order[i]) \/ \E t \in Tokens : D!issueDocumentAccess(t, order[i])
    <2> PICK i \in DOMAIN order : D!Attest(order[i]) \/ \E t \in Tokens : D!issueDocumentAccess(t, order[i])
      BY <1>4
    <2>1. order[i] \in Kept
      BY DEF Shelved, Filed
    <2> QED
      BY <1>1, <2>1, AttestStep, IssueStep DEF D!Attest, D!issueDocumentAccess, D!comments, comments
  <1>5. CASE \E t \in Tokens : D!downloadDocument(t)
    BY <1>1, <1>5, DownloadStep DEF D!downloadDocument, D!comments, comments
  <1>6. CASE \E u \in User : D!addGovernedComment(u) \/ \E e \in BOOLEAN, r \in {"KEEP", "YES", "NO"} : D!updateGovernedComment(u, e, r)
    <2>1. UNCHANGED papers
      BY <1>6 DEF D!addGovernedComment, D!updateGovernedComment, D!papers, papers
    <2> QED
      BY <1>6, <2>1, NotedStep, ShelvedStays
  <1>7. CASE UNCHANGED <<papers, comments>>
    BY <1>1, <1>7, ShelvedStays
  <1> QED
    BY <1>2, <1>3, <1>4, <1>5, <1>6, <1>7 DEF D!Next

LEMMA ShelvedIsEnough ==
  Shelved /\ Noted => D!TypeOK /\ D!VerdictsFollowVersions /\ D!LinksAreClean /\ D!CommentsAreTheirAuthors
  <1> SUFFICES ASSUME Shelved, Noted PROVE D!TypeOK
    BY DEF Shelved, Noted
  <1>1. \A v \in Kept : v[1] \in Papers
    BY DEF Kept
  <1> QED
    BY <1>1 DEF Shelved, Noted, Filed, Scanned, Paper, D!TypeOK

-----------------------------------------------------------------------------
(* Configurations                                                          *)

Numbers == 1 .. MaxVersion
Live == {"PUBLISHED", "SUPERSEDED"}
Version == [state : {"ABSENT", "DRAFT"} \cup Live, value : Values \cup {None}, of : Numbers \cup {None}]
Brought(c, of, value) == of # None => of \in Numbers /\ c[of].state # "ABSENT" /\ value = c[of].value

\* Versions are numbered without a gap, and what a row or a draft was brought
\* back from is there and says the same.
Numbered ==
  /\ config \in [Numbers -> Version]
  /\ \A v \in Numbers : config[v].state = "ABSENT" => config[v] = G!Absent
  /\ \E n \in Nat : G!Rows = 1 .. n /\ \A d \in drafting : d.version \in 1 .. n + 1
  /\ \A v \in G!Rows : Brought(config, config[v].of, config[v].value)
  /\ \A d \in drafting : /\ d.version \in Numbers /\ d.value \in Values \cup {None} /\ d.of \in Numbers \cup {None}
                         /\ Brought(config, d.of, d.value)

\* What is being published is still a draft; it will supersede what is
\* published unless the two were published at once.
Publishing ==
  /\ DOMAIN publishing \subseteq {v \in Numbers : config[v].state = "DRAFT"}
  /\ \A v \in DOMAIN publishing :
       /\ \A w \in publishing[v] : w \in Numbers /\ config[w].state \in Live
       /\ \A w \in Numbers : config[w].state = "PUBLISHED" => w \in publishing[v] \/ {v, w} \subseteq crossed
       /\ \A w \in DOMAIN publishing : v = w \/ {v, w} \subseteq crossed
  /\ \A v, w \in Numbers : config[v].state = "PUBLISHED" /\ config[w].state = "PUBLISHED" =>
       v = w \/ {v, w} \subseteq crossed

Lives == {v \in Numbers : config[v].state \in Live}
Counted ==
  /\ projection = Cardinality(Lives)
  /\ projection > 0 => \E v \in Numbers : config[v].state = "PUBLISHED"

Configured == Numbered /\ Publishing /\ Counted

LEMMA RowsAre == Numbered => G!Rows = {v \in Numbers : config[v].state # "ABSENT"}
  BY DEF Numbered, G!Rows, G!Versions, G!Absent, Numbers

LEMMA ConfiguredInit == G!Init => Configured
  <1> SUFFICES ASSUME G!Init PROVE Configured
    OBVIOUS
  <1>1. config = [v \in Numbers |-> G!Absent] /\ drafting = {} /\ publishing = [v \in {} |-> {}] /\ projection = 0
    BY DEF G!Init, G!Versions, Numbers
  <1>2. G!Absent \in Version /\ G!Absent.state = "ABSENT"
    BY DEF G!Absent, Version
  <1>3. G!Rows = {}
    BY <1>1 DEF G!Rows, G!Versions, Numbers
  <1>4. Numbered
    <2>1. 1 .. 0 = {} /\ 0 \in Nat
      OBVIOUS
    <2> QED
      BY <1>1, <1>2, <1>3, <2>1 DEF Numbered
  <1>5. Publishing
    BY <1>1, <1>2 DEF Publishing
  <1>6. Lives = {}
    BY <1>1, <1>2 DEF Lives, Live
  <1> QED
    BY <1>1, <1>4, <1>5, <1>6, FS_EmptySet DEF Configured, Counted

LEMMA CardinalityOfRows == \A n \in Nat : G!Rows = 1 .. n => G!Cardinality(G!Rows) = n
  <1>1. \A S : G!Cardinality(S) = Cardinality(S)
    BY DEF G!Cardinality, Cardinality
  <1> QED
    BY <1>1, FS_Interval

\* A draft that is written down later is of the next number.
LEMMA ReadStep ==
  ASSUME Configured, NEW value \in Values \cup {None}, NEW of \in Numbers \cup {None},
         Brought(config, of, value), G!Read(value, of)
  PROVE  Configured'
  <1> PICK n \in Nat : G!Rows = 1 .. n /\ \A d \in drafting : d.version \in 1 .. n + 1
    BY DEF Configured, Numbered
  <1> DEFINE d == [version |-> G!NextVersion, value |-> value, of |-> of]
  <1>1. /\ G!NextVersion \in Numbers /\ drafting' = drafting \cup {d}
        /\ UNCHANGED <<config, publishing, projection, crossed>>
    BY DEF G!Read, G!Versions, Numbers
  <1>2. G!NextVersion = n + 1
    BY CardinalityOfRows DEF G!NextVersion
  <1>3. G!Rows' = G!Rows
    BY <1>1 DEF G!Rows
  <1>4. Numbered'
    <2>1. \A x \in drafting' : x.version \in 1 .. n + 1
      BY <1>1, <1>2
    <2>2. \A x \in drafting' : /\ x.version \in Numbers /\ x.value \in Values \cup {None} /\ x.of \in Numbers \cup {None}
                               /\ Brought(config, x.of, x.value)
      BY <1>1 DEF Configured, Numbered
    <2>3. \A o, x : Brought(config', o, x) = Brought(config, o, x)
      BY <1>1, <1>3 DEF Brought
    <2>4. \A x \in drafting' : Brought(config', x.of, x.value)
      BY <2>2, <2>3
    <2>5. \A v \in G!Rows' : Brought(config', config'[v].of, config'[v].value)
      BY <1>1, <1>3, <2>3 DEF Configured, Numbered
    <2>6. \E k \in Nat : G!Rows' = 1 .. k /\ \A x \in drafting' : x.version \in 1 .. k + 1
      BY <1>3, <2>1
    <2>7. /\ config' \in [Numbers -> Version]
          /\ \A v \in Numbers : config'[v].state = "ABSENT" => config'[v] = G!Absent
      BY <1>1 DEF Configured, Numbered
    <2> QED
      BY <2>2, <2>4, <2>5, <2>6, <2>7 DEF Numbered
  <1>5. Publishing' /\ Counted'
    BY <1>1 DEF Configured, Publishing, Counted, Lives
  <1> QED
    BY <1>4, <1>5 DEF Configured

LEMMA InsertStep ==
  ASSUME Configured, NEW d \in drafting, G!Insert(d)
  PROVE  Configured'
  <1> PICK n \in Nat : G!Rows = 1 .. n /\ \A x \in drafting : x.version \in 1 .. n + 1
    BY DEF Configured, Numbered
  <1> DEFINE row == [state |-> "DRAFT", value |-> d.value, of |-> d.of]
             v == d.version
  <1>1. drafting' = drafting \ {d} /\ UNCHANGED <<publishing, projection, crossed>>
    BY DEF G!Insert
  <1>2. v \in Numbers /\ row \in Version /\ Brought(config, d.of, d.value)
    BY DEF Configured, Numbered, Version
  <1>3. CASE config[v] # G!Absent
    <2>1. config' = config
      BY <1>3 DEF G!Insert
    <2>2. G!Rows' = G!Rows /\ \A o, x : Brought(config', o, x) = Brought(config, o, x)
      BY <2>1 DEF G!Rows, Brought
    <2>3. Numbered'
      BY <1>1, <2>1, <2>2 DEF Configured, Numbered
    <2>4. Publishing' /\ Counted'
      BY <1>1, <2>1 DEF Configured, Publishing, Counted, Lives
    <2> QED
      BY <2>3, <2>4 DEF Configured
  <1>4. CASE config[v] = G!Absent
    <2>1. config' = [config EXCEPT ![v] = row]
      BY <1>4 DEF G!Insert
    <2>2. v \notin G!Rows /\ v = n + 1
      BY <1>2, <1>4 DEF G!Rows, Configured, Numbered
    <2>3. row # G!Absent /\ row.state = "DRAFT" /\ row.value = d.value /\ row.of = d.of
      BY DEF G!Absent
    <2> HIDE DEF row, v
    <2>4. config' \in [Numbers -> Version] /\ config'[v] = row /\ \A x \in Numbers \ {v} : config'[x] = config[x]
      BY <1>2, <2>1 DEF Configured, Numbered
    <2>5. G!Rows' = G!Rows \cup {v}
      BY <1>2, <2>3, <2>4 DEF G!Rows, G!Versions, Numbers
    <2>6. G!Rows' = 1 .. (n + 1)
      BY <2>2, <2>5
    <2>7. \A o, x : Brought(config, o, x) => Brought(config', o, x)
      <3>1. \A o \in Numbers : config[o].state # "ABSENT" => o # v
        BY <1>4 DEF G!Absent
      <3> QED
        BY <2>4, <3>1 DEF Brought
    <2>8. \A x \in G!Rows' : Brought(config', config'[x].of, config'[x].value)
      <3> SUFFICES ASSUME NEW x \in G!Rows' PROVE Brought(config', config'[x].of, config'[x].value)
        OBVIOUS
      <3>1. CASE x = v
        <4>1. Brought(config', row.of, row.value)
          BY <1>2, <2>3, <2>7
        <4> QED
          BY <2>4, <3>1, <4>1 DEF Brought
      <3>2. CASE x # v
        <4>1. x \in G!Rows /\ x \in Numbers
          BY <2>5, <3>2 DEF G!Rows, G!Versions, Numbers
        <4>2. Brought(config', config[x].of, config[x].value)
          BY <2>7, <4>1 DEF Configured, Numbered
        <4> QED
          BY <2>4, <3>2, <4>1, <4>2 DEF Brought
      <3> QED
        BY <3>1, <3>2
    <2>9. \A x \in drafting' : /\ x.version \in 1 .. (n + 1) + 1
                               /\ x.version \in Numbers /\ x.value \in Values \cup {None} /\ x.of \in Numbers \cup {None}
      <3>1. \A x \in drafting : x.version \in 1 .. n + 1
        OBVIOUS
      <3> QED
        BY <1>1, <3>1 DEF Configured, Numbered
    <2>10. \A x \in drafting' : Brought(config', x.of, x.value)
      BY <1>1, <2>7 DEF Configured, Numbered
    <2>11. \A x \in Numbers : config'[x].state = "ABSENT" => config'[x] = G!Absent
      BY <2>3, <2>4 DEF Configured, Numbered
    <2>12. \E k \in Nat : G!Rows' = 1 .. k /\ \A x \in drafting' : x.version \in 1 .. k + 1
      BY <2>6, <2>9
    <2>13. Numbered'
      BY <2>4, <2>8, <2>9, <2>10, <2>11, <2>12 DEF Numbered
    <2>14. config[v].state = "ABSENT"
      BY <1>4 DEF G!Absent, v
    <2>15. \A x \in Numbers : /\ config'[x].state \in Live <=> config[x].state \in Live
                              /\ config'[x].state = "PUBLISHED" <=> config[x].state = "PUBLISHED"
                              /\ config[x].state = "DRAFT" => config'[x].state = "DRAFT"
      BY <2>3, <2>4, <2>14 DEF Live
    <2>16. Publishing'
      BY <1>1, <2>15 DEF Configured, Publishing
    <2>17. Counted'
      <3>1. Lives' = Lives
        BY <2>15 DEF Lives
      <3> QED
        BY <1>1, <2>15, <3>1 DEF Configured, Counted
    <2> QED
      BY <2>13, <2>16, <2>17 DEF Configured
  <1> QED
    BY <1>3, <1>4

LEMMA BeginPublishStep ==
  ASSUME Configured, NEW v \in Numbers, G!publishConfiguration(v)
  PROVE  Configured'
  <1>1. /\ config[v].state = "DRAFT" /\ v \notin DOMAIN publishing
        /\ publishing' = [w \in DOMAIN publishing \cup {v} |-> IF w = v THEN G!Superseded ELSE publishing[w]]
        /\ crossed' = IF DOMAIN publishing = {} THEN crossed ELSE crossed \cup DOMAIN publishing \cup {v}
        /\ UNCHANGED <<config, drafting, projection>>
    BY DEF G!publishConfiguration
  <1>2. G!Superseded = {w \in Numbers : config[w].state = "PUBLISHED"}
    BY DEF G!Superseded, G!Versions, Numbers
  <1>3. Numbered'
    <2>1. G!Rows' = G!Rows /\ \A o, x : Brought(config', o, x) = Brought(config, o, x)
      BY <1>1 DEF G!Rows, Brought
    <2> QED
      BY <1>1, <2>1 DEF Configured, Numbered
  <1>4. DOMAIN publishing' = DOMAIN publishing \cup {v} /\ crossed \subseteq crossed'
    BY <1>1
  <1>5. publishing'[v] = G!Superseded /\ \A w \in DOMAIN publishing : publishing'[w] = publishing[w]
    BY <1>1
  <1>6. \A w \in DOMAIN publishing : {v, w} \subseteq crossed'
    BY <1>1
  <1>7. DOMAIN publishing' \subseteq {w \in Numbers : config'[w].state = "DRAFT"}
    BY <1>1, <1>4 DEF Configured, Publishing
  <1>8. ASSUME NEW w \in DOMAIN publishing'
        PROVE  /\ \A x \in publishing'[w] : x \in Numbers /\ config'[x].state \in Live
               /\ \A x \in Numbers : config'[x].state = "PUBLISHED" => x \in publishing'[w] \/ {w, x} \subseteq crossed'
               /\ \A x \in DOMAIN publishing' : w = x \/ {w, x} \subseteq crossed'
    <2>1. CASE w = v
      BY <1>1, <1>2, <1>4, <1>5, <1>6, <2>1 DEF Live
    <2>2. CASE w # v
      BY <1>1, <1>4, <1>5, <1>6, <2>2 DEF Configured, Publishing
    <2> QED
      BY <2>1, <2>2
  <1>9. Publishing'
    BY <1>1, <1>4, <1>7, <1>8 DEF Configured, Publishing
  <1>10. Counted'
    BY <1>1 DEF Configured, Counted, Lives
  <1> QED
    BY <1>3, <1>9, <1>10 DEF Configured

LEMMA PublishStep ==
  ASSUME Configured, NEW v \in Numbers, G!Publish(v)
  PROVE  Configured'
  <1>1. /\ v \in DOMAIN publishing
        /\ config' = [w \in Numbers |-> IF w = v THEN [config[w] EXCEPT !.state = "PUBLISHED"]
                                        ELSE IF w \in publishing[v] THEN [config[w] EXCEPT !.state = "SUPERSEDED"]
                                        ELSE config[w]]
        /\ publishing' = [w \in DOMAIN publishing \ {v} |-> publishing[w]]
        /\ projection' = projection + 1
        /\ UNCHANGED <<drafting, crossed>>
    BY DEF G!Publish, G!Versions, Numbers
  <1>2. \A w \in Numbers : /\ config[w] \in Version
                           /\ [config[w] EXCEPT !.state = "PUBLISHED"] \in Version
                           /\ [config[w] EXCEPT !.state = "SUPERSEDED"] \in Version
    BY DEF Configured, Numbered, Version, Live
  <1>3. config' \in [Numbers -> Version]
    BY <1>1, <1>2
  <1>4. config[v].state = "DRAFT" /\ v \notin publishing[v]
    BY <1>1 DEF Configured, Publishing, Live
  <1>5. \A w \in Numbers : /\ config'[w].value = config[w].value /\ config'[w].of = config[w].of
                           /\ config'[w].state = IF w = v THEN "PUBLISHED"
                                                 ELSE IF w \in publishing[v] THEN "SUPERSEDED" ELSE config[w].state
    BY <1>1, <1>2 DEF Version
  <1>6. \A w \in Numbers : config'[w].state = "ABSENT" => config'[w] = config[w] /\ config[w].state = "ABSENT"
    BY <1>1, <1>5
  <1>7. \A w \in publishing[v] : w \in Numbers /\ config[w].state \in Live
    BY <1>1 DEF Configured, Publishing
  <1>12. \A w \in Numbers : config[w].state # "ABSENT" <=> config'[w].state # "ABSENT"
    BY <1>4, <1>5, <1>7 DEF Live
  <1>8. G!Rows' = G!Rows
    <2>1. \A w \in Numbers : config'[w] = G!Absent <=> config[w] = G!Absent
      <3>2. \A w \in Numbers : /\ config[w].state = "ABSENT" => config[w] = G!Absent
                               /\ config'[w].state = "ABSENT" => config'[w] = G!Absent
        BY <1>6 DEF Configured, Numbered
      <3>3. G!Absent.state = "ABSENT"
        BY DEF G!Absent
      <3> QED
        BY <1>12, <3>2, <3>3
    <2> QED
      BY <2>1 DEF G!Rows, G!Versions, Numbers
  <1>9. Numbered'
    <2>1. \A o, x : Brought(config', o, x) = Brought(config, o, x)
      BY <1>5, <1>12 DEF Brought
    <2>2. \A x \in G!Rows' : Brought(config', config'[x].of, config'[x].value)
      <3> SUFFICES ASSUME NEW x \in G!Rows' PROVE Brought(config', config'[x].of, config'[x].value)
        OBVIOUS
      <3>1. x \in G!Rows /\ x \in Numbers
        BY <1>8 DEF G!Rows, G!Versions, Numbers
      <3>2. Brought(config', config[x].of, config[x].value)
        BY <2>1, <3>1 DEF Configured, Numbered
      <3> QED
        BY <1>5, <3>1, <3>2
    <2>3. \A x \in drafting' : Brought(config', x.of, x.value)
      BY <1>1, <2>1 DEF Configured, Numbered
    <2>4. \A w \in Numbers : config'[w].state = "ABSENT" => config'[w] = G!Absent
      BY <1>6 DEF Configured, Numbered
    <2>5. \E n \in Nat : G!Rows' = 1 .. n /\ \A d \in drafting' : d.version \in 1 .. n + 1
      BY <1>1, <1>8 DEF Configured, Numbered
    <2>6. \A d \in drafting' : d.version \in Numbers /\ d.value \in Values \cup {None} /\ d.of \in Numbers \cup {None}
      BY <1>1 DEF Configured, Numbered
    <2> QED
      BY <1>3, <2>2, <2>3, <2>4, <2>5, <2>6 DEF Numbered
  <1>10. Publishing'
    <2>1. DOMAIN publishing' = DOMAIN publishing \ {v} /\ \A w \in DOMAIN publishing' : publishing'[w] = publishing[w]
      BY <1>1
    <2>2. \A w \in Numbers : config[w].state \in Live => config'[w].state \in Live
      BY <1>5 DEF Live
    <2>3. \A w \in Numbers : config'[w].state = "PUBLISHED" =>
            w = v \/ (config[w].state = "PUBLISHED" /\ w \notin publishing[v])
      BY <1>5
    <2>4. DOMAIN publishing' \subseteq {w \in Numbers : config'[w].state = "DRAFT"}
      BY <1>5, <1>7, <2>1 DEF Configured, Publishing, Live
    <2>5. ASSUME NEW w \in DOMAIN publishing'
          PROVE  /\ \A x \in publishing'[w] : x \in Numbers /\ config'[x].state \in Live
                 /\ \A x \in Numbers : config'[x].state = "PUBLISHED" => x \in publishing'[w] \/ {w, x} \subseteq crossed'
                 /\ \A x \in DOMAIN publishing' : w = x \/ {w, x} \subseteq crossed'
      BY <1>1, <2>1, <2>2, <2>3 DEF Configured, Publishing
    <2>6. \A x, w \in Numbers : config'[x].state = "PUBLISHED" /\ config'[w].state = "PUBLISHED" =>
            x = w \/ {x, w} \subseteq crossed'
      <3> SUFFICES ASSUME NEW x \in Numbers, NEW w \in Numbers, x # w,
                          config'[x].state = "PUBLISHED", config'[w].state = "PUBLISHED"
                   PROVE  {x, w} \subseteq crossed
        BY <1>1
      <3>1. CASE x = v
        BY <1>1, <2>3, <3>1 DEF Configured, Publishing
      <3>2. CASE w = v
        BY <1>1, <2>3, <3>2 DEF Configured, Publishing
      <3>3. CASE x # v /\ w # v
        BY <2>3, <3>3 DEF Configured, Publishing
      <3> QED
        BY <3>1, <3>2, <3>3
    <2> QED
      BY <2>4, <2>5, <2>6 DEF Publishing
  <1>11. Counted'
    <2>1. Lives' = Lives \cup {v} /\ v \notin Lives
      BY <1>4, <1>5, <1>7 DEF Lives, Live
    <2>2. IsFiniteSet(Lives)
      <3>1. MaxVersion \in Nat
        BY DesksAssumption
      <3>2. IsFiniteSet(1 .. MaxVersion)
        BY <3>1, FS_Interval
      <3> QED
        BY <3>2, FS_Subset DEF Lives, Numbers
    <2>3. Cardinality(Lives') = Cardinality(Lives) + 1
      BY <2>1, <2>2, FS_AddElement
    <2>4. config'[v].state = "PUBLISHED"
      BY <1>5
    <2> QED
      BY <1>1, <2>3, <2>4 DEF Configured, Counted
  <1> QED
    BY <1>9, <1>10, <1>11 DEF Configured

LEMMA ConfiguredStep == Configured /\ [G!Next]_configurations => Configured'
  <1> SUFFICES ASSUME Configured, [G!Next]_configurations PROVE Configured'
    OBVIOUS
  <1>1. CASE \E x \in Values : G!createConfiguration(x)
    <2> PICK x \in Values : G!createConfiguration(x)
      BY <1>1
    <2>1. G!Read(x, None) /\ Brought(config, None, x)
      BY DEF G!createConfiguration, Brought
    <2> QED
      BY <2>1, ReadStep
  <1>2. CASE \E v \in Numbers : G!rollbackConfiguration(v)
    <2> PICK v \in Numbers : G!rollbackConfiguration(v)
      BY <1>2
    <2>1. G!Read(config[v].value, v) /\ config[v].state \in Live
      BY DEF G!rollbackConfiguration, Live
    <2>2. config[v].value \in Values \cup {None}
      BY DEF Configured, Numbered, Version
    <2>3. Brought(config, v, config[v].value)
      BY <2>1 DEF Configured, Brought, Live
    <2> QED
      BY <2>1, <2>2, <2>3, ReadStep
  <1>3. CASE \E v \in Numbers : G!publishConfiguration(v) \/ G!Publish(v)
    BY <1>3, BeginPublishStep, PublishStep
  <1>4. CASE \E d \in drafting : G!Insert(d)
    BY <1>4, InsertStep
  <1>5. CASE UNCHANGED configurations
    <2>1. UNCHANGED <<config, drafting, publishing, projection, crossed>>
      BY <1>5 DEF configurations
    <2>2. G!Rows' = G!Rows /\ \A o, x : Brought(config', o, x) = Brought(config, o, x)
      BY <2>1 DEF G!Rows, Brought
    <2>3. Numbered'
      BY <2>1, <2>2 DEF Configured, Numbered
    <2> QED
      BY <2>1, <2>3 DEF Configured, Publishing, Counted, Lives
  <1> QED
    BY <1>1, <1>2, <1>3, <1>4, <1>5 DEF G!Next, G!Versions, Numbers

LEMMA ConfiguredIsEnough == Configured => G!TypeOK /\ G!ConfigurationHolds
  <1> SUFFICES ASSUME Configured PROVE G!TypeOK /\ G!ConfigurationHolds
    OBVIOUS
  <1>1. \A S : G!Cardinality(S) = Cardinality(S)
    BY DEF G!Cardinality, Cardinality
  <1>2. G!Rows = {v \in Numbers : config[v].state # "ABSENT"}
    BY RowsAre DEF Configured
  <1>3. G!TypeOK
    <2>1. \A v \in Numbers : config[v].state \in {"ABSENT", "DRAFT", "PUBLISHED", "SUPERSEDED"}
      BY DEF Configured, Numbered, Version, Live
    <2>2. G!Rows = 1 .. G!Cardinality(G!Rows)
      BY CardinalityOfRows DEF Configured, Numbered
    <2>3. DOMAIN publishing \subseteq G!Rows
      BY <1>2 DEF Configured, Publishing
    <2> QED
      BY <2>1, <2>2, <2>3 DEF G!TypeOK, G!Versions, Numbers
  <1>4. G!ConfigurationHolds
    <2>1. projection = G!Cardinality({v \in G!Versions : config[v].state \in {"PUBLISHED", "SUPERSEDED"}})
      BY <1>1 DEF Configured, Counted, Lives, Live, G!Versions, Numbers
    <2>2. \A v \in G!Rows : config[v].of # None => config[v].value = config[config[v].of].value
      BY DEF Configured, Numbered, Brought
    <2> QED
      BY <2>1, <2>2 DEF G!ConfigurationHolds, Configured, Counted, Publishing, G!Versions, Numbers
  <1> QED
    BY <1>3, <1>4

-----------------------------------------------------------------------------
(* Together                                                                *)

LEMMA FocusSteps ==
  ASSUME [Next]_vars
  PROVE  /\ focus' = focus
         /\ [R!Next]_receipts /\ [C!Next]_conversation
         /\ [N!Next]_<<outgoing, incoming>> /\ [A!Next]_<<rules, notes, alert, handed, steps>>
         /\ [P!Next]_approvals /\ [D!Next]_<<papers, comments>> /\ [G!Next]_configurations
  <1>1. CASE UNCHANGED vars
    BY <1>1 DEF vars
  <1>2. CASE Next
    BY <1>2 DEF Next, Others
  <1> QED
    BY <1>1, <1>2

\* What the registers show as received is never more than the ledger adds up
\* to, and nobody submits the receipt that he made to be reconciled
\* (reverseReceiptEntry and the receipts of finance).
THEOREM ReceiptsStaySound == Spec => []ReceiptsAreSound
<1>1. Init => Entered /\ Handled
  BY EnteredInit DEF Init
<1>2. Entered /\ Handled /\ [Next]_vars => Entered' /\ Handled'
  BY FocusSteps, EnteredStep, HandledStep
<1>3. Entered /\ Handled => ReceiptsAreSound
  BY ReceivedIsEnough DEF ReceiptsAreSound
<1> QED
  BY <1>1, <1>2, <1>3, PTL DEF Spec

\* A message has one effect, however often it is posted, by however many
\* instances it is worked on, and whichever of them stops on the way: a
\* proposal is decided once, a reply tells of what took effect, and no message
\* that was answered is forgotten (conversation and WhatsApp channel).
THEOREM EffectsStaySingle == Spec => []OneLogicalEffect
<1>1. Init => Talked
  BY TalkedInit DEF Init
<1>2. Talked /\ [Next]_vars => Talked'
  BY FocusSteps, TalkedStep
<1>3. Talked => OneLogicalEffect
  BY TalkedIsEnough DEF OneLogicalEffect
<1> QED
  BY <1>1, <1>2, <1>3, PTL DEF Spec

\* A delivery that was given up is in the list of dead letters, rotating a
\* credential leaves one that is valid, and an alert counts each occurrence
\* once and has told its owner, however the runs of the worker overlap.
THEOREM OversightStaysComplete == Spec => []NothingIsOverlooked
<1>1. Init => Sent /\ Trusted /\ Alerted
  BY SentInit, TrustedInit, AlertedInit DEF Init
<1>2. Sent /\ Trusted /\ Alerted /\ [Next]_vars => Sent' /\ Trusted' /\ Alerted'
  BY FocusSteps, IntegratedStep, AlertedStep
<1>3. Sent /\ Trusted /\ Alerted => NothingIsOverlooked
  BY IntegratedIsEnough, AlertedIsEnough DEF NothingIsOverlooked
<1> QED
  BY <1>1, <1>2, <1>3, PTL DEF Spec

\* An approval went through every step of its policy, each decided by somebody
\* other than who asked; and once a configuration is published there is always
\* one, whatever requests and publications overlap.
THEOREM ChangesStayGoverned == Spec => []ChangesAreGoverned
<1>1. Init => Governed /\ Configured
  BY GovernedInit, ConfiguredInit DEF Init
<1>2. Governed /\ Configured /\ [Next]_vars => Governed' /\ Configured'
  BY FocusSteps, GovernedStep, ConfiguredStep
<1>3. Governed /\ Configured => ChangesAreGoverned
  BY GovernedIsEnough, ConfiguredIsEnough DEF ChangesAreGoverned
<1> QED
  BY <1>1, <1>2, <1>3, PTL DEF Spec

\* A document is verified or not by the verdict on its current version, links
\* open only what was found clean, and a comment is its authors' (documents of
\* a conversation and their scanner).
THEOREM VerdictsStayCurrent == Spec => []VerdictsFollowVersions
<1>1. Init => Shelved /\ Noted
  BY ShelvedInit DEF Init
<1>2. Shelved /\ Noted /\ [Next]_vars => Shelved' /\ Noted'
  BY FocusSteps, ShelvedStep
<1>3. Shelved /\ Noted => VerdictsFollowVersions
  BY ShelvedIsEnough DEF VerdictsFollowVersions
<1> QED
  BY <1>1, <1>2, <1>3, PTL DEF Spec
==============================================================================
