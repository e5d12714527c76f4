---------------------------- MODULE ChannelProof ----------------------------
(***************************************************************************)
(* Proofs about Channel for any number of alerts, replies and instances    *)
(* and any limits.  The heart is an account of leases: every message the   *)
(* provider took, and every one an instance may still hand over, is backed *)
(* by a recorded attempt, a lease that ran out, or the lease now held.     *)
(***************************************************************************)
EXTENDS Channel, FiniteSetTheorems, TLAPS

\* A delivery has a token exactly while it is leased, and only a leased one
\* can have an expired lease.
TokenMeansLease ==
  \A d \in Messages : /\ row[d].token # None <=> row[d].state = "LEASED"
                      /\ d \in late => row[d].state = "LEASED"

\* A delivery still in the queue has attempts left.
AttemptsLeft ==
  \A d \in Messages : row[d].state \notin Settled => row[d].attempts < MaxAttempts

\* What an instance holds in memory: a delivery, a number of attempts below
\* the limit, and an outcome once it records.
Sound(x) ==
  /\ x.step = "idle" => x.message = None
  /\ x.step # "idle" => x.message # None /\ x.tries < MaxAttempts
  /\ x.step = "recording" => /\ x.outcome \in Outcome
                             /\ x.outcome = "RETRY" => x.tries + 1 < MaxAttempts

WorkIsSound == \A w \in Instances : Sound(work[w])

\* An instance that still holds its lease has not missed an attempt.
HolderIsCurrent ==
  \A w \in Instances, d \in Messages :
    work[w].message = d /\ row[d].token = w => work[w].tries = row[d].attempts

\* Instances that may still hand d over to the provider.
Underway(d) ==
  {w \in Instances : work[w].message = d /\ work[w].step \in {"leased", "consented", "sending"}}

Lease(d) == IF row[d].state = "LEASED" THEN 1 ELSE 0

Backed(d) == sends[d] + Cardinality(Underway(d)) <= row[d].attempts + lost[d] + Lease(d)

SendsAreBacked == \A d \in Messages : Backed(d)

\* A notification not yet taken up has no delivery.
UntakenHasNone == \A a \in Alerts : source[a] = "PENDING" => row[a].state = "NONE"

RowInv == TypeOK /\ TokenMeansLease /\ AttemptsLeft /\ WorkIsSound /\ HolderIsCurrent
SourceInv == NotificationFollows /\ UntakenHasNone
IInv == RowInv /\ SourceInv /\ SendsAreBacked

-----------------------------------------------------------------------------
(* The queue: rows, leases and what the instances hold.                    *)

USE DEF Messages, Open, Outcome, Settled, Told, Row, Work, Idle, person, Queue

\* The member's and the alerts' changes leave the queue alone.
Elsewhere ==
  \/ \E a \in Alerts : ChangeAlert(a)
  \/ \E consent \in BOOLEAN : SetConsent(consent)
  \/ Unlink \/ Link \/ ChangeMembership \/ NightFalls \/ NightEnds

\* Steps of the member and of the alerts leave the queue alone and keep types.
LEMMA ElsewhereStep ==
  ASSUME TypeOK, Elsewhere
  PROVE  UNCHANGED Queue /\ TypeOK'
<1>1. UNCHANGED Queue
  BY DEF Elsewhere, ChangeAlert, SetConsent, Unlink, Link, ChangeMembership, NightFalls, NightEnds
<1>2. /\ bound' \in BOOLEAN /\ optedIn' \in BOOLEAN /\ active' \in BOOLEAN /\ quiet' \in BOOLEAN
      /\ current' \subseteq Alerts
  BY Zenon DEF TypeOK, Elsewhere, ChangeAlert, SetConsent, Unlink, Link, ChangeMembership, NightFalls, NightEnds
<1>3. nights' \in 0 .. MaxNights
  BY ConstantsAssumption DEF TypeOK, Elsewhere, ChangeAlert, SetConsent, Unlink, Link, ChangeMembership, NightFalls, NightEnds
<1> QED
  BY <1>1, <1>2, <1>3 DEF TypeOK

\* A new memory w has of its delivery keeps the rest sound.
LEMMA WorkChange ==
  ASSUME TypeOK, WorkIsSound, NEW w \in Instances, NEW x \in Work, Sound(x),
         work' = [work EXCEPT ![w] = x]
  PROVE  work' \in [Instances -> Work] /\ WorkIsSound'
  BY DEF TypeOK, WorkIsSound

\* An instance that drops what it holds keeps its memory sound.
LEMMA GoIdle ==
  ASSUME TypeOK, WorkIsSound, NEW w \in Instances, work' = [work EXCEPT ![w] = Idle]
  PROVE  work' \in [Instances -> Work] /\ WorkIsSound'
<1>1. Idle \in Work /\ Sound(Idle)
  BY ConstantsAssumption DEF Sound
<1> QED
  BY <1>1, WorkChange DEF Idle

\* An instance that goes on to a later check keeps its message and its count.
LEMMA GoToStep ==
  ASSUME TypeOK, WorkIsSound, NEW w \in Instances, NEW step \in {"consented", "sending"},
         work[w].step \in {"leased", "consented"}, GoTo(w, step)
  PROVE  /\ work' \in [Instances -> Work] /\ WorkIsSound'
         /\ \A v \in Instances : /\ work'[v].message = work[v].message
                                 /\ work'[v].tries = work[v].tries
<1> DEFINE x == [work[w] EXCEPT !.step = step]
<1>1. x \in Work /\ Sound(x)
  BY DEF TypeOK, WorkIsSound, Sound
<1>2. work' = [work EXCEPT ![w] = x]
  BY DEF GoTo, TypeOK
<1>3. \A v \in Instances : work'[v] = IF v = w THEN x ELSE work[v]
  BY <1>2 DEF TypeOK
<1>4. x.message = work[w].message /\ x.tries = work[w].tries
  BY DEF TypeOK
<1> HIDE DEF x
<1> QED
  BY <1>1, <1>2, <1>3, <1>4, WorkChange

\* So does one that turns to recording an outcome it may record.
LEMMA GoRecordStep ==
  ASSUME TypeOK, WorkIsSound, NEW w \in Instances, NEW o \in Outcome,
         work[w].step # "idle",
         o = "RETRY" => work[w].tries + 1 < MaxAttempts, GoRecord(w, o)
  PROVE  /\ work' \in [Instances -> Work] /\ WorkIsSound'
         /\ \A v \in Instances : /\ work'[v].message = work[v].message
                                 /\ work'[v].tries = work[v].tries
<1> DEFINE x == [work[w] EXCEPT !.step = "recording", !.outcome = o]
<1>1. /\ x \in Work
      /\ x.step = "recording" /\ x.outcome = o
      /\ x.message = work[w].message /\ x.tries = work[w].tries
  BY DEF TypeOK
<1>2. work' = [work EXCEPT ![w] = x]
  BY DEF GoRecord, TypeOK
<1>3. \A v \in Instances : work'[v] = IF v = w THEN x ELSE work[v]
  BY <1>2 DEF TypeOK
<1> HIDE DEF x
<1>4. Sound(x)
  BY <1>1 DEF WorkIsSound, Sound
<1> QED
  BY <1>1, <1>2, <1>3, <1>4, WorkChange

\* After a failed send it records RETRY only while attempts are left.
LEMMA FailureStep ==
  ASSUME TypeOK, WorkIsSound, NEW w \in Instances, work[w].step \in {"sending", "recording"},
         GoRecord(w, AfterFailure(work[w].tries))
  PROVE  /\ work' \in [Instances -> Work] /\ WorkIsSound'
         /\ \A v \in Instances : /\ work'[v].message = work[v].message
                                 /\ work'[v].tries = work[v].tries
<1>1. work[w].tries \in 0 .. MaxAttempts /\ work[w].tries < MaxAttempts
  BY DEF TypeOK, WorkIsSound, Sound
<1>2. /\ AfterFailure(work[w].tries) \in Outcome
      /\ AfterFailure(work[w].tries) = "RETRY" => work[w].tries + 1 < MaxAttempts
  BY <1>1, ConstantsAssumption DEF AfterFailure
<1> QED
  BY <1>2, GoRecordStep

\* What every action keeps about rows, leases and the instances' memory.
LEMMA RowStep ==
  ASSUME RowInv, Next
  PROVE  RowInv'
<1> USE ConstantsAssumption
<1>1. ASSUME NEW a \in Alerts, EnqueueAlert(a) PROVE RowInv'
  <2>1. \A d \in Messages : /\ row'[d].attempts = row[d].attempts /\ row'[d].token = row[d].token
                              /\ \/ row'[d].state = row[d].state
                                 \/ row[d].state = "NONE" /\ row'[d].state = "PENDING"
    BY <1>1 DEF RowInv, TypeOK, EnqueueAlert
  <2>2. row' \in [Messages -> Row]
    <3> DEFINE s == IF row[a].state = "NONE" THEN "PENDING" ELSE row[a].state
    <3>1. s \in {"NONE"} \cup Open \cup Settled
      BY DEF RowInv, TypeOK
    <3>2. CASE row' = row
      BY <3>2 DEF RowInv, TypeOK
    <3>3. CASE row' = [row EXCEPT ![a].state = s]
      <4> HIDE DEF s
      <4>1. row[a] \in Row
        BY DEF RowInv, TypeOK
      <4>2. [row[a] EXCEPT !.state = s] \in Row
        BY <3>1, <4>1
      <4>3. row' = [row EXCEPT ![a] = [row[a] EXCEPT !.state = s]]
        BY <3>3
      <4> QED
        BY <4>2, <4>3 DEF RowInv, TypeOK
    <3> QED
      BY <1>1, <3>2, <3>3 DEF EnqueueAlert
  <2>3. source' \in [Alerts -> {"PENDING", "LEASED", "FAILED"} \cup Told]
    BY <1>1 DEF RowInv, TypeOK, EnqueueAlert, SourceOf
  <2>4. TypeOK'
    BY <1>1, <2>2, <2>3 DEF RowInv, TypeOK, EnqueueAlert
  <2>5. TokenMeansLease' /\ AttemptsLeft'
    BY <1>1, <2>1 DEF RowInv, TokenMeansLease, AttemptsLeft, EnqueueAlert
  <2>6. WorkIsSound' /\ HolderIsCurrent'
    BY <1>1, <2>1 DEF RowInv, WorkIsSound, Sound, HolderIsCurrent, EnqueueAlert
  <2> QED
    BY <2>4, <2>5, <2>6 DEF RowInv
<1>2. ASSUME NEW r \in Replies, QueueReply(r) PROVE RowInv'
  <2>1. TypeOK'
    BY <1>2 DEF RowInv, TypeOK, WorkIsSound, QueueReply
  <2>2. TokenMeansLease' /\ AttemptsLeft'
    BY <1>2 DEF RowInv, TypeOK, TokenMeansLease, AttemptsLeft, QueueReply
  <2>3. WorkIsSound' /\ HolderIsCurrent'
    BY <1>2 DEF RowInv, TypeOK, WorkIsSound, Sound, HolderIsCurrent, QueueReply
  <2> QED
    BY <2>1, <2>2, <2>3 DEF RowInv
<1>3. ASSUME NEW w \in Instances, NEW d \in Messages, LeaseOne(w, d) PROVE RowInv'
  <2> DEFINE x == [step |-> "leased", message |-> d, tries |-> row[d].attempts, outcome |-> None]
  <2>1. d \in Messages /\ row[d].attempts < MaxAttempts /\ row[d].attempts \in 0 .. MaxAttempts
    BY <1>3 DEF RowInv, TypeOK, TokenMeansLease, AttemptsLeft, LeaseOne, Reaped
  <2>2. x \in Work /\ Sound(x)
    BY <2>1 DEF Sound
  <2>3. work' \in [Instances -> Work] /\ WorkIsSound'
    BY <1>3, <2>2, WorkChange DEF RowInv, LeaseOne
  <2>4. \A e \in Messages :
          /\ row'[e].attempts = row[e].attempts
          /\ row'[e].state = IF e = d THEN "LEASED" ELSE IF e \in late THEN "RETRY" ELSE row[e].state
          /\ row'[e].token = IF e = d THEN w ELSE IF e \in late THEN None ELSE row[e].token
    BY <1>3 DEF RowInv, TypeOK, LeaseOne, Reaped
  <2>5. row' \in [Messages -> Row]
    BY <1>3 DEF RowInv, TypeOK, LeaseOne, Reaped
  <2>6. TypeOK'
    BY <1>3, <2>3, <2>5 DEF RowInv, TypeOK, LeaseOne
  <2>7. TokenMeansLease' /\ AttemptsLeft'
    <3>1. late' = {}
      BY <1>3 DEF LeaseOne
    <3>2. \A e \in late : row[e].state = "LEASED"
      BY DEF RowInv, TypeOK, TokenMeansLease
    <3>3. TokenMeansLease'
      BY <2>4, <3>1 DEF RowInv, TokenMeansLease
    <3>4. AttemptsLeft'
      BY <2>1, <2>4, <3>2 DEF RowInv, AttemptsLeft
    <3> QED
      BY <3>3, <3>4
  <2>8. HolderIsCurrent'
    <3> SUFFICES ASSUME NEW v \in Instances, NEW e \in Messages,
                        work'[v].message = e, row'[e].token = v
                 PROVE  work'[v].tries = row'[e].attempts
      BY DEF HolderIsCurrent
    <3>1. work' = [work EXCEPT ![w] = x]
      BY <1>3 DEF LeaseOne
    <3>2. work'[v] = IF v = w THEN x ELSE work[v]
      BY <3>1 DEF RowInv, TypeOK
    <3>3. CASE e = d
      BY <2>4, <3>2, <3>3 DEF RowInv
    <3>4. CASE e # d /\ e \in late
      BY <2>4, <3>4
    <3>5. CASE e # d /\ e \notin late
      BY <2>4, <3>2, <3>5 DEF RowInv, HolderIsCurrent
    <3> QED
      BY <3>3, <3>4, <3>5
  <2> QED
    BY <2>3, <2>6, <2>7, <2>8 DEF RowInv
<1>4. ASSUME NEW w \in Instances, CheckMember(w) PROVE RowInv'
  <2>1. /\ work' \in [Instances -> Work] /\ WorkIsSound'
        /\ \A v \in Instances : /\ work'[v].message = work[v].message
                                /\ work'[v].tries = work[v].tries
    <3>1. CASE GoRecord(w, "SUPPRESSED")
      BY <1>4, <3>1, GoRecordStep DEF RowInv, CheckMember
    <3>2. ASSUME NEW step \in {"consented", "sending"}, GoTo(w, step) PROVE /\ work' \in [Instances -> Work] /\ WorkIsSound'
              /\ \A v \in Instances : /\ work'[v].message = work[v].message
                                      /\ work'[v].tries = work[v].tries
      BY <1>4, <3>2, GoToStep DEF RowInv, CheckMember
    <3> QED
      BY <1>4, <3>1, <3>2 DEF CheckMember
  <2>2. TypeOK'
    BY <1>4, <2>1 DEF RowInv, TypeOK, CheckMember
  <2>3. TokenMeansLease' /\ AttemptsLeft' /\ HolderIsCurrent'
    BY <1>4, <2>1 DEF RowInv, TokenMeansLease, AttemptsLeft, HolderIsCurrent, CheckMember
  <2> QED
    BY <2>1, <2>2, <2>3 DEF RowInv
<1>5. ASSUME NEW w \in Instances, CheckAlert(w) PROVE RowInv'
  <2>1. /\ work' \in [Instances -> Work] /\ WorkIsSound'
        /\ \A v \in Instances : /\ work'[v].message = work[v].message
                                /\ work'[v].tries = work[v].tries
    <3>1. CASE GoRecord(w, "SUPPRESSED")
      BY <1>5, <3>1, GoRecordStep DEF RowInv, CheckAlert
    <3>2. CASE GoTo(w, "sending")
      BY <1>5, <3>2, GoToStep DEF RowInv, CheckAlert
    <3> QED
      BY <1>5, <3>1, <3>2 DEF CheckAlert
  <2>2. TypeOK'
    BY <1>5, <2>1 DEF RowInv, TypeOK, CheckAlert
  <2>3. TokenMeansLease' /\ AttemptsLeft' /\ HolderIsCurrent'
    BY <1>5, <2>1 DEF RowInv, TokenMeansLease, AttemptsLeft, HolderIsCurrent, CheckAlert
  <2> QED
    BY <2>1, <2>2, <2>3 DEF RowInv
<1>6. ASSUME NEW w \in Instances, Defer(w) PROVE RowInv'
  <2>1. work' \in [Instances -> Work] /\ WorkIsSound'
    BY <1>6, GoIdle DEF RowInv, Defer
  <2>2. TypeOK'
    <3>1. row' \in [Messages -> Row] /\ late' \subseteq Messages
      BY SMTT(30), <1>6 DEF RowInv, TypeOK, Defer
    <3> QED
      BY <1>6, <2>1, <3>1 DEF RowInv, TypeOK, Defer
  <2>3. \A e \in Messages :
          /\ row'[e].attempts = row[e].attempts
          /\ \/ row'[e].state = row[e].state /\ row'[e].token = row[e].token
             \/ /\ row'[e].state = "RETRY" /\ row'[e].token = None
                /\ row[e].token = w /\ e \notin late'
          /\ e \in late' => e \in late
    BY <1>6 DEF RowInv, TypeOK, HoldsLease, Defer
  <2>4. TokenMeansLease'
    BY <2>3 DEF RowInv, TokenMeansLease
  <2>5. AttemptsLeft'
    BY <2>3 DEF RowInv, TokenMeansLease, AttemptsLeft
  <2>6. HolderIsCurrent'
    <3>1. \A v \in Instances : work'[v] = IF v = w THEN Idle ELSE work[v]
      BY <1>6 DEF RowInv, TypeOK, Defer
    <3> QED
      BY <2>3, <3>1 DEF RowInv, HolderIsCurrent
  <2> QED
    BY <2>1, <2>2, <2>4, <2>5, <2>6 DEF RowInv
<1>7. ASSUME NEW w \in Instances, Send(w) PROVE RowInv'
  <2>1. /\ work' \in [Instances -> Work] /\ WorkIsSound'
        /\ \A v \in Instances : /\ work'[v].message = work[v].message
                                /\ work'[v].tries = work[v].tries
    <3>1. CASE GoRecord(w, "DELIVERED")
      BY <1>7, <3>1, GoRecordStep DEF RowInv, Send
    <3>2. CASE GoRecord(w, AfterFailure(work[w].tries))
      BY <1>7, <3>2, FailureStep DEF RowInv, Send
    <3> QED
      BY <1>7, <3>1, <3>2 DEF Send
  <2>4. sends' \in [Messages -> Nat]
    BY <1>7 DEF RowInv, TypeOK, Send
  <2>2. TypeOK'
    BY <1>7, <2>1, <2>4 DEF RowInv, TypeOK, Send
  <2>3. TokenMeansLease' /\ AttemptsLeft' /\ HolderIsCurrent'
    BY <1>7, <2>1 DEF RowInv, TokenMeansLease, AttemptsLeft, HolderIsCurrent, Send
  <2> QED
    BY <2>1, <2>2, <2>3 DEF RowInv
<1>8. ASSUME NEW w \in Instances, Complete(w) PROVE RowInv'
  <2>1. work' \in [Instances -> Work] /\ WorkIsSound'
    BY <1>8, GoIdle DEF RowInv, Complete
  <2> DEFINE m == work[w].message
              o == work[w].outcome
  <2>2. /\ m \in Messages /\ o \in Outcome /\ work[w].tries \in 0 .. MaxAttempts
        /\ work[w].tries < MaxAttempts
        /\ o = "RETRY" => work[w].tries + 1 < MaxAttempts
    BY <1>8 DEF RowInv, TypeOK, WorkIsSound, Sound, Complete
  <2>3. ASSUME HoldsLease(w) PROVE TypeOK' /\ TokenMeansLease' /\ AttemptsLeft'
    <3>1. /\ row' = [row EXCEPT ![m] = [state |-> o, attempts |-> work[w].tries + 1, token |-> None]]
          /\ late' = late \ {m}
          /\ source' = IF m \in Alerts THEN [source EXCEPT ![m] = Reported(o)] ELSE source
      BY <1>8, <2>3 DEF Complete
    <3>2. source' \in [Alerts -> {"PENDING", "LEASED", "FAILED"} \cup Told]
      BY <3>1 DEF RowInv, TypeOK, Reported
    <3>3. row' \in [Messages -> Row]
      BY <3>1, <2>2 DEF RowInv, TypeOK
    <3>4. TypeOK'
      BY <1>8, <2>1, <3>1, <3>2, <3>3 DEF RowInv, TypeOK, Complete
    <3>5. TokenMeansLease'
      BY <2>2, <3>1 DEF RowInv, TypeOK, TokenMeansLease
    <3>6. AttemptsLeft'
      BY <2>2, <3>1 DEF RowInv, TypeOK, AttemptsLeft
    <3> QED
      BY <3>4, <3>5, <3>6
  <2>4. ASSUME ~HoldsLease(w) PROVE TypeOK' /\ TokenMeansLease' /\ AttemptsLeft'
    BY <1>8, <2>1, <2>4 DEF RowInv, TypeOK, TokenMeansLease, AttemptsLeft, Complete
  <2>5. HolderIsCurrent'
    BY <1>8, <2>2 DEF RowInv, TypeOK, HolderIsCurrent, Complete
  <2> QED
    BY <2>1, <2>3, <2>4, <2>5 DEF RowInv
<1>9. ASSUME NEW w \in Instances, RecordAborts(w) PROVE RowInv'
  <2>1. CASE work[w].outcome = "DELIVERED"
    <3>1. /\ work' \in [Instances -> Work] /\ WorkIsSound'
        /\ \A v \in Instances : /\ work'[v].message = work[v].message
                                /\ work'[v].tries = work[v].tries
      BY <1>9, <2>1, FailureStep DEF RowInv, RecordAborts
    <3>2. TypeOK'
      BY <1>9, <3>1 DEF RowInv, TypeOK, RecordAborts, Fault
    <3>3. TokenMeansLease' /\ AttemptsLeft' /\ HolderIsCurrent'
      BY <1>9, <3>1 DEF RowInv, TokenMeansLease, AttemptsLeft, HolderIsCurrent, RecordAborts
    <3> QED
      BY <3>1, <3>2, <3>3 DEF RowInv
  <2>2. CASE work[w].outcome # "DELIVERED"
    <3>1. work' \in [Instances -> Work] /\ WorkIsSound'
      BY <1>9, <2>2, GoIdle DEF RowInv, RecordAborts
    <3>2. TypeOK'
      BY <1>9, <3>1 DEF RowInv, TypeOK, RecordAborts, Fault
    <3>3. TokenMeansLease' /\ AttemptsLeft' /\ HolderIsCurrent'
      BY <1>9, <2>2 DEF RowInv, TypeOK, TokenMeansLease, AttemptsLeft, HolderIsCurrent, RecordAborts
    <3> QED
      BY <3>1, <3>2, <3>3 DEF RowInv
  <2> QED
    BY <2>1, <2>2
<1>10. ASSUME NEW w \in Instances, Crash(w) PROVE RowInv'
  <2>1. work' \in [Instances -> Work] /\ WorkIsSound'
    BY <1>10, GoIdle DEF RowInv, Crash
  <2>2. TypeOK'
    BY <1>10, <2>1 DEF RowInv, TypeOK, Crash, Fault
  <2>3. TokenMeansLease' /\ AttemptsLeft' /\ HolderIsCurrent'
    BY <1>10 DEF RowInv, TypeOK, TokenMeansLease, AttemptsLeft, HolderIsCurrent, Crash
  <2> QED
    BY <2>1, <2>2, <2>3 DEF RowInv
<1>11. ASSUME NEW d \in Messages, Expire(d) PROVE RowInv'
  <2>1. TypeOK'
    BY <1>11 DEF RowInv, TypeOK, WorkIsSound, Expire, Fault
  <2>2. TokenMeansLease' /\ AttemptsLeft'
    BY <1>11 DEF RowInv, TypeOK, TokenMeansLease, AttemptsLeft, Expire, Fault
  <2>3. WorkIsSound' /\ HolderIsCurrent'
    BY <1>11 DEF RowInv, TypeOK, WorkIsSound, Sound, HolderIsCurrent, Expire, Fault
  <2> QED
    BY <2>1, <2>2, <2>3 DEF RowInv
<1>12. CASE Elsewhere
  BY <1>12, ElsewhereStep DEF RowInv, TypeOK, TokenMeansLease, AttemptsLeft, WorkIsSound, Sound, HolderIsCurrent
<1> QED
  BY <1>1, <1>2, <1>3, <1>4, <1>5, <1>6, <1>7, <1>8, <1>9, <1>10, <1>11, <1>12 DEF Next, Elsewhere

-----------------------------------------------------------------------------
(* Notifications and their deliveries.                                     *)

\* Every step keeps notifications in accord with their deliveries.
LEMMA SourceStep ==
  ASSUME RowInv, SourceInv, Next
  PROVE  SourceInv'
<1> USE ConstantsAssumption
<1>1. ASSUME NEW a \in Alerts, EnqueueAlert(a) PROVE SourceInv'
  BY <1>1 DEF RowInv, TypeOK, SourceInv, NotificationFollows, UntakenHasNone, EnqueueAlert, SourceOf
<1>2. ASSUME NEW r \in Replies, QueueReply(r) PROVE SourceInv'
  BY <1>2 DEF RowInv, TypeOK, SourceInv, NotificationFollows, UntakenHasNone, QueueReply
<1>3. ASSUME NEW w \in Instances, NEW d \in Messages, LeaseOne(w, d) PROVE SourceInv'
  <2>1. \A e \in Messages :
          row'[e].state = IF e = d THEN "LEASED" ELSE IF e \in late THEN "RETRY" ELSE row[e].state
    BY <1>3 DEF RowInv, TypeOK, LeaseOne, Reaped
  <2>2. /\ \A e \in late : row[e].state = "LEASED"
        /\ row[d].state \in {"PENDING", "RETRY", "LEASED"}
        /\ source' = source
    BY <1>3 DEF RowInv, TypeOK, TokenMeansLease, LeaseOne, Reaped
  <2> QED
    BY <2>1, <2>2 DEF SourceInv, NotificationFollows, UntakenHasNone
<1>4. ASSUME NEW w \in Instances, Defer(w) PROVE SourceInv'
  <2>1. \A e \in Messages :
          \/ row'[e].state = row[e].state
          \/ row'[e].state = "RETRY" /\ row[e].state = "LEASED"
    BY <1>4 DEF RowInv, TypeOK, TokenMeansLease, HoldsLease, Defer
  <2> QED
    BY <1>4, <2>1 DEF SourceInv, NotificationFollows, UntakenHasNone, Defer
<1>5. ASSUME NEW w \in Instances, Complete(w) PROVE SourceInv'
  <2> DEFINE m == work[w].message
             o == work[w].outcome
  <2>1. m \in Messages /\ o \in Outcome
    BY <1>5 DEF RowInv, TypeOK, WorkIsSound, Sound, Complete
  <2>2. CASE HoldsLease(w)
    <3>1. \A e \in Messages : row'[e].state = IF e = m THEN o ELSE row[e].state
      BY <1>5, <2>2, <2>1 DEF RowInv, TypeOK, Complete
    <3>2. \A a \in Alerts : source'[a] = IF a = m THEN Reported(o) ELSE source[a]
      BY <1>5, <2>2, <2>1 DEF RowInv, TypeOK, Complete
    <3> HIDE DEF m, o
    <3> QED
      BY <2>1, <3>1, <3>2 DEF SourceInv, NotificationFollows, UntakenHasNone, Reported
  <2>3. CASE ~HoldsLease(w)
    BY <1>5, <2>3 DEF SourceInv, NotificationFollows, UntakenHasNone, Complete
  <2> QED
    BY <2>2, <2>3
<1>6. CASE UNCHANGED <<row, source>>
  BY <1>6 DEF SourceInv, NotificationFollows, UntakenHasNone
<1>7. ASSUME NEW w \in Instances,
             CheckMember(w) \/ CheckAlert(w) \/ Send(w) \/ RecordAborts(w) \/ Crash(w)
      PROVE  UNCHANGED <<row, source>>
  BY <1>7 DEF CheckMember, CheckAlert, Send, RecordAborts, Crash
<1>8. ASSUME NEW d \in Messages, Expire(d) PROVE UNCHANGED <<row, source>>
  BY <1>8 DEF Expire
<1>9. CASE Elsewhere
  BY <1>6, <1>9, ElsewhereStep DEF RowInv
<1> QED
  BY <1>1, <1>2, <1>3, <1>4, <1>5, <1>6, <1>7, <1>8, <1>9 DEF Next, Elsewhere

-----------------------------------------------------------------------------
(* The account of leases.                                                  *)

\* The instances that may still send a delivery can be counted ...
LEMMA UnderwayFinite ==
  ASSUME NEW d
  PROVE  IsFiniteSet(Underway(d)) /\ Cardinality(Underway(d)) \in Nat
<1>1. Underway(d) \subseteq Instances
  BY DEF Underway
<1> QED
  BY <1>1, ConstantsAssumption, FS_Subset, FS_CardinalityType

\* ... and so can those after a step.
LEMMA UnderwayFinitePrime ==
  ASSUME NEW d
  PROVE  IsFiniteSet(Underway(d)') /\ Cardinality(Underway(d)') \in Nat
<1>1. Underway(d)' \subseteq Instances
  BY DEF Underway
<1> QED
  BY <1>1, ConstantsAssumption, FS_Subset, FS_CardinalityType

\* The terms of a delivery's account are natural numbers.
LEMMA Counts ==
  ASSUME TypeOK, NEW d \in Messages
  PROVE  /\ sends[d] \in Nat /\ lost[d] \in Nat /\ row[d].attempts \in Nat
         /\ Lease(d) \in {0, 1}
  BY DEF TypeOK, Lease

\* What one step adds to a delivery's sends and to the leases that back them.
LEMMA BackedBalance ==
  ASSUME TypeOK, TypeOK', NEW d \in Messages, Backed(d),
         NEW more \in {0, 1}, NEW fewer \in {0, 1},
         Underway(d)' \subseteq Underway(d),
         fewer = 1 => Underway(d)' # Underway(d),
         sends'[d] <= sends[d] + more, more <= fewer,
         row[d].attempts + lost[d] + Lease(d) <= row'[d].attempts + lost'[d] + Lease(d)' + fewer - more
  PROVE  Backed(d)'
<1>1. Cardinality(Underway(d)') <= Cardinality(Underway(d)) - fewer
  BY UnderwayFinite, UnderwayFinitePrime, FS_Subset
<1>2. /\ sends'[d] \in Nat /\ lost'[d] \in Nat /\ row'[d].attempts \in Nat
      /\ Lease(d)' \in {0, 1}
  BY DEF TypeOK, Lease
<1> QED
  BY <1>1, <1>2, Counts, UnderwayFinite, UnderwayFinitePrime DEF Backed

\* Every step keeps the account of messages: a lease covers the one instance that
\* may send under it, and a lease lost or an attempt recorded is added as it ends.
LEMMA BackedStep ==
  ASSUME RowInv, SendsAreBacked, Next
  PROVE  SendsAreBacked'
<1> USE ConstantsAssumption
<1>0. RowInv'
  BY RowStep
<1>1. SUFFICES ASSUME NEW d \in Messages PROVE Backed(d)'
  BY DEF SendsAreBacked
<1>2. Backed(d) /\ TypeOK /\ TypeOK'
  BY <1>0 DEF SendsAreBacked, RowInv
<1>3. ASSUME NEW w \in Instances, NEW e \in Messages, LeaseOne(w, e) PROVE Backed(d)'
  <2>1. /\ row'[d].attempts = row[d].attempts
        /\ row'[d].state = IF d = e THEN "LEASED" ELSE IF d \in late THEN "RETRY" ELSE row[d].state
        /\ sends' = sends
        /\ lost'[d] = IF d \in late THEN lost[d] + 1 ELSE lost[d]
    BY <1>3 DEF RowInv, TypeOK, LeaseOne, Reaped
  <2>2. /\ d \in late => row[d].state = "LEASED"
        /\ d = e /\ d \notin late => row[d].state # "LEASED"
    BY <1>3 DEF RowInv, TypeOK, TokenMeansLease, LeaseOne, Reaped
  <2>3. d # e => lost'[d] + Lease(d)' = lost[d] + Lease(d)
    BY <2>1, <2>2, <1>2, Counts DEF Lease
  <2>4. d = e => lost'[d] + Lease(d)' = lost[d] + Lease(d) + 1
    BY <2>1, <2>2, <1>2, Counts DEF Lease
  <2>5. /\ d = e => Underway(d)' = Underway(d) \cup {w}
        /\ d # e => Underway(d)' \subseteq Underway(d)
    BY <1>3 DEF RowInv, TypeOK, LeaseOne, Underway
  <2>6. /\ d = e => Cardinality(Underway(d)') <= Cardinality(Underway(d)) + 1
        /\ d # e => Cardinality(Underway(d)') <= Cardinality(Underway(d))
    BY <2>5, UnderwayFinite, FS_AddElement, FS_Subset
  <2>7. lost'[d] \in Nat /\ Lease(d)' \in {0, 1}
    BY <1>2 DEF TypeOK, Lease
  <2> QED
    BY <1>2, <2>1, <2>3, <2>4, <2>6, <2>7, Counts, UnderwayFinite, UnderwayFinitePrime DEF Backed
<1>4. ASSUME NEW w \in Instances, Send(w) PROVE Backed(d)'
  <2> DEFINE m == work[w].message
  <2>1. /\ m \in Messages
        /\ Underway(d)' \subseteq Underway(d)
        /\ d = m => w \in Underway(d) /\ w \notin Underway(d)'
    <3>1. m \in Messages /\ (d = m => w \in Underway(d))
      BY <1>4 DEF RowInv, TypeOK, WorkIsSound, Sound, Send, Underway
    <3>2. PICK o \in Outcome : GoRecord(w, o)
      BY <1>4 DEF Send, AfterFailure
    <3>3. /\ work'[w].step = "recording"
          /\ \A v \in Instances : v # w => work'[v] = work[v]
      BY <3>2 DEF RowInv, TypeOK, GoRecord
    <3> QED
      BY <3>1, <3>3 DEF Underway
  <2>2. /\ row' = row /\ lost' = lost
        /\ sends'[d] <= sends[d] + (IF d = m THEN 1 ELSE 0)
    BY <1>4, <2>1 DEF RowInv, TypeOK, Send
  <2>3. Lease(d)' = Lease(d)
    BY <2>2 DEF Lease
  <2>4. CASE d = m
    <3>1. Underway(d)' # Underway(d) /\ sends'[d] <= sends[d] + 1
      BY <2>1, <2>2, <2>4
    <3>2. row[d].attempts + lost[d] + Lease(d)
            <= row'[d].attempts + lost'[d] + Lease(d)' + 1 - 1
      BY <1>2, <2>2, <2>3, Counts
    <3> HIDE DEF m
    <3> QED
      BY <1>2, <2>1, <3>1, <3>2, BackedBalance
  <2>5. CASE d # m
    BY <1>2, <2>1, <2>2, <2>3, <2>5, Counts, BackedBalance
  <2> QED
    BY <2>4, <2>5
<1>5. ASSUME NEW w \in Instances, Defer(w) PROVE Backed(d)'
  <2> DEFINE m == work[w].message
  <2>1. /\ m \in Messages
        /\ Underway(d)' \subseteq Underway(d)
        /\ d = m => w \in Underway(d) /\ w \notin Underway(d)'
    BY <1>5 DEF RowInv, TypeOK, WorkIsSound, Sound, Defer, Underway
  <2>2. /\ row'[d].attempts = row[d].attempts /\ lost' = lost /\ sends' = sends
        /\ d # m => row'[d] = row[d]
    BY <1>5, <2>1 DEF RowInv, TypeOK, Defer
  <2>3. (d # m => Lease(d)' = Lease(d)) /\ Lease(d) \in {0, 1} /\ Lease(d)' \in {0, 1}
    BY <2>2 DEF Lease
  <2>4. CASE d = m
    <3>1. Underway(d)' # Underway(d) /\ sends'[d] <= sends[d] + 0
      BY <1>2, <2>1, <2>2, <2>4, Counts
    <3>2. row[d].attempts + lost[d] + Lease(d)
            <= row'[d].attempts + lost'[d] + Lease(d)' + 1 - 0
      BY <1>2, <2>2, <2>3, Counts
    <3> HIDE DEF m
    <3> QED
      BY <1>2, <2>1, <3>1, <3>2, BackedBalance
  <2>5. CASE d # m
    BY <1>2, <2>1, <2>2, <2>3, <2>5, Counts, BackedBalance
  <2> QED
    BY <2>4, <2>5
<1>6. ASSUME NEW w \in Instances, Complete(w) PROVE Backed(d)'
  <2> DEFINE m == work[w].message
  <2>1. m \in Messages /\ Underway(d)' \subseteq Underway(d)
    BY <1>6 DEF RowInv, TypeOK, WorkIsSound, Sound, Complete, Underway
  <2>2. lost' = lost /\ sends' = sends
    BY <1>6 DEF Complete
  <2>3. \/ row'[d].attempts = row[d].attempts /\ row'[d].state = row[d].state
        \/ row'[d].attempts = row[d].attempts + 1
    BY <1>6, <2>1 DEF RowInv, TypeOK, HolderIsCurrent, HoldsLease, Complete
  <2>4. row[d].attempts + Lease(d) <= row'[d].attempts + Lease(d)'
    BY <2>3, <1>2, Counts DEF Lease
  <2>5. Lease(d)' \in {0, 1} /\ row'[d].attempts \in Nat
    BY <1>2 DEF Lease, TypeOK
  <2> QED
    BY <1>2, <2>1, <2>2, <2>4, <2>5, Counts, BackedBalance
<1>7. ASSUME Underway(d)' \subseteq Underway(d), UNCHANGED <<sends, lost>>,
             row'[d].attempts = row[d].attempts, Lease(d)' = Lease(d)
      PROVE  Backed(d)'
  BY <1>2, <1>7, Counts, BackedBalance
<1>8. ASSUME NEW w \in Instances, CheckMember(w) \/ CheckAlert(w) \/ RecordAborts(w) \/ Crash(w)
      PROVE  Backed(d)'
  <2>1. UNCHANGED <<row, sends, lost>>
    BY <1>8 DEF CheckMember, CheckAlert, RecordAborts, Crash
  <2>2. \A v \in Instances : \/ work'[v] = work[v]
                              \/ /\ work'[v].message = work[v].message
                                 /\ work[v].step \in {"leased", "consented"}
                              \/ work'[v].step \in {"idle", "recording"}
    <3>1. CASE CheckMember(w)
      BY <1>2, <1>8, <3>1 DEF TypeOK, CheckMember, GoTo, GoRecord
    <3>2. CASE CheckAlert(w)
      BY <1>2, <1>8, <3>2 DEF TypeOK, CheckAlert, GoTo, GoRecord
    <3>3. CASE RecordAborts(w) \/ Crash(w)
      BY <1>2, <1>8, <3>3 DEF TypeOK, RecordAborts, Crash, GoRecord
    <3> QED
      BY <1>8, <3>1, <3>2, <3>3
  <2>3. Underway(d)' \subseteq Underway(d)
    BY <2>2 DEF Underway
  <2> QED
    BY <1>7, <2>1, <2>3 DEF Lease
<1>9. CASE UNCHANGED <<row, work, sends, lost>>
  BY <1>7, <1>9 DEF Lease, Underway
<1>10. ASSUME NEW a \in Alerts, EnqueueAlert(a) PROVE Backed(d)'
  <2>1. /\ UNCHANGED <<work, sends, lost>>
        /\ row'[d].attempts = row[d].attempts
        /\ row'[d].state = "LEASED" <=> row[d].state = "LEASED"
    BY <1>10 DEF RowInv, TypeOK, EnqueueAlert
  <2> QED
    BY <1>7, <2>1 DEF Lease, Underway
<1>11. ASSUME NEW r \in Replies, QueueReply(r) PROVE Backed(d)'
  <2>1. /\ UNCHANGED <<work, sends, lost>>
        /\ row'[d].attempts = row[d].attempts
        /\ row'[d].state = "LEASED" <=> row[d].state = "LEASED"
    BY <1>11 DEF RowInv, TypeOK, QueueReply
  <2> QED
    BY <1>7, <2>1 DEF Lease, Underway
<1>12. CASE Elsewhere
  BY <1>9, <1>12, <1>2, ElsewhereStep
<1>13. ASSUME NEW e \in Messages, Expire(e) PROVE Backed(d)'
  BY <1>9, <1>13 DEF Expire
<1> QED
  BY <1>3, <1>4, <1>5, <1>6, <1>8, <1>10, <1>11, <1>12, <1>13 DEF Next, Elsewhere

-----------------------------------------------------------------------------
(* The theorems.                                                           *)

\* The invariant holds at the start ...
LEMMA InitInv ==
  ASSUME Init
  PROVE  IInv
<1> USE ConstantsAssumption
<1>1. TypeOK
  <2>1. row \in [Messages -> Row] /\ work \in [Instances -> Work]
    BY DEF Init
  <2>2. nights \in 0 .. MaxNights /\ faults \in 0 .. MaxFaults
    BY DEF Init
  <2> QED
    BY <2>1, <2>2 DEF Init, TypeOK
<1>2. RowInv
  BY <1>1 DEF Init, RowInv, TokenMeansLease, AttemptsLeft, WorkIsSound, Sound, HolderIsCurrent
<1>3. SourceInv
  BY DEF Init, SourceInv, NotificationFollows, UntakenHasNone
<1>4. SendsAreBacked
  <2>1. \A d \in Messages : Underway(d) = {}
    BY DEF Init, Underway
  <2> QED
    BY <2>1, FS_EmptySet DEF Init, SendsAreBacked, Backed, Lease
<1> QED
  BY <1>2, <1>3, <1>4 DEF IInv

\* ... and speaks of the variables alone.
LEMMA StutterInv ==
  ASSUME IInv, UNCHANGED vars
  PROVE  IInv'
  BY DEF IInv, vars, RowInv, TypeOK, TokenMeansLease, AttemptsLeft, WorkIsSound, Sound,
     HolderIsCurrent, SourceInv, NotificationFollows, UntakenHasNone, SendsAreBacked,
     Backed, Underway, Lease

\* The invariant holds in every reachable state: of the queue's rows and leases,
\* the notifications that follow them, and the account of messages sent.
THEOREM Inductive == Spec => []IInv
<1>1. IInv /\ [Next]_vars => IInv'
  BY RowStep, SourceStep, BackedStep, StutterInv DEF IInv
<1> QED
  BY <1>1, InitInv, PTL DEF Spec

\* Every row, notification and instance's memory keeps its type.
THEOREM TypeCorrect == Spec => []TypeOK
<1>1. IInv => TypeOK
  BY DEF IInv, RowInv
<1> QED
  BY <1>1, Inductive, PTL

\* However enqueueing and recording interleave, a notification says what
\* became of its delivery.
THEOREM NotificationsFollow == Spec => []NotificationFollows
<1>1. IInv => NotificationFollows
  BY DEF IInv, SourceInv
<1> QED
  BY <1>1, Inductive, PTL

\* However many instances crash, stall or answer late, a member receives a
\* message at most MaxAttempts times and once more for each lost lease.
THEOREM SendsBounded == Spec => []SendsAreBounded
<1>1. ASSUME IInv PROVE SendsAreBounded
  <2> SUFFICES ASSUME NEW d \in Messages
               PROVE  sends[d] <= MaxAttempts + lost[d]
    BY DEF SendsAreBounded
  <2>1. /\ row[d].attempts <= MaxAttempts
        /\ row[d].state = "LEASED" => row[d].attempts < MaxAttempts
        /\ Backed(d) /\ TypeOK
    BY <1>1 DEF IInv, RowInv, TypeOK, AttemptsLeft, SendsAreBacked
  <2>2. row[d].attempts + Lease(d) <= MaxAttempts
    BY <2>1, Counts, ConstantsAssumption DEF Lease
  <2> QED
    BY <2>1, <2>2, Counts, UnderwayFinite, ConstantsAssumption DEF Backed
<1> QED
  BY <1>1, Inductive, PTL

\* A settled delivery is never touched again: an instance whose lease has
\* passed on, or who comes back, finds no token of its own.
THEOREM SettledStays == Spec => SettledIsFinal
<1> USE ConstantsAssumption
<1>1. ASSUME RowInv, [Next]_vars, NEW d \in Messages, row[d].state \in Settled
      PROVE  row'[d] = row[d]
  <2>0. row[d].token = None /\ d \notin late
    BY <1>1 DEF RowInv, TokenMeansLease
  <2>1. ASSUME NEW a \in Alerts, EnqueueAlert(a) PROVE row'[d] = row[d]
    BY <1>1, <2>1 DEF RowInv, TypeOK, EnqueueAlert
  <2>2. ASSUME NEW r \in Replies, QueueReply(r) PROVE row'[d] = row[d]
    BY <1>1, <2>2 DEF RowInv, TypeOK, QueueReply
  <2>3. ASSUME NEW w \in Instances, NEW e \in Messages, LeaseOne(w, e) PROVE row'[d] = row[d]
    BY <1>1, <2>0, <2>3 DEF RowInv, TypeOK, LeaseOne, Reaped
  <2>4. ASSUME NEW w \in Instances, Defer(w) \/ Complete(w) PROVE row'[d] = row[d]
    BY <1>1, <2>0, <2>4 DEF RowInv, TypeOK, Defer, Complete, HoldsLease
  <2>5. ASSUME NEW w \in Instances,
               CheckMember(w) \/ CheckAlert(w) \/ Send(w) \/ RecordAborts(w) \/ Crash(w)
        PROVE  row'[d] = row[d]
    BY <2>5 DEF CheckMember, CheckAlert, Send, RecordAborts, Crash
  <2>6. ASSUME NEW e \in Messages, Expire(e) PROVE row'[d] = row[d]
    BY <2>6 DEF Expire
  <2>7. CASE Elsewhere
    BY <1>1, <2>7, ElsewhereStep DEF RowInv
  <2>8. CASE UNCHANGED vars
    BY <2>8 DEF vars
  <2> QED
    BY <1>1, <2>1, <2>2, <2>3, <2>4, <2>5, <2>6, <2>7, <2>8 DEF Next, Elsewhere
<1>2. IInv /\ [Next]_vars
        => [\A d \in Messages : row[d].state \in Settled => row'[d] = row[d]]_vars
  BY <1>1 DEF IInv
<1> QED
  BY <1>2, Inductive, PTL DEF Spec, SettledIsFinal
=============================================================================
