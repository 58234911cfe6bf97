--------------------------- MODULE Synapse_proofs ---------------------------
(***************************************************************************)
(* Proofs about Synapse, its console and Axon: the delivery ledger, the    *)
(* answers of the console, and the story that the run table, the action    *)
(* log and the screens tell together, for any number of executions,        *)
(* requests, senders and messages.                                         *)
(***************************************************************************)
EXTENDS SynapseReads, FiniteSetTheorems, WellFoundedInduction, TLAPS

-----------------------------------------------------------------------------
(* The invariant of Axon. *)

\* Deliveries of m that may still mail it.
MayMail(m) ==
    {w \in Workers : m \in batch[w] \/ (cur[w] = m /\ stage[w] \in {"parse", "send"})}

\* The sender's locals.
SenderInv(w) ==
    /\ stage[w] # "parse" => cur[w] \in Deliverable
    /\ stage[w] = "accepted" => mails[cur[w]] > 0
    /\ cur[w] \notin batch[w]
    /\ acks[w] \subseteq Deliverable

AttemptsInv == \A m \in Messages : msg[m] \in {"absent", "queued"} => attempts[m] < MaxDeliveryAttempts

\* The mails that are out and the deliveries that may still mail are deliveries.
MailInv == \A m \in Messages : IsFiniteSet(MayMail(m)) /\ mails[m] + Cardinality(MayMail(m)) <= attempts[m]

AxonInv ==
    /\ AxonTypeOK
    /\ AttemptsInv
    /\ \A w \in Workers : SenderInv(w)
    /\ MailInv
    /\ AckedIsRecorded
    /\ AcceptedWasMailed
    /\ UndeliverableIsLeft

\* A count that stays within a limit: the set loses members, or gains one as the limit
\* grows by one, or gives one up as the counter grows by at most one.
LEMMA Tally ==
    ASSUME NEW S, IsFiniteSet(S), NEW T, NEW w, NEW n \in Nat, NEW k \in Nat,
           NEW a \in Nat, NEW c \in Nat, n + Cardinality(S) <= a,
           \/ T \subseteq S /\ k = n /\ c = a
           \/ T \subseteq S \cup {w} /\ k = n /\ c = a + 1
           \/ T \subseteq S \ {w} /\ w \in S /\ k <= n + 1 /\ c = a
    PROVE  IsFiniteSet(T) /\ k + Cardinality(T) <= c
<1>0. Cardinality(S) \in Nat
  BY FS_CardinalityType
<1>1. PICK U \in {S, S \cup {w}, S \ {w}} :
        T \subseteq U /\ IsFiniteSet(U) /\ k + Cardinality(U) <= c
  <2>1. IsFiniteSet(S \cup {w}) /\ Cardinality(S \cup {w}) \in {Cardinality(S), Cardinality(S) + 1}
    BY <1>0, FS_AddElement
  <2>2. w \in S => IsFiniteSet(S \ {w}) /\ Cardinality(S \ {w}) = Cardinality(S) - 1
    BY FS_RemoveElement
  <2> QED BY <1>0, <2>1, <2>2
<1>2. IsFiniteSet(T) /\ Cardinality(T) <= Cardinality(U)
  BY <1>1, FS_Subset
<1>3. Cardinality(T) \in Nat /\ Cardinality(U) \in Nat
  BY <1>1, <1>2, FS_CardinalityType
<1> QED BY <1>1, <1>2, <1>3

LEMMA AxonInitInv == AxonInit => AxonInv
<1> SUFFICES ASSUME AxonInit PROVE AxonInv
  OBVIOUS
<1> USE SubscriptionAssumption, AxonAssumption DEF AxonInit, SubInit
<1>1. AxonTypeOK /\ AttemptsInv
  BY DEF AxonTypeOK, SubTypeOK, MsgStatus, AttemptsInv
<1>2. \A w \in Workers : SenderInv(w)
  BY DEF SenderInv
<1>3. MailInv
  <2>1. \A m \in Messages : MayMail(m) = {} /\ mails[m] = 0 /\ attempts[m] = 0
    BY DEF MayMail
  <2> QED BY <2>1, FS_EmptySet, 0 + 0 <= 0 DEF MailInv
<1>4. AckedIsRecorded /\ AcceptedWasMailed /\ UndeliverableIsLeft
  BY DEF AckedIsRecorded, AcceptedWasMailed, UndeliverableIsLeft, DeliveryState
<1> QED BY <1>1, <1>2, <1>3, <1>4 DEF AxonInv

LEMMA MailKept ==
    ASSUME AxonInv,
           \A m \in Messages : /\ MayMail(m)' \subseteq MayMail(m)
                               /\ mails'[m] = mails[m] /\ attempts'[m] = attempts[m]
    PROVE  MailInv'
<1> SUFFICES ASSUME NEW m \in Messages
             PROVE  IsFiniteSet(MayMail(m)') /\ mails'[m] + Cardinality(MayMail(m)') <= attempts'[m]
  BY DEF MailInv
<1>1. mails[m] \in Nat /\ attempts[m] \in Nat
  BY SubscriptionAssumption DEF AxonInv, AxonTypeOK, SubTypeOK
<1>2. IsFiniteSet(MayMail(m)) /\ mails[m] + Cardinality(MayMail(m)) <= attempts[m]
  BY DEF AxonInv, MailInv
<1> QED BY <1>1, <1>2, Tally

\* What the tally says of the counter.
LEMMA TallyBounds ==
    ASSUME NEW S, IsFiniteSet(S), NEW n \in Nat, NEW a \in Nat, n + Cardinality(S) <= a
    PROVE  n <= a
BY FS_CardinalityType

\* A message is published, or its lease runs out.
LEMMA BrokerStep ==
    ASSUME AxonInv, NEW m \in Messages, UNCHANGED <<attempts, loopVars, stage, mails, ledger>>,
           \/ msg[m] = "absent" /\ msg' = [msg EXCEPT ![m] = "queued"]
           \/ msg[m] = "leased" /\ msg' = [msg EXCEPT ![m] = AfterDelivery(m)]
    PROVE  AxonInv'
<1> USE SubscriptionAssumption, AxonAssumption
<1>1. AxonTypeOK' /\ AttemptsInv'
  BY DEF AxonInv, AxonTypeOK, SubTypeOK, MsgStatus, AttemptsInv, AfterDelivery, loopVars
<1>2. \A w \in Workers : SenderInv(w)'
  BY DEF AxonInv, SenderInv, loopVars
<1>3. MailInv'
  BY MailKept DEF MayMail, loopVars
<1>4. \A n \in Messages : msg'[n] = "acked" => msg[n] = "acked"
  BY DEF AxonInv, AxonTypeOK, SubTypeOK, AfterDelivery
<1>5. AckedIsRecorded' /\ AcceptedWasMailed' /\ UndeliverableIsLeft'
  BY <1>4 DEF AxonInv, AckedIsRecorded, AcceptedWasMailed, UndeliverableIsLeft, loopVars
<1> QED BY <1>1, <1>2, <1>3, <1>5 DEF AxonInv

\* poll_once pulls a batch.
LEMMA PullStep ==
    ASSUME AxonInv, NEW w \in Workers, Pull(w), UNCHANGED <<stage, mails, ledger>>
    PROVE  AxonInv'
<1> USE SubscriptionAssumption, AxonAssumption
<1>1. PICK S \in SUBSET {m \in Messages : msg[m] = "queued"} :
        /\ msg' = [m \in Messages |-> IF m \in S THEN "leased" ELSE msg[m]]
        /\ attempts' = [m \in Messages |-> IF m \in S THEN attempts[m] + 1 ELSE attempts[m]]
        /\ batch' = [batch EXCEPT ![w] = S]
  BY DEF Pull
<1>2. UNCHANGED <<cur, acks, nacks>> /\ batch[w] = {} /\ cur[w] = None
  BY DEF Pull, Polling
<1>3. AxonTypeOK' /\ AttemptsInv'
  BY <1>1, <1>2 DEF AxonInv, AxonTypeOK, SubTypeOK, MsgStatus, AttemptsInv
<1>4. \A v \in Workers : SenderInv(v)'
  BY <1>1, <1>2 DEF AxonInv, AxonTypeOK, SubTypeOK, SenderInv
<1>5. MailInv'
  <2> SUFFICES ASSUME NEW m \in Messages
               PROVE  IsFiniteSet(MayMail(m)') /\ mails'[m] + Cardinality(MayMail(m)') <= attempts'[m]
    BY DEF MailInv
  <2>1. mails[m] \in Nat /\ attempts[m] \in Nat /\ mails'[m] = mails[m]
    BY DEF AxonInv, AxonTypeOK, SubTypeOK
  <2>2. IsFiniteSet(MayMail(m)) /\ mails[m] + Cardinality(MayMail(m)) <= attempts[m]
    BY DEF AxonInv, MailInv
  <2>3. CASE m \in S
    <3>1. MayMail(m)' \subseteq MayMail(m) \cup {w} /\ attempts'[m] = attempts[m] + 1
      BY <1>1, <1>2, <2>3 DEF AxonInv, AxonTypeOK, SubTypeOK, MayMail
    <3>2. PICK c \in Nat : c = attempts'[m]
      BY <2>1, <3>1
    <3>3. IsFiniteSet(MayMail(m)') /\ mails[m] + Cardinality(MayMail(m)') <= c
      <4> DEFINE T == MayMail(m)'
                 U == MayMail(m)
      <4> HIDE DEF T, U
      <4>1. IsFiniteSet(U) /\ mails[m] + Cardinality(U) <= attempts[m] /\ T \subseteq U \cup {w}
        BY <2>2, <3>1 DEF T, U
      <4>2. IsFiniteSet(T) /\ mails[m] + Cardinality(T) <= c
        BY <2>1, <3>1, <3>2, <4>1, Tally
      <4> QED BY <4>2 DEF T
    <3> QED BY <2>1, <3>2, <3>3
  <2>4. CASE m \notin S
    <3>1. MayMail(m)' \subseteq MayMail(m) /\ attempts'[m] = attempts[m]
      BY <1>1, <1>2, <2>4 DEF AxonInv, AxonTypeOK, SubTypeOK, MayMail
    <3> QED BY <2>1, <2>2, <3>1, Tally
  <2> QED BY <2>3, <2>4
<1>6. \A n \in Messages : msg'[n] = "acked" => msg[n] = "acked"
  BY <1>1
<1>7. AckedIsRecorded' /\ UndeliverableIsLeft'
  BY <1>2, <1>6 DEF AxonInv, AckedIsRecorded, UndeliverableIsLeft
<1>8. AcceptedWasMailed'
  <2>1. ASSUME NEW m \in Messages PROVE mails'[m] <= attempts'[m]
    <3>1. mails'[m] \in Nat /\ attempts'[m] \in Nat
      BY <1>3 DEF AxonTypeOK, SubTypeOK
    <3> QED BY <1>5, <3>1, TallyBounds DEF MailInv
  <2> QED BY <2>1 DEF AxonInv, AcceptedWasMailed
<1> QED BY <1>3, <1>4, <1>5, <1>7, <1>8 DEF AxonInv

\* The locals of the sender that the invariant reads.
Unmoved(v) == stage'[v] = stage[v] /\ cur'[v] = cur[v] /\ batch'[v] = batch[v] /\ acks'[v] = acks[v]

\* A sender moves on within its pass, and neither mails nor records.
LEMMA QuietStep ==
    ASSUME AxonInv, NEW w \in Workers, UNCHANGED <<msg, attempts, mails, ledger>>,
           AxonTypeOK', SenderInv(w)', acks'[w] \subseteq acks[w],
           \A v \in Workers \ {w} : Unmoved(v),
           \A m \in Messages : w \in MayMail(m)' => w \in MayMail(m)
    PROVE  AxonInv'
<1>1. AttemptsInv'
  BY DEF AxonInv, AttemptsInv
<1>2. \A v \in Workers : SenderInv(v)'
  BY DEF AxonInv, SenderInv, Unmoved
<1>3. MailInv'
  <2>1. \A m \in Messages : MayMail(m)' \subseteq MayMail(m)
    BY DEF MayMail, Unmoved
  <2> QED BY <2>1, MailKept
<1>4. \A v \in Workers : acks'[v] \subseteq acks[v]
  BY DEF Unmoved
<1>5. AckedIsRecorded' /\ AcceptedWasMailed' /\ UndeliverableIsLeft'
  BY <1>4 DEF AxonInv, AckedIsRecorded, AcceptedWasMailed, UndeliverableIsLeft
<1> QED BY <1>1, <1>2, <1>3, <1>5 DEF AxonInv

LEMMA QuietSteps ==
    ASSUME AxonInv, NEW w \in Workers,
           \/ NextMessage(w) /\ UNCHANGED <<stage, mails, ledger>>
           \/ Read(w)
           \/ Unreadable(w)
           \/ LedgerWriteFails(w)
           \/ SenderAborts(w)
    PROVE  AxonInv'
<1> USE SubscriptionAssumption, AxonAssumption
<1>0. AxonTypeOK /\ SubTypeOK /\ SenderInv(w)
  BY DEF AxonInv, AxonTypeOK
<1>1. CASE NextMessage(w) /\ UNCHANGED <<stage, mails, ledger>>
  <2>1. PICK m \in batch[w] : /\ cur[w] = None /\ cur' = [cur EXCEPT ![w] = m]
                              /\ batch' = [batch EXCEPT ![w] = @ \ {m}]
    BY <1>1 DEF NextMessage
  <2>2. UNCHANGED <<msg, attempts, acks, nacks, stage, mails, ledger>>
    BY <1>1 DEF NextMessage, brokerVars
  <2>3. AxonTypeOK' /\ SenderInv(w)' /\ \A v \in Workers \ {w} : Unmoved(v)
    BY <1>0, <2>1, <2>2 DEF AxonTypeOK, SubTypeOK, SenderInv, Unmoved
  <2>4. \A n \in Messages : w \in MayMail(n)' => w \in MayMail(n)
    BY <1>0, <2>1, <2>2 DEF MayMail, SubTypeOK
  <2> QED BY <1>0, <2>2, <2>3, <2>4, QuietStep
<1>2. CASE Read(w)
  <2>1. /\ stage[w] = "parse" /\ cur[w] \in Deliverable /\ stage' = [stage EXCEPT ![w] = "send"]
        /\ UNCHANGED <<msg, attempts, batch, cur, acks, nacks, mails, ledger>>
    BY <1>2 DEF Read, Reach, subVars
  <2>3. AxonTypeOK' /\ SenderInv(w)' /\ \A v \in Workers \ {w} : Unmoved(v)
    BY <1>0, <2>1 DEF AxonTypeOK, SubTypeOK, SenderInv, Unmoved
  <2>4. \A n \in Messages : w \in MayMail(n)' => w \in MayMail(n)
    BY <1>0, <2>1 DEF MayMail, AxonTypeOK
  <2> QED BY <1>0, <2>1, <2>3, <2>4, QuietStep
<1>3. CASE Unreadable(w) \/ LedgerWriteFails(w)
  <2>1. /\ cur[w] \in Messages /\ cur' = [cur EXCEPT ![w] = None]
        /\ nacks' = [nacks EXCEPT ![w] = @ \cup {cur[w]}]
        /\ UNCHANGED <<msg, attempts, batch, acks, mails, ledger>>
    BY <1>0, <1>3 DEF Unreadable, LedgerWriteFails, ReturnNack, brokerVars, SenderInv, DeliveryState
  <2>2. stage' = [stage EXCEPT ![w] = "parse"]
    BY <1>0, <1>3 DEF Unreadable, LedgerWriteFails, Reach, AxonTypeOK
  <2>3. AxonTypeOK' /\ SenderInv(w)' /\ \A v \in Workers \ {w} : Unmoved(v)
    BY <1>0, <2>1, <2>2 DEF AxonTypeOK, SubTypeOK, SenderInv, Unmoved
  <2>4. \A n \in Messages : w \in MayMail(n)' => w \in MayMail(n)
    BY <1>0, <2>1, <2>2 DEF MayMail, SubTypeOK
  <2> QED BY <1>0, <2>1, <2>3, <2>4, QuietStep
<1>4. CASE SenderAborts(w)
  <2>1. /\ batch' = [batch EXCEPT ![w] = {}] /\ cur' = [cur EXCEPT ![w] = None]
        /\ acks' = [acks EXCEPT ![w] = {}] /\ nacks' = [nacks EXCEPT ![w] = {}]
        /\ stage' = [stage EXCEPT ![w] = "parse"]
        /\ UNCHANGED <<msg, attempts, mails, ledger>>
    BY <1>4 DEF SenderAborts, PassAborted, Reach, brokerVars
  <2>3. AxonTypeOK' /\ SenderInv(w)' /\ \A v \in Workers \ {w} : Unmoved(v)
    BY <1>0, <2>1 DEF AxonTypeOK, SubTypeOK, SenderInv, Unmoved
  <2>4. /\ acks'[w] \subseteq acks[w]
        /\ \A n \in Messages : w \in MayMail(n)' => w \in MayMail(n)
    BY <1>0, <2>1 DEF MayMail, SubTypeOK
  <2> QED BY <1>0, <2>1, <2>3, <2>4, QuietStep
<1> QED BY <1>1, <1>2, <1>3, <1>4

\* The decisions of a pass reach the broker.
LEMMA SettleStep ==
    ASSUME AxonInv, NEW w \in Workers, Acknowledge(w) \/ ModifyAckDeadline(w),
           UNCHANGED <<stage, mails, ledger>>
    PROVE  AxonInv'
<1> USE SubscriptionAssumption, AxonAssumption
<1>1. /\ UNCHANGED <<attempts, batch, cur>>
      /\ \A v \in Workers : acks'[v] \subseteq acks[v]
      /\ \A m \in Messages : msg'[m] = "acked" => msg[m] = "acked" \/ m \in acks[w]
  BY DEF Acknowledge, ModifyAckDeadline, AfterDelivery, AxonInv, AxonTypeOK, SubTypeOK
<1>2. AxonTypeOK' /\ AttemptsInv'
  <2>1. CASE Acknowledge(w)
    BY <2>1 DEF AxonInv, AxonTypeOK, SubTypeOK, MsgStatus, AttemptsInv, Acknowledge
  <2>2. CASE ModifyAckDeadline(w)
    BY <2>2 DEF AxonInv, AxonTypeOK, SubTypeOK, MsgStatus, AttemptsInv, ModifyAckDeadline,
                AfterDelivery
  <2> QED BY <2>1, <2>2
<1>3. \A v \in Workers : SenderInv(v)'
  BY <1>1 DEF AxonInv, SenderInv
<1>4. MailInv'
  BY <1>1, MailKept DEF MayMail
<1>5. AckedIsRecorded' /\ AcceptedWasMailed' /\ UndeliverableIsLeft'
  BY <1>1 DEF AxonInv, AckedIsRecorded, AcceptedWasMailed, UndeliverableIsLeft, SenderInv
<1> QED BY <1>2, <1>3, <1>4, <1>5 DEF AxonInv

\* The adapter is called: the delivery has mailed now, or perhaps it has.
LEMMA SendStep ==
    ASSUME AxonInv, NEW w \in Workers, Send(w)
    PROVE  AxonInv'
<1> USE SubscriptionAssumption, AxonAssumption
<1>0. AxonTypeOK /\ SubTypeOK /\ SenderInv(w)
  BY DEF AxonInv, AxonTypeOK
<1>1. PICK m \in Deliverable : m = cur[w] /\ m \in Messages
  BY <1>0 DEF Send, SenderInv
<1>2. UNCHANGED <<msg, attempts, batch, cur, acks, nacks, ledger>> /\ stage[w] = "send"
  BY DEF Send, subVars
<1>3. PICK s \in DeliveryState, k \in {mails[m], mails[m] + 1} :
        /\ stage' = [stage EXCEPT ![w] = s]
        /\ mails' = [mails EXCEPT ![m] = k]
        /\ s = "accepted" => k = mails[m] + 1
  BY <1>0, <1>1 DEF Send, Reach, DeliveryState, AxonTypeOK
<1>4. mails \in [Messages -> Nat] /\ attempts \in [Messages -> 0..MaxDeliveryAttempts] /\ k \in Nat
  BY <1>0, <1>3 DEF AxonTypeOK, SubTypeOK
<1>5. \A n \in Messages : mails'[n] >= mails[n] /\ mails'[n] \in Nat
  BY <1>1, <1>3, <1>4
<1>6. MailInv'
  <2> SUFFICES ASSUME NEW n \in Messages
               PROVE  IsFiniteSet(MayMail(n)') /\ mails'[n] + Cardinality(MayMail(n)') <= attempts'[n]
    BY DEF MailInv
  <2>1. IsFiniteSet(MayMail(n)) /\ mails[n] + Cardinality(MayMail(n)) <= attempts[n]
    BY DEF AxonInv, MailInv
  <2>2. \/ MayMail(n)' \subseteq MayMail(n) /\ mails'[n] = mails[n]
        \/ /\ w \in MayMail(n) /\ MayMail(n)' \subseteq MayMail(n) \ {w}
           /\ mails'[n] <= mails[n] + 1
    BY <1>0, <1>1, <1>2, <1>3, <1>4 DEF MayMail, AxonTypeOK, SenderInv, DeliveryState
  <2>3. mails[n] \in Nat /\ mails'[n] \in Nat /\ attempts[n] \in Nat /\ attempts'[n] = attempts[n]
    BY <1>2, <1>4, <1>5
  <2> DEFINE T == MayMail(n)'
             U == MayMail(n)
  <2> HIDE DEF T, U
  <2>4. /\ IsFiniteSet(U) /\ mails[n] + Cardinality(U) <= attempts[n]
        /\ \/ T \subseteq U /\ mails'[n] = mails[n]
           \/ T \subseteq U \ {w} /\ w \in U /\ mails'[n] <= mails[n] + 1
    BY <2>1, <2>2 DEF T, U
  <2>5. IsFiniteSet(T) /\ mails'[n] + Cardinality(T) <= attempts[n]
    BY <2>3, <2>4, Tally
  <2> QED BY <2>3, <2>5 DEF T
<1>7. \A n \in Messages : mails'[n] <= attempts'[n]
  <2> SUFFICES ASSUME NEW n \in Messages PROVE mails'[n] <= attempts'[n]
    OBVIOUS
  <2>1. mails'[n] \in Nat /\ attempts'[n] \in Nat
    BY <1>2, <1>4, <1>5
  <2> QED BY <1>6, <2>1, TallyBounds DEF MailInv
<1>8. AxonTypeOK' /\ AttemptsInv'
  <2>1. \A n \in Messages : mails'[n] \in 0..MaxDeliveryAttempts
    BY <1>2, <1>4, <1>5, <1>7
  <2>2. mails' \in [Messages -> 0..MaxDeliveryAttempts]
    BY <1>3, <1>4, <2>1
  <2> QED BY <1>0, <1>2, <1>3, <2>2 DEF AxonInv, AxonTypeOK, SubTypeOK, AttemptsInv
<1>9. \A v \in Workers : SenderInv(v)'
  <2> SUFFICES ASSUME NEW v \in Workers PROVE SenderInv(v)'
    OBVIOUS
  <2>1. CASE v = w
    BY <1>0, <1>1, <1>2, <1>3, <1>4, <2>1 DEF SenderInv, AxonTypeOK
  <2>2. CASE v # w
    BY <1>0, <1>2, <1>3, <1>4, <1>5, <2>2 DEF AxonInv, SenderInv, AxonTypeOK
  <2> QED BY <2>1, <2>2
<1>10. AckedIsRecorded' /\ AcceptedWasMailed' /\ UndeliverableIsLeft'
  BY <1>1, <1>2, <1>3, <1>4, <1>5, <1>7
     DEF AxonInv, AckedIsRecorded, AcceptedWasMailed, UndeliverableIsLeft
<1> QED BY <1>6, <1>8, <1>9, <1>10 DEF AxonInv

\* The row is written, or found there already, and the message is to be acknowledged.
LEMMA RecordStep ==
    ASSUME AxonInv, NEW w \in Workers, Record(w)
    PROVE  AxonInv'
<1> USE SubscriptionAssumption, AxonAssumption
<1>0. AxonTypeOK /\ SubTypeOK /\ SenderInv(w)
  BY DEF AxonInv, AxonTypeOK
<1>1. PICK m \in Deliverable : m = cur[w] /\ m \in Messages
  BY <1>0 DEF Record, SenderInv, DeliveryState
<1>2. PICK s \in DeliveryState : s = stage[w]
  BY DEF Record
<1>3. PICK d \in DeliveryState :
        /\ ledger' = [ledger EXCEPT ![m] = d]
        /\ d = "accepted" => ledger[m] = "accepted" \/ s = "accepted"
  BY <1>0, <1>1, <1>2 DEF Record, Recorded, AxonTypeOK
<1>4. /\ stage' = [stage EXCEPT ![w] = "parse"] /\ cur' = [cur EXCEPT ![w] = None]
      /\ acks' = [acks EXCEPT ![w] = @ \cup {m}]
      /\ UNCHANGED <<msg, attempts, batch, nacks, mails>>
  BY <1>1 DEF Record, Reach, ReturnAck, brokerVars
<1>5. AxonTypeOK' /\ AttemptsInv'
  BY <1>0, <1>1, <1>3, <1>4 DEF AxonInv, AxonTypeOK, SubTypeOK, AttemptsInv
<1>6. \A v \in Workers : SenderInv(v)'
  BY <1>0, <1>1, <1>4 DEF AxonInv, AxonTypeOK, SubTypeOK, SenderInv
<1>7. MailInv'
  <2>1. \A n \in Messages : MayMail(n)' \subseteq MayMail(n)
    BY <1>0, <1>4 DEF MayMail, SubTypeOK, AxonTypeOK
  <2> QED BY <1>4, <2>1, MailKept
<1>8. AckedIsRecorded'
  BY <1>0, <1>1, <1>3, <1>4 DEF AxonInv, AckedIsRecorded, AxonTypeOK, SubTypeOK
<1>9. AcceptedWasMailed'
  BY <1>0, <1>1, <1>2, <1>3, <1>4 DEF AxonInv, AcceptedWasMailed, AxonTypeOK, SenderInv
<1>10. UndeliverableIsLeft'
  BY <1>1, <1>3, <1>4 DEF AxonInv, UndeliverableIsLeft
<1> QED BY <1>5, <1>6, <1>7, <1>8, <1>9, <1>10 DEF AxonInv

\* The sender and the broker keep the invariant, and never put a message on the topic.
LEMMA AxonStep ==
    ASSUME AxonInv, AxonNext
    PROVE  AxonInv' /\ \A m \in Messages : msg'[m] = "absent" <=> msg[m] = "absent"
<1> USE SubscriptionAssumption
<1>0. AxonTypeOK /\ SubTypeOK
  BY DEF AxonInv, AxonTypeOK
<1>1. CASE \E m \in Messages : LeaseExpires(m) /\ UNCHANGED <<stage, mails, ledger>>
  <2>1. PICK m \in Messages : LeaseExpires(m) /\ UNCHANGED <<stage, mails, ledger>>
    BY <1>1
  <2>2. /\ UNCHANGED <<attempts, loopVars>>
        /\ msg[m] = "leased" /\ msg' = [msg EXCEPT ![m] = AfterDelivery(m)]
    BY <2>1 DEF LeaseExpires
  <2>3. AxonInv'
    BY <2>1, <2>2, BrokerStep
  <2> QED BY <1>0, <2>2, <2>3 DEF SubTypeOK, AfterDelivery
<1>2. CASE \E w \in Workers : Sender(w)
  <2>1. PICK w \in Workers : Sender(w)
    BY <1>2
  <2>2. CASE Pull(w) /\ UNCHANGED <<stage, mails, ledger>>
    <3>1. \A m \in Messages : msg'[m] = "absent" <=> msg[m] = "absent"
      BY <1>0, <2>2 DEF Pull, SubTypeOK
    <3> QED BY <2>2, <3>1, PullStep
  <2>3. CASE (Acknowledge(w) \/ ModifyAckDeadline(w)) /\ UNCHANGED <<stage, mails, ledger>>
    <3>1. \A m \in Messages : msg'[m] = "absent" <=> msg[m] = "absent"
      BY <1>0, <2>3 DEF Acknowledge, ModifyAckDeadline, AfterDelivery, SubTypeOK
    <3> QED BY <2>3, <3>1, SettleStep
  <2>4. CASE Send(w) \/ Record(w)
    <3>1. UNCHANGED msg
      BY <2>4 DEF Send, Record, ReturnAck, brokerVars, subVars
    <3> QED BY <2>4, <3>1, SendStep, RecordStep
  <2>5. CASE \/ NextMessage(w) /\ UNCHANGED <<stage, mails, ledger>>
             \/ Read(w)
             \/ Unreadable(w)
             \/ LedgerWriteFails(w)
             \/ SenderAborts(w)
    <3>1. UNCHANGED msg
      BY <2>5 DEF NextMessage, Read, Unreadable, LedgerWriteFails, SenderAborts, ReturnNack,
                  PassAborted, brokerVars, subVars
    <3> QED BY <2>5, <3>1, QuietSteps
  <2> QED BY <2>1, <2>2, <2>3, <2>4, <2>5 DEF Sender
<1> QED BY <1>1, <1>2 DEF AxonNext

-----------------------------------------------------------------------------
(* The console. *)

\* The rows of synapse.provision are legal.
ProvisionInv ==
    /\ DOMAIN provision \subseteq Analyses
    /\ \A a \in DOMAIN provision : provision[a] \in Provision

RequestPoints == {"idle", "enable", "publish", "answered"}
Answers == {Null, 200, 201, 404, 409, 422}
RequestRows ==
    [pc : RequestPoints, analysis : Analyses \cup {"undeclared", Null},
     timezone : Timezones \cup {Null}, status : Answers]

\* A request knows its answer once it has passed enable_analysis, and its notice is on
\* the topic only when it is done.
RequestInv ==
    /\ request \in [Requests -> RequestRows]
    /\ \A r \in Requests :
         /\ request[r].pc = "enable" => request[r].status = Null /\ request[r].timezone \in Timezones
         /\ request[r].pc = "idle" => request[r].status = Null
         /\ request[r].pc = "publish" => request[r].status \in {200, 201}

NoticeInv ==
    \A r \in Requests : msg[Notice[r]] # "absent" =>
      request[r].pc = "answered" /\ request[r].status \in {200, 201}

ConsoleInv ==
    /\ now \in StartNow..MaxNow
    /\ ProvisionInv
    /\ RequestInv
    /\ EnablesAreHonest

LEMMA DeclaredAnalyses == \A a : _validate(a) <=> a \in Analyses
BY DEF _validate, _DECLARATIONS, Analyses

\* Rows are added to synapse.provision, never taken away, and their timezones stand.
Stands ==
    /\ DOMAIN provision \subseteq DOMAIN provision'
    /\ \A a \in DOMAIN provision : provision'[a].timezone = provision[a].timezone

\* The answers given stay honest while the rows stand.
LEMMA AnswersStand ==
    ASSUME ConsoleInv, Stands, ProvisionInv', now' \in StartNow..MaxNow, UNCHANGED request
    PROVE  ConsoleInv'
<1>1. RequestInv'
  BY DEF ConsoleInv, RequestInv
<1>2. EnablesAreHonest'
  BY DEF ConsoleInv, EnablesAreHonest, Stands
<1> QED BY <1>1, <1>2 DEF ConsoleInv

LEMMA ConsoleInitInv == Init => ConsoleInv /\ NoticeInv
<1> SUFFICES ASSUME Init PROVE ConsoleInv /\ NoticeInv
  OBVIOUS
<1> USE SynapseAssumption
<1>1. PICK w \in Workloads : provision = w.provision
  BY DEF Init
<1>2. now \in StartNow..MaxNow /\ ProvisionInv
  BY <1>1, WorkloadsAssumption DEF Init, ProvisionInv
<1>3. /\ request \in [Requests -> RequestRows]
      /\ \A r \in Requests : request[r].pc = "idle" /\ request[r].status = Null
  BY DEF Init, RequestRows, RequestPoints, Answers
<1>4. RequestInv /\ EnablesAreHonest
  BY <1>3 DEF RequestInv, EnablesAreHonest
<1>5. NoticeInv
  BY AxonAssumption DEF Init, AxonInit, SubInit, NoticeInv
<1> QED BY <1>2, <1>4, <1>5 DEF ConsoleInv

\* An operator's edit, the clock, and everything that is not the console's.
LEMMA ProvisionStands ==
    ASSUME ConsoleInv, World, UNCHANGED msg
    PROVE  ConsoleInv' /\ (NoticeInv => NoticeInv')
<1> USE SynapseAssumption
<1>0. UNCHANGED request
  BY DEF World, Tick, SaleLands, StockMoves, TenantMirrored, OperatorEdits, RecordDecision
<1>1. now' \in StartNow..MaxNow
  BY DEF World, Tick, SaleLands, StockMoves, TenantMirrored, OperatorEdits, RecordDecision, ConsoleInv
<1>2. ProvisionInv' /\ Stands
  <2>1. CASE OperatorEdits
    <3>1. PICK a \in DOMAIN provision :
            \/ provision' = [provision EXCEPT ![a].disabled = TRUE]
            \/ provision' = [provision EXCEPT ![a].rung = "suggest"]
      BY <2>1 DEF OperatorEdits
    <3>2. PICK row \in Provision : row = provision[a]
      BY DEF ConsoleInv, ProvisionInv
    <3>3. PICK edited \in Provision : /\ provision' = [provision EXCEPT ![a] = edited]
                                     /\ edited.timezone = row.timezone
      <4>1. /\ [row EXCEPT !.disabled = TRUE] \in Provision
            /\ [row EXCEPT !.disabled = TRUE].timezone = row.timezone
        BY DEF Provision
      <4>2. /\ [row EXCEPT !.rung = "suggest"] \in Provision
            /\ [row EXCEPT !.rung = "suggest"].timezone = row.timezone
        BY DEF Provision
      <4> QED BY <3>1, <3>2, <4>1, <4>2
    <3> QED BY <3>2, <3>3 DEF ConsoleInv, ProvisionInv, Stands
  <2>2. CASE UNCHANGED provision
    BY <2>2 DEF ConsoleInv, ProvisionInv, Stands
  <2> QED BY <2>1, <2>2 DEF World, Tick, SaleLands, StockMoves, TenantMirrored, RecordDecision
<1>3. ConsoleInv'
  BY <1>0, <1>1, <1>2, AnswersStand
<1>4. NoticeInv => NoticeInv'
  BY <1>0 DEF NoticeInv
<1> QED BY <1>3, <1>4

\* A request leaves the page, refused or on its way.
LEMMA ReadTenantStep ==
    ASSUME ConsoleInv, NoticeInv, NEW r \in Requests, ReadTenant(r), UNCHANGED msg
    PROVE  ConsoleInv' /\ NoticeInv'
<1> Null \notin Int
  BY SynapseAssumption
<1>0. /\ UNCHANGED <<now, provision>> /\ request[r].pc = "idle" /\ request[r].status = Null
      /\ request \in [Requests -> RequestRows]
  BY DEF ReadTenant, consoleUnchanged, worldVars, ConsoleInv, RequestInv
<1>1. PICK row \in RequestRows :
        /\ request' = [request EXCEPT ![r] = row]
        /\ \/ row.pc = "enable" /\ row.status = Null /\ row.timezone \in Timezones
           \/ row.pc = "answered" /\ row.status \in {404, 409, 422}
  <2>1. PICK a \in Analyses \cup {"undeclared"}, z \in Timezones \cup {Null} :
          request' = [request EXCEPT ![r] =
               IF RefusedOnPage(a, z) = Null
               THEN [pc |-> "enable", analysis |-> a, timezone |-> z, status |-> Null]
               ELSE [@ EXCEPT !.pc = "answered", !.status = RefusedOnPage(a, z)]]
    BY DEF ReadTenant
  <2>2. RefusedOnPage(a, z) \in {404, 409, 422} \/ (RefusedOnPage(a, z) = Null /\ z \in Timezones)
    BY DEF RefusedOnPage
  <2>3. CASE RefusedOnPage(a, z) = Null
    <3> DEFINE row == [pc |-> "enable", analysis |-> a, timezone |-> z, status |-> Null]
    <3>1. row \in RequestRows
      BY DEF RequestRows, RequestPoints, Answers
    <3>2. row.pc = "enable" /\ row.status = Null /\ row.timezone \in Timezones
      BY <2>2, <2>3
    <3>3. request' = [request EXCEPT ![r] = row]
      BY <2>1, <2>3
    <3> HIDE DEF row
    <3> USE <3>1
    <3> WITNESS row \in RequestRows
    <3> QED BY <3>2, <3>3
  <2>4. CASE RefusedOnPage(a, z) # Null
    <3>1. PICK code \in {404, 409, 422} : code = RefusedOnPage(a, z)
      BY <2>2, <2>4
    <3>2. PICK old \in RequestRows : old = request[r]
      BY <1>0
    <3> DEFINE row == [old EXCEPT !.pc = "answered", !.status = code]
    <3>3. row.pc = "answered" /\ row.status = code
      BY <3>2 DEF RequestRows
    <3>4. row \in RequestRows
      <4>1. "answered" \in RequestPoints /\ code \in Answers
        BY <3>1 DEF RequestPoints, Answers
      <4> QED BY <3>2, <4>1 DEF RequestRows
    <3>5. request' = [request EXCEPT ![r] = row]
      BY <2>1, <2>4, <3>1, <3>2
    <3> HIDE DEF row
    <3>6. row.pc = "answered" /\ row.status \in {404, 409, 422}
      BY <3>1, <3>3
    <3> USE <3>4
    <3> WITNESS row \in RequestRows
    <3> QED BY <3>5, <3>6
  <2> QED BY <2>3, <2>4
<1>2. RequestInv'
  BY <1>0, <1>1 DEF ConsoleInv, RequestInv
<1>3. EnablesAreHonest'
  BY <1>0, <1>1 DEF ConsoleInv, EnablesAreHonest
<1>4. NoticeInv'
  BY <1>0, <1>1 DEF NoticeInv
<1> QED BY <1>0, <1>2, <1>3, <1>4 DEF ConsoleInv, ProvisionInv

\* One transaction: the row is inserted, or stands already, or the id is not declared.
LEMMA EnableStep ==
    ASSUME ConsoleInv, NoticeInv, NEW r \in Requests, EnableAnalysis(r), UNCHANGED msg
    PROVE  ConsoleInv' /\ NoticeInv'
<1> USE SynapseAssumption
<1>0. /\ UNCHANGED now /\ request[r].pc = "enable" /\ request[r].status = Null
      /\ request[r].timezone \in Timezones /\ request \in [Requests -> RequestRows]
  BY DEF EnableAnalysis, consoleUnchanged, worldVars, ConsoleInv, RequestInv
<1>1. PICK a, z : a = request[r].analysis /\ z = request[r].timezone
  OBVIOUS
<1>2. CASE ~_validate(a)
  <2>1. request' = [request EXCEPT ![r].pc = "answered", ![r].status = 404] /\ UNCHANGED provision
    BY <1>1, <1>2 DEF EnableAnalysis
  <2>2. RequestInv'
    BY <1>0, <2>1 DEF ConsoleInv, RequestInv, RequestRows, RequestPoints, Answers
  <2>3. EnablesAreHonest' /\ NoticeInv'
    BY <1>0, <2>1 DEF ConsoleInv, EnablesAreHonest, NoticeInv, RequestRows, RequestPoints, Answers
  <2> QED BY <1>0, <2>1, <2>2, <2>3 DEF ConsoleInv, ProvisionInv
<1>3. CASE _validate(a)
  <2>0. a \in Analyses
    BY <1>3, DeclaredAnalyses
  <2>1. PICK code \in {200, 201} :
          /\ code = 201 <=> a \notin DOMAIN provision
          /\ request' = [request EXCEPT ![r].pc = "publish", ![r].status = code]
    <3>1. PICK code : code = StatusOf(EnableOutcome(a))
      OBVIOUS
    <3>2. code \in {200, 201} /\ (code = 201 <=> a \notin DOMAIN provision)
      <4>1. PICK t \in BOOLEAN : t <=> a \in DOMAIN provision
        OBVIOUS
      <4>2. EnableOutcome(a) = [already_provisioned |-> t]
        BY <4>1, Zenon DEF EnableOutcome
      <4>3. code = IF t THEN 200 ELSE 201
        BY <3>1, <4>2 DEF StatusOf
      <4> QED BY <4>1, <4>3
    <3>3. request' = [request EXCEPT ![r].pc = "publish", ![r].status = code]
      BY <1>1, <1>3, <3>1 DEF EnableAnalysis
    <3> QED BY <3>2, <3>3
  <2>2. provision' = _ENABLE(a, z)
    BY <1>1, <1>3 DEF EnableAnalysis
  <2>3. /\ DOMAIN provision' = DOMAIN provision \cup {a}
        /\ \A b \in DOMAIN provision : provision'[b] = provision[b]
        /\ a \notin DOMAIN provision => provision'[a] \in Provision /\ provision'[a].timezone = z
    BY <1>0, <1>1, <2>2 DEF _ENABLE, Provision, ConsoleInv
  <2>4. ProvisionInv'
    BY <2>0, <2>3 DEF ConsoleInv, ProvisionInv
  <2>5. /\ request' \in [Requests -> RequestRows]
        /\ \A q \in Requests \ {r} : request'[q] = request[q]
        /\ request'[r].analysis = a /\ request'[r].timezone = z
        /\ request'[r].pc = "publish" /\ request'[r].status = code
    BY <1>0, <1>1, <2>1 DEF RequestRows, RequestPoints, Answers
  <2>6. RequestInv'
    BY <2>5 DEF ConsoleInv, RequestInv
  <2>7. \A q \in Requests \ {r} :
          request[q].status = 201 /\ request[q].analysis = a => a \in DOMAIN provision
    BY DEF ConsoleInv, EnablesAreHonest
  <2>8. EnablesAreHonest'
    BY <2>0, <2>1, <2>3, <2>5, <2>7 DEF ConsoleInv, EnablesAreHonest
  <2>9. NoticeInv'
    BY <1>0, <2>5 DEF NoticeInv
  <2> QED BY <1>0, <2>4, <2>6, <2>8, <2>9 DEF ConsoleInv
<1> QED BY <1>2, <1>3

\* The notice is published, or its publication fails.
LEMMA PublishStep ==
    ASSUME AxonInv, ConsoleInv, NoticeInv, NEW r \in Requests, PublishNotice(r),
           UNCHANGED <<stage, mails, ledger>>
    PROVE  AxonInv' /\ ConsoleInv' /\ NoticeInv'
<1> USE SynapseAssumption
<1>0. /\ UNCHANGED <<now, provision>> /\ request[r].pc = "publish"
      /\ request[r].status \in {200, 201} /\ request \in [Requests -> RequestRows]
      /\ request' = [request EXCEPT ![r].pc = "answered"]
  BY DEF PublishNotice, consoleUnchanged, worldVars, ConsoleInv, RequestInv
<1>1. \A q \in Requests : Notice[q] \in Messages /\ (Notice[q] = Notice[r] => q = r)
  BY AxonAssumption DEF IsInjective
<1>2. AxonInv' /\ \A m \in Messages : msg'[m] # "absent" => msg[m] # "absent" \/ m = Notice[r]
  <2>1. CASE Enqueue(Notice[r]) /\ UNCHANGED loopVars
    <3>1. AxonInv'
      BY <1>1, <2>1, BrokerStep DEF Enqueue
    <3> QED BY <2>1, <3>1 DEF Enqueue, AxonInv, AxonTypeOK, SubTypeOK
  <2>2. CASE UNCHANGED subVars
    <3>1. AxonInv'
      BY <2>2 DEF AxonInv, AxonTypeOK, SubTypeOK, AttemptsInv, SenderInv, MailInv, MayMail,
                  AckedIsRecorded, AcceptedWasMailed, UndeliverableIsLeft, subVars
    <3> QED BY <2>2, <3>1 DEF subVars
  <2> QED BY <2>1, <2>2 DEF PublishNotice
<1>3. /\ request' \in [Requests -> RequestRows]
      /\ \A q \in Requests : /\ request'[q].status = request[q].status
                             /\ request'[q].analysis = request[q].analysis
                             /\ request'[q].timezone = request[q].timezone
      /\ request'[r].pc = "answered" /\ \A q \in Requests \ {r} : request'[q] = request[q]
  BY <1>0 DEF RequestRows, RequestPoints
<1>4. ConsoleInv'
  BY <1>0, <1>3 DEF ConsoleInv, ProvisionInv, RequestInv, EnablesAreHonest
<1>5. NoticeInv'
  BY <1>0, <1>1, <1>2, <1>3 DEF NoticeInv
<1> QED BY <1>2, <1>4, <1>5

-----------------------------------------------------------------------------
(* The orchestrator. *)

Planning == {"next", "resolve", "probe", "universe", "plan"}
Busy == {"resolve", "probe", "universe", "plan", "append", "complete"}
JobFields ==
    {"pc", "attempt", "now", "todo", "analysis", "slot", "counts", "fetches", "universe", "proposed",
     "pending", "refusals", "appended", "outcome", "results"}

PairOf(x) == <<x.analysis, x.slot>>

\* The plan of an execution: computed for its slot, and in the log but for what is pending.
Planned(x) ==
    /\ x.proposed \in attempted[PairOf(x)]
    /\ \A y \in x.proposed : y.analysis = x.analysis /\ y.as_of = x.slot /\ y.sku \in Skus
    /\ x.pending \subseteq x.proposed
    /\ \A y \in x.proposed \ x.pending : Logged(y)
    /\ x.appended + Cardinality(x.pending) <= Cardinality(x.proposed)

\* What an execution reports is finished, as reported or as another one left it.
ReportInv(results) ==
    \A r \in results :
      /\ r.pair \in Pairs /\ run[r.pair] # Null /\ run[r.pair].outcome # Null
      /\ run[r.pair].outcome = r.outcome \/ r.pair \in rewritten

\* The locals of an execution: what it is made of, ...
LocalsInv(x) ==
    /\ DOMAIN x = JobFields
    /\ x.attempt \in 0..(MaxRetries + 1)
    /\ x.pc = "idle" => x.attempt = 0
    /\ x.pc = "retry" => x.attempt <= MaxRetries
    /\ DOMAIN x.todo \subseteq Analyses
    /\ \A a \in DOMAIN x.todo : x.todo[a].timezone \in Timezones
    /\ x.pc \in Busy \cup {"next"} => x.now \in StartNow..MaxNow
    /\ x.refusals \in Refusals
    /\ IsFiniteSet(x.proposed)
    /\ x.appended \in Nat
    /\ x.pc \in Planning => x.outcome = "satisfied" /\ x.appended = 0
    /\ x.pc = "plan" => DOMAIN x.universe \subseteq Skus
    /\ x.pc = "append" => x.outcome = "satisfied" /\ x.pending # {}
    /\ x.pc = "complete" => x.outcome \in Outcomes /\ (x.outcome = "satisfied" => x.pending = {})
    /\ x.pc = "green" => \A r \in x.results : r.outcome # "failed"

\* ... and what they say of the tables.
SlotInv(x) ==
    /\ x.pc \in Busy => PairOf(x) \in Pairs /\ run[PairOf(x)] # Null
    /\ x.pc = "append" \/ (x.pc = "complete" /\ x.outcome = "satisfied") => Planned(x)
    /\ ReportInv(x.results)

RunInv ==
    /\ run \in [Pairs -> RunRows \cup {Null}]
    /\ DOMAIN attempted = Pairs
    /\ SatisfiedIsAppended
    /\ ActionsAreClaimed
    /\ \A x \in actions : x.sku \in Skus

SweepInv ==
    /\ RunInv
    /\ DOMAIN positions \subseteq Skus
    /\ lines \in Seq(SaleRows)
    /\ DOMAIN job = Jobs
    /\ \A j \in Jobs : LocalsInv(job[j]) /\ SlotInv(job[j])

\* Rows are claimed and finished for good, and plans, actions and rewritten slots add up.
Accrues ==
    /\ \A p \in Pairs :
         /\ run[p] # Null => /\ run'[p] # Null
                             /\ run[p].outcome # Null =>
                                  /\ run'[p].outcome # Null
                                  /\ run'[p].outcome = run[p].outcome \/ p \in rewritten'
         /\ attempted[p] \subseteq attempted'[p]
    /\ actions \subseteq actions'
    /\ rewritten \subseteq rewritten'

LEMMA LoggedStays == ASSUME actions \subseteq actions', NEW y, Logged(y) PROVE Logged(y)'
BY DEF Logged, IdempotencyKey, payload_hash

\* An execution that does not move keeps what it says of the tables.
LEMMA SlotStays ==
    ASSUME Accrues, NEW x, SlotInv(x)
    PROVE  SlotInv(x)'
<1>1. x.pc \in Busy => PairOf(x) \in Pairs /\ run'[PairOf(x)] # Null
  BY DEF SlotInv, Accrues
<1>2. ASSUME Planned(x), PairOf(x) \in Pairs PROVE Planned(x)'
  <2>1. x.proposed \in attempted'[PairOf(x)]
    BY <1>2 DEF Planned, Accrues
  <2>2. \A y \in x.proposed \ x.pending : Logged(y)'
    BY <1>2, LoggedStays DEF Planned, Accrues
  <2> QED BY <1>2, <2>1, <2>2 DEF Planned, PairOf
<1>3. ReportInv(x.results)'
  BY DEF SlotInv, ReportInv, Accrues
<1> QED BY <1>1, <1>2, <1>3 DEF SlotInv, Busy, PairOf

\* One execution moves.
LEMMA JobMoves ==
    ASSUME SweepInv, Accrues, RunInv', NEW j \in Jobs, NEW x, LocalsInv(x), SlotInv(x)',
           job' = [job EXCEPT ![j] = x], UNCHANGED <<positions, lines>>
    PROVE  SweepInv'
<1>1. DOMAIN job' = Jobs
  BY DEF SweepInv
<1>2. ASSUME NEW i \in Jobs PROVE LocalsInv(job[i])' /\ SlotInv(job[i])'
  <2>1. PICK y : y = IF i = j THEN x ELSE job[i]
    OBVIOUS
  <2>2. LocalsInv(y) /\ SlotInv(y)'
    <3>1. CASE i = j
      BY <2>1, <3>1
    <3>2. CASE i # j
      BY <2>1, <3>2, SlotStays DEF SweepInv
    <3> QED BY <3>1, <3>2
  <2>3. job'[i] = y
    BY <2>1 DEF SweepInv
  <2> QED BY <2>2, <2>3 DEF LocalsInv, SlotInv, Planned, PairOf, ReportInv
<1> QED BY <1>1, <1>2 DEF SweepInv

LEMMA LeastElement ==
    ASSUME NEW T \in SUBSET Nat, T # {}
    PROVE  \E x \in T : \A y \in T : x <= y
<1> DEFINE R == OpToRel(<, Nat)
<1>1. PICK x \in T : \A y \in T : ~ (<<y, x>> \in R)
  <2>1. IsWellFoundedOn(R, Nat)
    BY NatLessThanWellFounded
  <2> HIDE DEF R
  <2> QED BY <2>1, WFMin
<1>2. ASSUME NEW y \in T, y < x PROVE FALSE
  <2>1. <<y, x>> \in R
    BY <1>2 DEF OpToRel
  <2> QED BY <1>1, <2>1
<1> HIDE DEF R
<1> QED BY <1>2

-----------------------------------------------------------------------------
(* The plans. *)

LEMMA FindingsShape ==
    ASSUME NEW a, NEW universe, NEW survivors, NEW fetches, NEW asOf
    PROVE  LET f == FindingsOf(a, universe, survivors, fetches, asOf)
           IN  /\ DOMAIN f = DOMAIN universe
               /\ \A k \in DOMAIN f : f[k].refusal_reason \in RefusalReason \cup {Null}
<1> DEFINE f == FindingsOf(a, universe, survivors, fetches, asOf)
<1>1. CASE a = "dead_stock"
  <2>1. PICK selling, after, dead : f = evaluate_dead_stock(universe, selling, after, dead, asOf)
    BY <1>1 DEF FindingsOf, _plan_dead_stock
  <2>2. DOMAIN f = DOMAIN universe
    BY <2>1 DEF evaluate_dead_stock
  <2>3. ASSUME NEW k \in DOMAIN universe
        PROVE  f[k].refusal_reason \in RefusalReason \cup {Null}
    <3>1. PICK feed : feed = _feed_refusal(selling, dead, asOf)
      OBVIOUS
    <3>2. PICK stock : stock = _stock_refusal(universe[k])
      OBVIOUS
    <3>3. feed \in RefusalReason \cup {Null} /\ stock \in RefusalReason \cup {Null}
      BY <3>1, <3>2 DEF _feed_refusal, _stock_refusal, RefusalReason
    <3>4. f[k].refusal_reason = IF feed # Null THEN feed ELSE stock
      BY <2>1, <3>1, <3>2 DEF evaluate_dead_stock, DeadStockRow
    <3> QED BY <3>3, <3>4
  <2> QED BY <2>2, <2>3
<1>2. CASE a # "dead_stock"
  <2>1. PICK series, t : f = evaluate_stockout_risk(universe, series, t, asOf)
    BY <1>2 DEF FindingsOf, _plan_stockout_risk
  <2>2. DOMAIN f = DOMAIN universe
    BY <2>1 DEF evaluate_stockout_risk
  <2>3. ASSUME NEW k \in DOMAIN universe
        PROVE  f[k].refusal_reason \in RefusalReason \cup {Null}
    <3>1. PICK seen : f[k] = _assess(universe[k], seen, t, asOf)
      BY <2>1 DEF evaluate_stockout_risk
    <3>2. PICK refusal : refusal = _refusal(universe[k], seen, t, asOf)
      OBVIOUS
    <3>3. refusal \in RefusalReason \cup {Null}
      BY <3>2 DEF _refusal, RefusalReason
    <3>4. f[k].refusal_reason = IF refusal # Null THEN refusal ELSE Null
      BY <3>1, <3>2 DEF _assess, StockoutRiskRow
    <3> QED BY <3>3, <3>4
  <2> QED BY <2>2, <2>3
<1> QED BY <1>1, <1>2

\* What a plan returns: actions of its analysis and date, one per SKU at most, and counts.
LEMMA PlanShape ==
    ASSUME NEW a \in Analyses, NEW universe, DOMAIN universe \subseteq Skus, NEW survivors,
           NEW fetches, NEW asOf, NEW result,
           result = PlanResult(a, universe, FindingsOf(a, universe, survivors, fetches, asOf), asOf)
    PROVE  /\ \A x \in result.actions : x.analysis = a /\ x.as_of = asOf /\ x.sku \in Skus
           /\ IsFiniteSet(result.actions)
           /\ result.refusals \in Refusals
<1>1. PICK f : /\ f = FindingsOf(a, universe, survivors, fetches, asOf)
               /\ DOMAIN f = DOMAIN universe
               /\ \A k \in DOMAIN f : f[k].refusal_reason \in RefusalReason \cup {Null}
  BY FindingsShape
<1>2. IsFiniteSet(DOMAIN f) /\ DOMAIN f \subseteq Skus
  BY <1>1, SynapseAssumption, FS_Subset
<1>3. PICK K, measure :
        /\ K \subseteq DOMAIN f
        /\ result.actions = {Action(a, k, asOf, universe[k], measure[k]) : k \in K}
  <2>1. CASE a = "dead_stock"
    <3> DEFINE dead == {k \in DOMAIN f : f[k].is_dead_stock}
               days == [k \in dead |-> f[k].days_since_last_sale]
    <3>1. result.actions = {Action(a, k, asOf, universe[k], days[k]) : k \in dead}
      BY <1>1, <2>1 DEF PlanResult, propose_dead_stock_actions
    <3>2. dead \subseteq DOMAIN f
      OBVIOUS
    <3> HIDE DEF dead, days
    <3> WITNESS dead, days
    <3> QED BY <3>1, <3>2
  <2>2. CASE a = "stockout_risk"
    <3> DEFINE atRisk == {k \in DOMAIN f : f[k].is_at_risk}
               cover == [k \in atRisk |-> f[k].days_of_cover]
    <3>1. result.actions = {Action(a, k, asOf, universe[k], cover[k]) : k \in atRisk}
      BY <1>1, <2>2 DEF PlanResult, propose_stockout_actions
    <3>2. atRisk \subseteq DOMAIN f
      OBVIOUS
    <3> HIDE DEF atRisk, cover
    <3> WITNESS atRisk, cover
    <3> QED BY <3>1, <3>2
  <2> QED BY <2>1, <2>2 DEF Analyses
<1>4. \A x \in result.actions : x.analysis = a /\ x.as_of = asOf /\ x.sku \in Skus
  BY <1>2, <1>3 DEF Action
<1>5. IsFiniteSet(result.actions)
  <2>1. IsFiniteSet(K)
    BY <1>2, <1>3, FS_Subset
  <2>2. [k \in K |-> Action(a, k, asOf, universe[k], measure[k])] \in Surjection(K, result.actions)
    BY <1>3 DEF Surjection
  <2> QED BY <2>1, <2>2, FS_Surjection
<1>6. result.refusals \in Refusals
  <2>1. result.refusals = counts_by_reason(f)
    BY <1>1 DEF PlanResult
  <2>2. Reasons(f) \in SUBSET RefusalReason
    BY <1>1 DEF Reasons
  <2>3. ASSUME NEW r \in Reasons(f)
        PROVE  Cardinality({k \in DOMAIN f : f[k].refusal_reason = r}) \in Nat
    BY <1>2, FS_Subset, FS_CardinalityType
  <2>4. counts_by_reason(f) \in [Reasons(f) -> Nat]
    BY <2>3 DEF counts_by_reason
  <2> QED BY <2>1, <2>2, <2>4 DEF Refusals
<1> QED BY <1>4, <1>5, <1>6

-----------------------------------------------------------------------------
(* The steps of an execution. *)

tables == <<run, actions, attempted, rewritten>>

LEMMA TablesStay ==
    ASSUME SweepInv, UNCHANGED tables
    PROVE  Accrues /\ RunInv' /\ \A x : SlotInv(x) => SlotInv(x)'
<1>1. Accrues
  BY DEF tables, Accrues
<1>2. RunInv'
  BY DEF tables, SweepInv, RunInv, SatisfiedIsAppended, ActionsAreClaimed, Logged
<1> QED BY <1>1, <1>2, SlotStays

\* An execution that has not begun, or has ended, or is between two analyses.
Resting(x) ==
    /\ DOMAIN x = JobFields
    /\ x.pc \in {"idle", "next", "retry", "red", "green"} /\ x.attempt \in 0..(MaxRetries + 1)
    /\ x.refusals = <<>> /\ x.proposed = {} /\ x.appended = 0 /\ x.outcome = "satisfied"

LEMMA RestingLocals ==
    ASSUME NEW x, Resting(x),
           x.pc = "idle" => x.attempt = 0,
           x.pc = "retry" => x.attempt <= MaxRetries,
           x.pc = "next" => x.now \in StartNow..MaxNow,
           x.pc = "green" => \A r \in x.results : r.outcome # "failed",
           DOMAIN x.todo \subseteq Analyses,
           \A a \in DOMAIN x.todo : x.todo[a].timezone \in Timezones
    PROVE  LocalsInv(x)
<1>1. <<>> \in Refusals /\ IsFiniteSet({}) /\ 0 \in Nat
  BY FS_EmptySet DEF Refusals
<1>2. x.pc \notin Busy /\ x.pc \notin {"plan", "append", "complete"}
  BY DEF Resting, Busy
<1> QED BY <1>1, <1>2 DEF Resting, LocalsInv

LEMMA RestingRow ==
    ASSUME NEW x, Resting(x),
           x.pc = "idle" => x.attempt = 0,
           x.pc = "retry" => x.attempt <= MaxRetries,
           x.pc = "next" => x.now \in StartNow..MaxNow,
           x.pc = "green" => \A r \in x.results : r.outcome # "failed",
           DOMAIN x.todo \subseteq Analyses,
           \A a \in DOMAIN x.todo : x.todo[a].timezone \in Timezones,
           ReportInv(x.results)
    PROVE  LocalsInv(x) /\ SlotInv(x)
<1>1. LocalsInv(x)
  BY RestingLocals
<1>2. SlotInv(x)
  BY DEF SlotInv, Resting, Busy
<1> QED BY <1>1, <1>2

LEMMA SweepInitInv == Init => SweepInv
<1> SUFFICES ASSUME Init PROVE SweepInv
  OBVIOUS
<1> USE SynapseAssumption
<1>1. RunInv
  BY DEF Init, RunInv, SatisfiedIsAppended, ActionsAreClaimed
<1>2. DOMAIN positions \subseteq Skus /\ lines \in Seq(SaleRows)
  <2>1. PICK w \in Workloads : positions = w.positions /\ lines = w.lines
    BY DEF Init
  <2> QED BY <2>1, WorkloadsAssumption
<1>3. LocalsInv(Idle) /\ SlotInv(Idle)
  <2>1. PICK x : x = Idle
    OBVIOUS
  <2>2. Resting(x) /\ x.pc = "idle" /\ x.attempt = 0 /\ x.todo = <<>> /\ x.results = {}
    BY <2>1 DEF Idle, Resting, JobFields
  <2>3. ReportInv({}) /\ DOMAIN <<>> = {}
    BY DEF ReportInv
  <2>4. LocalsInv(x) /\ SlotInv(x)
    BY <2>2, <2>3, RestingRow
  <2> QED BY <2>1, <2>4
<1>4. DOMAIN job = Jobs /\ \A j \in Jobs : job[j] = Idle
  BY DEF Init
<1> QED BY <1>1, <1>2, <1>3, <1>4 DEF SweepInv

\* active() is read, and the sweep begins or is refused.
LEMMA StartSweepStep ==
    ASSUME SweepInv, ConsoleInv, NEW j \in Jobs, StartSweep(j)
    PROVE  SweepInv'
<1> USE SynapseAssumption
<1>0. UNCHANGED tables /\ UNCHANGED <<positions, lines>>
  BY DEF StartSweep, jobUnchanged, worldVars, tables
<1>1. PICK n : n = job[j].attempt + 1 /\ n \in 0..(MaxRetries + 1)
  BY DEF StartSweep, SweepInv, LocalsInv
<1>2. PICK todo : todo = [a \in Active |-> provision[a]]
  OBVIOUS
<1>3. DOMAIN todo \subseteq Analyses /\ \A a \in DOMAIN todo : todo[a].timezone \in Timezones
  BY <1>2 DEF Active, ConsoleInv, ProvisionInv, Provision
<1>4. ReportInv({})
  BY DEF ReportInv
<1>5. PICK x : LocalsInv(x) /\ SlotInv(x) /\ job' = [job EXCEPT ![j] = x]
  <2>1. CASE WithinEnvelope
    <3>1. PICK x : x = [Idle EXCEPT !.pc = "next", !.attempt = n, !.now = now, !.todo = todo]
      OBVIOUS
    <3>2. /\ Resting(x) /\ x.pc = "next" /\ x.attempt = n /\ x.now = now /\ x.todo = todo
          /\ x.results = {}
      BY <1>1, <3>1 DEF Idle, Resting, JobFields
    <3>3. LocalsInv(x) /\ SlotInv(x)
      BY <1>1, <1>3, <1>4, <3>2, RestingRow DEF ConsoleInv
    <3>4. job' = [job EXCEPT ![j] = x]
      BY <1>1, <1>2, <2>1, <3>1 DEF StartSweep
    <3> QED BY <3>3, <3>4
  <2>2. CASE ~WithinEnvelope
    <3>1. PICK pc : pc = (IF n <= MaxRetries THEN "retry" ELSE "red")
      OBVIOUS
    <3>2. PICK x : x = [Idle EXCEPT !.pc = pc, !.attempt = n]
      OBVIOUS
    <3>3. Resting(x) /\ x.pc = pc /\ x.attempt = n /\ x.todo = <<>> /\ x.results = {}
      BY <1>1, <3>1, <3>2 DEF Idle, Resting, JobFields
    <3>4. DOMAIN <<>> = {}
      OBVIOUS
    <3>5. LocalsInv(x) /\ SlotInv(x)
      BY <1>1, <1>4, <3>1, <3>3, <3>4, RestingRow
    <3>6. job' = [job EXCEPT ![j] = x]
      BY <1>1, <2>2, <3>1, <3>2 DEF StartSweep
    <3> QED BY <3>5, <3>6
  <2> QED BY <2>1, <2>2
<1> QED BY <1>0, <1>5, TablesStay, JobMoves

\* The sweep is done, or the process dies.
LEMMA EndStep ==
    ASSUME SweepInv, NEW j \in Jobs, Finish(j) \/ Crash(j)
    PROVE  SweepInv'
<1> USE SynapseAssumption
<1>0. UNCHANGED tables /\ UNCHANGED <<positions, lines>>
  BY DEF Finish, Crash, jobUnchanged, worldVars, tables
<1>1. PICK n \in 0..(MaxRetries + 1) : n = job[j].attempt
  BY DEF SweepInv, LocalsInv
<1> DEFINE EndsAs(at, told) ==
             /\ at \in {"retry", "red", "green"}
             /\ job' = [job EXCEPT ![j] = [Idle EXCEPT !.pc = at, !.attempt = n, !.results = told]]
             /\ ReportInv(told)
             /\ at = "retry" => n <= MaxRetries
             /\ at = "green" => \A r \in told : r.outcome # "failed"
<1>2. PICK pc, results : EndsAs(pc, results)
  <2>1. CASE Finish(j)
    <3>1. PICK report : report = job[j].results
      OBVIOUS
    <3>2. ReportInv(report)
      BY <3>1 DEF SweepInv, SlotInv
    <3>3. PICK green \in BOOLEAN : green <=> \A r \in report : r.outcome # "failed"
      OBVIOUS
    <3>4. PICK end : end = IF green THEN "green" ELSE IF n <= MaxRetries THEN "retry" ELSE "red"
      OBVIOUS
    <3>5. job' = [job EXCEPT ![j] = [Idle EXCEPT !.pc = end, !.attempt = n, !.results = report]]
      BY <1>1, <2>1, <3>1, <3>3, <3>4 DEF Finish, Ended
    <3>6. /\ end \in {"retry", "red", "green"}
          /\ end = "retry" => n <= MaxRetries
          /\ end = "green" => \A r \in report : r.outcome # "failed"
      BY <3>3, <3>4
    <3>7. EndsAs(end, report)
      BY <3>2, <3>5, <3>6
    <3> HIDE DEF EndsAs
    <3> QED BY <3>7
  <2>2. CASE Crash(j)
    <3>1. PICK end : end = IF n <= MaxRetries THEN "retry" ELSE "red"
      OBVIOUS
    <3>2. job' = [job EXCEPT ![j] = [Idle EXCEPT !.pc = end, !.attempt = n, !.results = {}]]
      BY <1>1, <2>2, <3>1 DEF Crash, Ended
    <3>3. ReportInv({}) /\ end \in {"retry", "red"} /\ (end = "retry" => n <= MaxRetries)
      BY <3>1 DEF ReportInv
    <3>4. EndsAs(end, {})
      BY <3>2, <3>3
    <3> HIDE DEF EndsAs
    <3> QED BY <3>4
  <2> QED BY <2>1, <2>2
<1>3. PICK x : x = [Idle EXCEPT !.pc = pc, !.attempt = n, !.results = results]
  OBVIOUS
<1>4. Resting(x) /\ x.pc = pc /\ x.attempt = n /\ x.todo = <<>> /\ x.results = results
  BY <1>1, <1>2, <1>3 DEF Idle, Resting, JobFields
<1>5. DOMAIN <<>> = {}
  OBVIOUS
<1>6. LocalsInv(x) /\ SlotInv(x)
  BY <1>1, <1>2, <1>4, <1>5, RestingRow
<1> QED BY <1>0, <1>2, <1>3, <1>6, TablesStay, JobMoves

\* The parts of its row that an execution keeps while it works on an analysis.
Keeps(x, s) ==
    /\ DOMAIN x = DOMAIN s
    /\ x.attempt = s.attempt /\ x.now = s.now /\ x.todo = s.todo /\ x.results = s.results
    /\ x.analysis = s.analysis /\ x.slot = s.slot

\* It goes on towards its plan, or ends without one.
LEMMA RowGoesOn ==
    ASSUME NEW s, LocalsInv(s), SlotInv(s), s.pc \in Busy, NEW x, Keeps(x, s),
           x.refusals = s.refusals, x.proposed = s.proposed,
           \/ /\ s.pc \in Planning /\ x.pc \in {"probe", "universe", "plan"}
              /\ x.outcome = s.outcome /\ x.appended = s.appended
              /\ x.pc = "plan" => DOMAIN x.universe \subseteq Skus
           \/ /\ x.pc = "complete" /\ x.outcome \in {"failed", "blocked"}
              /\ x.appended \in {0, s.appended}
    PROVE  LocalsInv(x) /\ SlotInv(x)
<1>1. x.pc \in Busy /\ PairOf(x) = PairOf(s)
  BY DEF Busy, PairOf, Keeps
<1>2. LocalsInv(x)
  BY DEF LocalsInv, Keeps, Busy, Planning, Outcomes
<1>3. SlotInv(x)
  BY <1>1 DEF SlotInv, Keeps
<1> QED BY <1>2, <1>3

\* Resolve, probe, fetch the universe, fail.
LEMMA TowardsPlanStep ==
    ASSUME SweepInv, NEW j \in Jobs,
           Resolve(j) \/ Probe(j) \/ FetchUniverse(j) \/ AnalysisFails(j)
    PROVE  SweepInv'
<1>0. UNCHANGED tables /\ UNCHANGED <<positions, lines>>
  BY DEF Resolve, Probe, FetchUniverse, AnalysisFails, jobUnchanged, worldVars, tables
<1>1. PICK s : s = job[j] /\ LocalsInv(s) /\ SlotInv(s) /\ DOMAIN s = JobFields
  BY DEF SweepInv, LocalsInv
<1>2. s.pc \in Busy
  BY <1>1 DEF Resolve, Probe, FetchUniverse, AnalysisFails, Busy
<1>3. PICK x :
        /\ job' = [job EXCEPT ![j] = x]
        /\ Keeps(x, s) /\ x.refusals = s.refusals /\ x.proposed = s.proposed
        /\ \/ /\ s.pc \in Planning /\ x.pc \in {"probe", "universe", "plan"}
              /\ x.outcome = s.outcome /\ x.appended = s.appended
              /\ x.pc = "plan" => DOMAIN x.universe \subseteq Skus
           \/ /\ x.pc = "complete" /\ x.outcome \in {"failed", "blocked"}
              /\ x.appended \in {0, s.appended}
  <2>1. CASE AnalysisFails(j)
    <3>1. PICK x : x = [s EXCEPT !.pc = "complete", !.outcome = "failed", !.appended = 0,
                                 !.pending = {}, !.counts = Null]
      OBVIOUS
    <3>2. /\ Keeps(x, s) /\ x.refusals = s.refusals /\ x.proposed = s.proposed
          /\ x.pc = "complete" /\ x.outcome = "failed" /\ x.appended = 0
      BY <1>1, <3>1 DEF Keeps, JobFields
    <3>3. job' = [job EXCEPT ![j] = x]
      BY <1>1, <2>1, <3>1 DEF AnalysisFails
    <3> QED BY <3>2, <3>3
  <2>2. CASE FetchUniverse(j)
    <3>1. PICK x : x = [s EXCEPT !.pc = "plan", !.universe = positions]
      OBVIOUS
    <3>2. /\ Keeps(x, s) /\ x.refusals = s.refusals /\ x.proposed = s.proposed
          /\ x.pc = "plan" /\ x.outcome = s.outcome /\ x.appended = s.appended
          /\ x.universe = positions
      BY <1>1, <3>1 DEF Keeps, JobFields
    <3>3. job' = [job EXCEPT ![j] = x] /\ s.pc \in Planning
      BY <1>1, <2>2, <3>1 DEF FetchUniverse, Planning
    <3> QED BY <3>2, <3>3 DEF SweepInv
  <2>3. ASSUME NEW outcome \in {"failed", "blocked"}, NEW x, x = Ends(j, outcome)
        PROVE  /\ Keeps(x, s) /\ x.refusals = s.refusals /\ x.proposed = s.proposed
               /\ x.pc = "complete" /\ x.outcome \in {"failed", "blocked"}
               /\ x.appended \in {0, s.appended}
    <3>1. x = [s EXCEPT !.pc = "complete", !.outcome = outcome, !.counts = Null]
      BY <1>1, <2>3 DEF Ends
    <3> QED BY <1>1, <3>1 DEF Keeps, JobFields
  <2>4. ASSUME NEW fetches, NEW x, x = [s EXCEPT !.pc = "universe", !.fetches = fetches, !.counts = Null]
        PROVE  /\ Keeps(x, s) /\ x.refusals = s.refusals /\ x.proposed = s.proposed
               /\ x.pc = "universe" /\ x.outcome = s.outcome /\ x.appended = s.appended
    BY <1>1, <2>4 DEF Keeps, JobFields
  <2>5. ASSUME NEW observed, NEW x, x = Resolved(j, observed)
        PROVE  \/ \E outcome \in {"failed", "blocked"} : x = Ends(j, outcome)
               \/ \E fetches : x = [s EXCEPT !.pc = "universe", !.fetches = fetches, !.counts = Null]
    <3>1. PICK r : r = resolve_declaration(job[j].analysis, job[j].slot, observed)
      OBVIOUS
    <3>2. x = IF r = Raised THEN Ends(j, "failed")
              ELSE IF r.status = "blocked" THEN Ends(j, "blocked")
              ELSE [job[j] EXCEPT !.pc = "universe", !.fetches = r.fetches, !.counts = Null]
      BY <2>5, <3>1 DEF Resolved
    <3> QED BY <1>1, <3>2
  <2>6. CASE Resolve(j)
    <3>0. s.pc \in Planning
      BY <1>1, <2>6 DEF Resolve, Planning
    <3>1. PICK counts : job' = [job EXCEPT ![j] = IF Gates[job[j].analysis] = {} THEN Resolved(j, <<>>)
                                                  ELSE [@ EXCEPT !.pc = "probe", !.counts = counts]]
      BY <2>6 DEF Resolve
    <3>2. CASE Gates[job[j].analysis] = {}
      <4>1. PICK x : x = Resolved(j, <<>>)
        OBVIOUS
      <4>2. job' = [job EXCEPT ![j] = x]
        BY <3>1, <3>2, <4>1
      <4>3. \/ \E outcome \in {"failed", "blocked"} : x = Ends(j, outcome)
            \/ \E fetches : x = [s EXCEPT !.pc = "universe", !.fetches = fetches, !.counts = Null]
        BY <2>5, <4>1
      <4> QED BY <2>3, <2>4, <3>0, <4>2, <4>3
    <3>3. CASE Gates[job[j].analysis] # {}
      <4>1. PICK x : x = [s EXCEPT !.pc = "probe", !.counts = counts]
        OBVIOUS
      <4>2. /\ Keeps(x, s) /\ x.refusals = s.refusals /\ x.proposed = s.proposed
            /\ x.pc = "probe" /\ x.outcome = s.outcome /\ x.appended = s.appended
        BY <1>1, <4>1 DEF Keeps, JobFields
      <4>3. job' = [job EXCEPT ![j] = x]
        BY <1>1, <3>1, <3>3, <4>1
      <4> QED BY <3>0, <4>2, <4>3
    <3> QED BY <3>2, <3>3
  <2>7. CASE Probe(j)
    <3>0. s.pc \in Planning
      BY <1>1, <2>7 DEF Probe, Planning
    <3>1. PICK series : job' = [job EXCEPT ![j] =
                   IF ~Agrees(job[j].counts, series) THEN Ends(j, "failed")
                   ELSE Resolved(j, [min_history_days |-> Observation(job[j].counts, series)])]
      BY <2>7 DEF Probe
    <3>2. PICK observed : observed = [min_history_days |-> Observation(job[j].counts, series)]
      OBVIOUS
    <3>3. PICK x : /\ job' = [job EXCEPT ![j] = x]
                   /\ x = Ends(j, "failed") \/ x = Resolved(j, observed)
      BY <3>1, <3>2
    <3>4. \/ \E outcome \in {"failed", "blocked"} : x = Ends(j, outcome)
          \/ \E fetches : x = [s EXCEPT !.pc = "universe", !.fetches = fetches, !.counts = Null]
      BY <2>5, <3>3
    <3> QED BY <2>3, <2>4, <3>0, <3>3, <3>4
  <2> QED BY <2>1, <2>2, <2>6, <2>7
<1>4. LocalsInv(x) /\ SlotInv(x)
  BY <1>1, <1>2, <1>3, RowGoesOn
<1> QED BY <1>0, <1>3, <1>4, TablesStay, JobMoves

\* A slot is claimed, taken over, or skipped because it is finished.
LEMMA ClaimStep ==
    ASSUME SweepInv, NEW j \in Jobs, Claim(j)
    PROVE  SweepInv'
<1>0. UNCHANGED <<actions, attempted, rewritten, positions, lines>>
  BY DEF Claim, jobUnchanged, worldVars
<1>1. PICK s : s = job[j] /\ LocalsInv(s) /\ SlotInv(s) /\ DOMAIN s = JobFields /\ s.pc = "next"
  BY DEF Claim, SweepInv, LocalsInv
<1>2. PICK a \in DOMAIN s.todo : a = NextUp(j) /\ a \in Analyses
  BY <1>1 DEF Claim, NextUp, First, LocalsInv, Analyses
<1>3. PICK slot \in Slots : slot = NextSlot(j)
  <2>1. s.todo[a].timezone \in Timezones /\ s.now \in StartNow..MaxNow
    BY <1>1, <1>2 DEF LocalsInv
  <2> QED BY <1>1, <1>2, <2>1 DEF NextSlot, Slots
<1>4. PICK p \in Pairs : p = <<a, slot>> /\ p[1] = a /\ p[2] = slot
  <2>1. <<a, slot>> \in Pairs /\ <<a, slot>>[1] = a /\ <<a, slot>>[2] = slot
    BY <1>2, <1>3 DEF Pairs
  <2> QED BY <2>1, Zenon
<1>5. PICK row \in RunRows :
        /\ row = [outcome |-> Null, proposed |-> 0, appended |-> 0, refusals |-> <<>>,
                  rung |-> "shadow", timezone |-> s.todo[a].timezone]
        /\ row.outcome = Null
  <2>1. PICK z \in Timezones : z = s.todo[a].timezone
    BY <1>1, <1>2 DEF LocalsInv
  <2>2. <<>> \in Refusals
    BY DEF Refusals
  <2> DEFINE row == [outcome |-> Null, proposed |-> 0, appended |-> 0, refusals |-> <<>>,
                     rung |-> "shadow", timezone |-> z]
  <2>3. row \in RunRows
    BY <2>2 DEF RunRows
  <2>4. row.outcome = Null
    OBVIOUS
  <2>5. row = [outcome |-> Null, proposed |-> 0, appended |-> 0, refusals |-> <<>>,
               rung |-> "shadow", timezone |-> s.todo[a].timezone]
    BY <2>1
  <2> HIDE DEF row
  <2> QED BY <2>3, <2>4, <2>5
<1>6. run' = IF run[p] # Null THEN run ELSE [run EXCEPT ![p] = row]
  BY <1>1, <1>2, <1>3, <1>4, <1>5 DEF Claim
<1>7. run \in [Pairs -> RunRows \cup {Null}]
  BY DEF SweepInv, RunInv
<1>8. /\ run' \in [Pairs -> RunRows \cup {Null}] /\ run'[p] # Null
      /\ \A q \in Pairs : run[q] # Null => run'[q] = run[q]
      /\ \A q \in Pairs : run'[q] # Null /\ run'[q].outcome # Null => run'[q] = run[q]
  BY <1>4, <1>5, <1>6, <1>7, RunAssumption
<1>9. Accrues
  BY <1>0, <1>8 DEF Accrues
<1>10. RunInv'
  <2>1. SatisfiedIsAppended'
    BY <1>0, <1>8, RunAssumption DEF SweepInv, RunInv, SatisfiedIsAppended, Logged, Outcomes
  <2>2. ActionsAreClaimed'
    BY <1>0, <1>8 DEF SweepInv, RunInv, ActionsAreClaimed
  <2> QED BY <1>0, <1>8, <2>1, <2>2 DEF SweepInv, RunInv
<1>11. PICK todo : /\ todo = Without(s.todo, a) /\ DOMAIN todo \subseteq Analyses
                   /\ \A b \in DOMAIN todo : todo[b].timezone \in Timezones
  <2>1. /\ DOMAIN Without(s.todo, a) \subseteq DOMAIN s.todo
        /\ \A b \in DOMAIN Without(s.todo, a) : Without(s.todo, a)[b] = s.todo[b]
    BY DEF Without
  <2> QED BY <1>1, <2>1 DEF LocalsInv
<1>12. SlotInv(s)'
  BY <1>1, <1>9, SlotStays
<1>13. PICK x : job' = [job EXCEPT ![j] = x] /\ LocalsInv(x) /\ SlotInv(x)'
  <2>1. CASE run'[p].outcome = Null
    <3>1. PICK x : x = [s EXCEPT !.pc = "resolve", !.analysis = a, !.slot = slot, !.todo = todo]
      OBVIOUS
    <3>2. /\ DOMAIN x = JobFields /\ x.pc = "resolve" /\ x.analysis = a /\ x.slot = slot
          /\ x.todo = todo /\ x.attempt = s.attempt /\ x.now = s.now /\ x.results = s.results
          /\ x.refusals = s.refusals /\ x.proposed = s.proposed /\ x.appended = s.appended
          /\ x.outcome = s.outcome
      BY <1>1, <3>1 DEF JobFields
    <3>3. LocalsInv(x)
      BY <1>1, <1>11, <3>2 DEF LocalsInv, Planning
    <3>4. SlotInv(x)'
      BY <1>4, <1>8, <1>12, <3>2 DEF SlotInv, PairOf
    <3>5. job' = [job EXCEPT ![j] = x]
      BY <1>1, <1>2, <1>3, <1>4, <1>11, <2>1, <3>1 DEF Claim
    <3> QED BY <3>3, <3>4, <3>5
  <2>2. CASE run'[p].outcome # Null
    <3>1. PICK res : res = [pair |-> p, outcome |-> run[p].outcome]
      OBVIOUS
    <3>2. PICK x : x = [s EXCEPT !.todo = todo, !.results = @ \cup {res}]
      OBVIOUS
    <3>3. /\ DOMAIN x = JobFields /\ x.pc = "next" /\ x.todo = todo /\ x.attempt = s.attempt
          /\ x.now = s.now /\ x.results = s.results \cup {res} /\ x.refusals = s.refusals
          /\ x.proposed = s.proposed /\ x.appended = s.appended /\ x.outcome = s.outcome
      BY <1>1, <3>2 DEF JobFields
    <3>4. LocalsInv(x)
      BY <1>1, <1>11, <3>3 DEF LocalsInv, Planning
    <3>5. run'[p] = run[p] /\ res.pair = p /\ res.outcome = run[p].outcome
      BY <1>8, <2>2, <3>1
    <3>6. ReportInv(x.results)'
      BY <1>8, <1>12, <2>2, <3>3, <3>5 DEF SlotInv, ReportInv
    <3>7. SlotInv(x)'
      BY <3>3, <3>6 DEF SlotInv, Busy
    <3>8. job' = [job EXCEPT ![j] = x]
      BY <1>1, <1>2, <1>3, <1>4, <1>11, <2>2, <3>1, <3>2 DEF Claim
    <3> QED BY <3>4, <3>7, <3>8
  <2> QED BY <2>1, <2>2
<1> QED BY <1>0, <1>9, <1>10, <1>13, JobMoves

\* The plan is computed, with the slot for its date.
LEMMA PlanStep ==
    ASSUME SweepInv, NEW j \in Jobs, Plan(j)
    PROVE  SweepInv'
<1>0. UNCHANGED <<run, actions, rewritten, positions, lines>>
  BY DEF Plan, jobUnchanged, worldVars
<1>1. PICK s : s = job[j] /\ LocalsInv(s) /\ SlotInv(s) /\ DOMAIN s = JobFields /\ s.pc = "plan"
  BY DEF Plan, SweepInv, LocalsInv
<1>2. /\ DOMAIN s.universe \subseteq Skus /\ s.outcome = "satisfied" /\ s.appended = 0
      /\ PairOf(s) \in Pairs /\ run[PairOf(s)] # Null /\ s.analysis \in Analyses
  BY <1>1 DEF LocalsInv, SlotInv, Busy, Planning, Pairs, PairOf
<1>3. PICK survivors, result :
        /\ result = PlanResult(s.analysis, s.universe,
                      FindingsOf(s.analysis, s.universe, survivors, s.fetches, s.slot), s.slot)
        /\ job' = [job EXCEPT ![j] =
                     [@ EXCEPT !.pc = IF result.actions = {} THEN "complete" ELSE "append",
                               !.proposed = result.actions, !.pending = result.actions,
                               !.refusals = result.refusals]]
        /\ attempted' = [attempted EXCEPT ![<<job[j].analysis, job[j].slot>>] = @ \cup {result.actions}]
  <2>1. PICK survivors \in {collapse_latest_wins(lines)} :
        \E findings \in {FindingsOf(job[j].analysis, job[j].universe, survivors, job[j].fetches, AsOf(j))} :
        \E result \in {PlanResult(job[j].analysis, job[j].universe, findings, AsOf(j))} :
          /\ job' = [job EXCEPT ![j] =
                       [@ EXCEPT !.pc = IF result.actions = {} THEN "complete" ELSE "append",
                                 !.proposed = result.actions, !.pending = result.actions,
                                 !.refusals = result.refusals]]
          /\ attempted' = [attempted EXCEPT ![<<job[j].analysis, job[j].slot>>] = @ \cup {result.actions}]
    BY Zenon DEF Plan
  <2>2. PICK findings, result :
          /\ findings = FindingsOf(job[j].analysis, job[j].universe, survivors, job[j].fetches, AsOf(j))
          /\ result = PlanResult(job[j].analysis, job[j].universe, findings, AsOf(j))
          /\ job' = [job EXCEPT ![j] =
                       [@ EXCEPT !.pc = IF result.actions = {} THEN "complete" ELSE "append",
                                 !.proposed = result.actions, !.pending = result.actions,
                                 !.refusals = result.refusals]]
          /\ attempted' = [attempted EXCEPT ![<<job[j].analysis, job[j].slot>>] = @ \cup {result.actions}]
    BY <2>1
  <2>3. result = PlanResult(s.analysis, s.universe,
                   FindingsOf(s.analysis, s.universe, survivors, s.fetches, s.slot), s.slot)
    BY <1>1, <2>2 DEF AsOf
  <2> QED BY <2>2, <2>3
<1>4. PICK acts, refusals : acts = result.actions /\ refusals = result.refusals
  OBVIOUS
<1>5. /\ \A y \in acts : y.analysis = s.analysis /\ y.as_of = s.slot /\ y.sku \in Skus
      /\ IsFiniteSet(acts) /\ refusals \in Refusals
  BY <1>2, <1>3, <1>4, PlanShape
<1>6. DOMAIN attempted = Pairs
  BY DEF SweepInv, RunInv
<1>7. /\ attempted' = [attempted EXCEPT ![PairOf(s)] = @ \cup {acts}] /\ DOMAIN attempted' = Pairs
      /\ \A q \in Pairs : attempted[q] \subseteq attempted'[q]
      /\ acts \in attempted'[PairOf(s)]
  BY <1>1, <1>2, <1>3, <1>4, <1>6 DEF PairOf
<1>8. Accrues
  BY <1>0, <1>7 DEF Accrues
<1>9. RunInv'
  <2>1. SatisfiedIsAppended'
    BY <1>0, <1>7 DEF SweepInv, RunInv, SatisfiedIsAppended, Logged
  <2>2. ActionsAreClaimed'
    BY <1>0, <1>7 DEF SweepInv, RunInv, ActionsAreClaimed
  <2> QED BY <1>0, <1>7, <2>1, <2>2 DEF SweepInv, RunInv
<1>10. PICK pc : pc = IF acts = {} THEN "complete" ELSE "append"
  OBVIOUS
<1>11. PICK x : x = [s EXCEPT !.pc = pc, !.proposed = acts, !.pending = acts, !.refusals = refusals]
  OBVIOUS
<1>12. /\ DOMAIN x = JobFields /\ x.pc = pc /\ x.proposed = acts /\ x.pending = acts
       /\ x.refusals = refusals /\ x.attempt = s.attempt /\ x.now = s.now /\ x.todo = s.todo
       /\ x.results = s.results /\ x.analysis = s.analysis /\ x.slot = s.slot
       /\ x.outcome = s.outcome /\ x.appended = 0
  BY <1>1, <1>2, <1>11 DEF JobFields
<1>13. job' = [job EXCEPT ![j] = x]
  BY <1>1, <1>3, <1>4, <1>10, <1>11
<1>14. LocalsInv(x)
  BY <1>1, <1>2, <1>5, <1>10, <1>12 DEF LocalsInv, Busy, Planning, Outcomes
<1>15. Planned(x)'
  <2>1. Cardinality(acts) \in Nat
    BY <1>5, FS_CardinalityType
  <2> QED BY <1>5, <1>7, <1>12, <2>1 DEF Planned, PairOf
<1>16. ReportInv(s.results)'
  BY <1>1, <1>8, SlotStays DEF SlotInv
<1>17. SlotInv(x)'
  BY <1>0, <1>2, <1>12, <1>15, <1>16 DEF SlotInv, PairOf
<1> QED BY <1>0, <1>8, <1>9, <1>13, <1>14, <1>17, JobMoves

\* The slot of an action is claimed, and a plan for it held the action.
IsClaimed(x) ==
    /\ <<x.analysis, x.as_of>> \in Pairs /\ run[<<x.analysis, x.as_of>>] # Null
    /\ x \in UNION attempted[<<x.analysis, x.as_of>>]

\* One action is appended, or was there already.
LEMMA AppendStep ==
    ASSUME SweepInv, NEW j \in Jobs, AppendAction(j)
    PROVE  SweepInv'
<1> Skus \subseteq Nat
  BY SynapseAssumption
<1>0. UNCHANGED <<run, attempted, rewritten, positions, lines>>
  BY DEF AppendAction, jobUnchanged, worldVars
<1>1. PICK s : s = job[j] /\ LocalsInv(s) /\ SlotInv(s) /\ DOMAIN s = JobFields /\ s.pc = "append"
  BY DEF AppendAction, SweepInv, LocalsInv
<1>2. /\ s.outcome = "satisfied" /\ s.pending # {} /\ s.appended \in Nat /\ IsFiniteSet(s.proposed)
      /\ PairOf(s) \in Pairs /\ run[PairOf(s)] # Null /\ Planned(s)
  BY <1>1 DEF LocalsInv, SlotInv, Busy
<1>3. PICK action \in s.pending :
        action = CHOOSE x \in s.pending : \A y \in s.pending : x.sku <= y.sku
  <2>1. {y.sku : y \in s.pending} \in SUBSET Nat /\ {y.sku : y \in s.pending} # {}
    BY <1>2 DEF Planned
  <2>2. PICK k \in {y.sku : y \in s.pending} : \A i \in {y.sku : y \in s.pending} : k <= i
    BY <2>1, LeastElement
  <2>3. \E x \in s.pending : \A y \in s.pending : x.sku <= y.sku
    BY <2>2
  <2> QED BY <2>3
<1>4. PICK rest : rest = s.pending \ {action}
  OBVIOUS
<1>5. PICK n : n = IF Logged(action) THEN s.appended ELSE s.appended + 1
  OBVIOUS
<1>6. actions' = IF Logged(action) THEN actions ELSE actions \cup {action}
  BY <1>1, <1>3 DEF AppendAction
<1>7. /\ action \in s.proposed /\ action.analysis = s.analysis /\ action.as_of = s.slot
      /\ action.sku \in Skus /\ action \in UNION attempted[PairOf(s)]
  BY <1>2, <1>3 DEF Planned
<1>8. Accrues /\ actions \subseteq actions'
  BY <1>0, <1>6 DEF Accrues
<1>9. RunInv'
  <2>1. SatisfiedIsAppended'
    BY <1>0, <1>8, LoggedStays DEF SweepInv, RunInv, SatisfiedIsAppended
  <2>2. ActionsAreClaimed'
    <3> SUFFICES ASSUME NEW y \in actions' PROVE IsClaimed(y)'
      BY Zenon DEF ActionsAreClaimed, IsClaimed
    <3>1. CASE y \in actions
      BY <1>0, <3>1 DEF SweepInv, RunInv, ActionsAreClaimed, IsClaimed
    <3>2. CASE y \notin actions
      <4>1. y = action
        BY <1>6, <3>2
      <4> QED BY <1>0, <1>2, <1>7, <4>1 DEF PairOf, IsClaimed
    <3> QED BY <3>1, <3>2
  <2> QED BY <1>0, <1>6, <1>7, <2>1, <2>2 DEF SweepInv, RunInv
<1>10. Logged(action)'
  <2>1. CASE Logged(action)
    BY <1>8, <2>1, LoggedStays
  <2>2. CASE ~Logged(action)
    BY <1>6, <2>2 DEF Logged, IdempotencyKey, payload_hash
  <2> QED BY <2>1, <2>2
<1>11. PICK pc : pc = IF rest = {} THEN "complete" ELSE "append"
  OBVIOUS
<1>12. PICK x : x = [s EXCEPT !.pc = pc, !.pending = rest, !.appended = n]
  OBVIOUS
<1>13. /\ DOMAIN x = JobFields /\ x.pc = pc /\ x.pending = rest /\ x.appended = n
       /\ x.proposed = s.proposed /\ x.refusals = s.refusals /\ x.attempt = s.attempt
       /\ x.now = s.now /\ x.todo = s.todo /\ x.results = s.results /\ x.analysis = s.analysis
       /\ x.slot = s.slot /\ x.outcome = s.outcome
  BY <1>1, <1>12 DEF JobFields
<1>14. job' = [job EXCEPT ![j] = x]
  <2> DEFINE a1 == CHOOSE z \in job[j].pending : \A y \in job[j].pending : z.sku <= y.sku
             r1 == job[j].pending \ {a1}
  <2>1. job' = [job EXCEPT ![j] =
                  [job[j] EXCEPT !.pc = IF r1 = {} THEN "complete" ELSE "append", !.pending = r1,
                                 !.appended = IF Logged(a1) THEN job[j].appended
                                              ELSE job[j].appended + 1]]
    BY DEF AppendAction
  <2>2. a1 = action /\ r1 = rest
    BY <1>1, <1>3, <1>4
  <2> HIDE DEF a1, r1
  <2>3. job' = [job EXCEPT ![j] = [s EXCEPT !.pc = pc, !.pending = rest, !.appended = n]]
    BY <1>1, <1>5, <1>11, <2>1, <2>2
  <2> QED BY <1>12, <2>3
<1>15. LocalsInv(x)
  BY <1>1, <1>2, <1>5, <1>11, <1>13 DEF LocalsInv, Busy, Planning, Outcomes
<1>16. Planned(x)'
  <2>1. n + Cardinality(rest) <= Cardinality(s.proposed)
    <3>1. s.pending \subseteq s.proposed
      BY <1>2 DEF Planned
    <3>2. IsFiniteSet(s.pending)
      BY <1>2, <3>1, FS_Subset
    <3>3. Cardinality(rest) = Cardinality(s.pending) - 1 /\ IsFiniteSet(rest)
      BY <1>4, <3>2, FS_RemoveElement
    <3>4. Cardinality(s.pending) \in Nat /\ Cardinality(s.proposed) \in Nat
      BY <1>2, <3>2, FS_CardinalityType
    <3> QED BY <1>2, <1>5, <3>3, <3>4 DEF Planned
  <2>2. \A y \in s.proposed \ rest : Logged(y)'
    BY <1>2, <1>4, <1>8, <1>10, LoggedStays DEF Planned
  <2> QED BY <1>0, <1>2, <1>4, <1>13, <2>1, <2>2 DEF Planned, PairOf
<1>17. ReportInv(s.results)'
  BY <1>1, <1>8, SlotStays DEF SlotInv
<1>18. SlotInv(x)'
  BY <1>0, <1>2, <1>13, <1>16, <1>17 DEF SlotInv, PairOf
<1> QED BY <1>0, <1>8, <1>9, <1>14, <1>15, <1>18, JobMoves

\* The row that UPDATE leaves.
RewrittenRow(old, o, c, n, f) ==
    [old EXCEPT !.outcome = o, !.proposed = c, !.appended = n, !.refusals = f]

LEMMA RewrittenRows ==
    ASSUME NEW old \in RunRows, NEW o \in Outcomes, NEW c \in Nat, NEW n \in Nat,
           NEW f \in Refusals
    PROVE  RewrittenRow(old, o, c, n, f) \in RunRows
<1> DEFINE M == Outcomes \cup {Null}
<1>1. o \in M /\ RunRows = [outcome : M, proposed : Nat, appended : Nat, refusals : Refusals,
                            rung : {"shadow"}, timezone : Timezones]
  BY DEF RunRows
<1> HIDE DEF M
<1> QED BY <1>1 DEF RewrittenRow

\* The outcome is recorded, perhaps over that of another execution.
LEMMA CompleteStep ==
    ASSUME SweepInv, NEW j \in Jobs, Complete(j)
    PROVE  SweepInv'
<1>0. UNCHANGED <<actions, attempted, positions, lines>>
  BY DEF Complete, jobUnchanged, worldVars
<1>1. PICK s : s = job[j] /\ LocalsInv(s) /\ SlotInv(s) /\ DOMAIN s = JobFields /\ s.pc = "complete"
  BY DEF Complete, SweepInv, LocalsInv
<1>2. PICK p \in Pairs : p = PairOf(s) /\ run[p] # Null
  BY <1>1 DEF SlotInv, Busy
<1>3. /\ s.outcome \in Outcomes /\ s.appended \in Nat /\ IsFiniteSet(s.proposed)
      /\ s.refusals \in Refusals
      /\ (s.outcome = "satisfied" => (s.pending = {} /\ Planned(s)))
  BY <1>1 DEF LocalsInv, SlotInv
<1>4. Cardinality(s.proposed) \in Nat
  BY <1>3, FS_CardinalityType
<1>5. run \in [Pairs -> RunRows \cup {Null}] /\ run[p] \in RunRows
  BY <1>2 DEF SweepInv, RunInv
<1>6. PICK row : row = [run[p] EXCEPT !.outcome = s.outcome, !.proposed = Cardinality(s.proposed),
                                      !.appended = s.appended, !.refusals = s.refusals]
  OBVIOUS
<1>7. /\ row \in RunRows /\ row.outcome = s.outcome /\ row.proposed = Cardinality(s.proposed)
      /\ row.appended = s.appended
  <2>1. PICK old \in RunRows : old = run[p]
    BY <1>5
  <2>2. PICK o \in Outcomes : o = s.outcome
    BY <1>3
  <2>3. PICK c \in Nat : c = Cardinality(s.proposed)
    BY <1>4
  <2>4. PICK n \in Nat : n = s.appended
    BY <1>3
  <2>5. PICK f \in Refusals : f = s.refusals
    BY <1>3
  <2>6. row = [old EXCEPT !.outcome = o, !.proposed = c, !.appended = n, !.refusals = f]
    BY <1>6, <2>1, <2>2, <2>3, <2>4, <2>5
  <2>7. row.outcome = o /\ row.proposed = c /\ row.appended = n
    BY <2>1, <2>6 DEF RunRows
  <2>8. row \in RunRows
    <3>1. RewrittenRow(old, o, c, n, f) \in RunRows
      BY <2>1, <2>2, <2>3, <2>4, <2>5, RewrittenRows
    <3> QED BY <2>6, <3>1 DEF RewrittenRow
  <2> QED BY <2>2, <2>3, <2>4, <2>7, <2>8
<1>8. /\ run' = [run EXCEPT ![p] = row]
      /\ rewritten' = IF run[p].outcome # Null THEN rewritten \cup {p} ELSE rewritten
  BY <1>1, <1>2, <1>6 DEF Complete, PairOf
<1>9. /\ run' \in [Pairs -> RunRows \cup {Null}] /\ run'[p] = row /\ row # Null /\ row.outcome # Null
      /\ \A q \in Pairs \ {p} : run'[q] = run[q]
  BY <1>3, <1>5, <1>7, <1>8, RunAssumption
<1>10. Accrues
  BY <1>0, <1>8, <1>9 DEF Accrues
<1>11. RunInv'
  <2>1. SatisfiedIsAppended'
    <3> SUFFICES ASSUME NEW q \in Pairs, run'[q] # Null, run'[q].outcome = "satisfied"
                 PROVE  /\ \E P \in attempted[q] :
                             (\A x \in P : Logged(x)) /\ Cardinality(P) = run'[q].proposed
                        /\ run'[q].appended <= run'[q].proposed
      BY <1>0 DEF SatisfiedIsAppended, Logged
    <3>1. CASE q = p
      <4>0. s.outcome = "satisfied" /\ s.pending = {} /\ Planned(s)
        BY <1>3, <1>7, <1>9, <3>1
      <4>1. /\ s.proposed \in attempted[p] /\ \A y \in s.proposed : Logged(y)
            /\ s.appended + Cardinality(s.pending) <= Cardinality(s.proposed)
        BY <1>2, <4>0 DEF Planned
      <4>2. Cardinality(s.pending) = 0
        BY <4>0, FS_EmptySet
      <4>3. s.appended <= Cardinality(s.proposed)
        BY <1>3, <1>4, <4>1, <4>2
      <4> QED BY <1>7, <1>9, <3>1, <4>1, <4>3
    <3>2. CASE q # p
      BY <1>9, <3>2 DEF SweepInv, RunInv, SatisfiedIsAppended
    <3> QED BY <3>1, <3>2
  <2>2. ActionsAreClaimed'
    <3> SUFFICES ASSUME NEW y \in actions' PROVE IsClaimed(y)'
      BY Zenon DEF ActionsAreClaimed, IsClaimed
    <3>1. PICK q : q = <<y.analysis, y.as_of>> /\ q \in Pairs /\ run[q] # Null /\ y \in UNION attempted[q]
      BY <1>0 DEF SweepInv, RunInv, ActionsAreClaimed
    <3>2. run'[q] # Null
      BY <1>9, <3>1
    <3> QED BY <1>0, <3>1, <3>2 DEF IsClaimed
  <2> QED BY <1>0, <1>9, <2>1, <2>2 DEF SweepInv, RunInv
<1>12. PICK res : res = [pair |-> p, outcome |-> s.outcome] /\ res.pair = p /\ res.outcome = s.outcome
  <2> DEFINE e == [pair |-> p, outcome |-> s.outcome]
  <2>1. e.pair = p /\ e.outcome = s.outcome
    OBVIOUS
  <2> HIDE DEF e
  <2> WITNESS e
  <2> QED BY <2>1 DEF e
<1>13. PICK x : x = [Idle EXCEPT !.pc = "next", !.attempt = s.attempt, !.now = s.now, !.todo = s.todo,
                                 !.results = s.results \cup {res}]
  OBVIOUS
<1>14. job' = [job EXCEPT ![j] = x]
  BY <1>1, <1>2, <1>12, <1>13 DEF Complete, PairOf
<1>15. /\ Resting(x) /\ x.pc = "next" /\ x.attempt = s.attempt /\ x.now = s.now /\ x.todo = s.todo
       /\ x.results = s.results \cup {res}
  BY <1>1, <1>13 DEF Idle, Resting, JobFields, LocalsInv
<1>16. LocalsInv(x) /\ x.pc \notin Busy
  BY <1>1, <1>15, RestingLocals DEF LocalsInv, Busy
<1>17. ReportInv(x.results)'
  <2>1. ReportInv(s.results)'
    BY <1>1, <1>10, SlotStays DEF SlotInv
  <2> QED BY <1>7, <1>9, <1>12, <1>15, <2>1 DEF ReportInv
<1>18. SlotInv(x)'
  BY <1>15, <1>16, <1>17 DEF SlotInv
<1> QED BY <1>0, <1>10, <1>11, <1>14, <1>16, <1>18, JobMoves

-----------------------------------------------------------------------------
(* The data under the sweep, and the steps that are not its own. *)

\* A sale line lands, a stock figure moves: the tables do not.
LEMMA DataMoves ==
    ASSUME SweepInv, UNCHANGED <<run, actions, attempted, rewritten, job>>,
           DOMAIN positions' \subseteq Skus, lines' \in Seq(SaleRows)
    PROVE  SweepInv'
<1>1. RunInv' /\ \A x : SlotInv(x) => SlotInv(x)'
  BY TablesStay DEF tables
<1>2. ASSUME NEW i \in Jobs PROVE LocalsInv(job[i])' /\ SlotInv(job[i])'
  <2>1. PICK y : y = job[i]
    OBVIOUS
  <2>2. LocalsInv(y) /\ SlotInv(y)'
    BY <1>1, <2>1 DEF SweepInv
  <2>3. job'[i] = y
    BY <2>1
  <2> QED BY <2>2, <2>3 DEF LocalsInv, SlotInv, Planned, PairOf, ReportInv
<1> QED BY <1>1, <1>2 DEF SweepInv

LEMMA WorldStep ==
    ASSUME SweepInv, World
    PROVE  SweepInv'
<1>1. UNCHANGED <<run, actions, attempted, rewritten, job>>
  BY DEF World, Tick, SaleLands, StockMoves, TenantMirrored, OperatorEdits, RecordDecision
<1>2. DOMAIN positions' \subseteq Skus
  <2>1. CASE StockMoves
    <3>1. PICK k \in Skus : DOMAIN positions' = DOMAIN positions \cup {k}
      BY <2>1 DEF StockMoves
    <3> QED BY <3>1 DEF SweepInv
  <2>2. CASE ~StockMoves
    BY <2>2 DEF World, Tick, SaleLands, TenantMirrored, OperatorEdits, RecordDecision, SweepInv
  <2> QED BY <2>1, <2>2
<1>3. lines' \in Seq(SaleRows)
  <2>1. CASE SaleLands
    <3>1. PICK r \in SaleLines : lines' = Append(lines, r)
      BY <2>1 DEF SaleLands
    <3>2. r \in SaleRows /\ lines \in Seq(SaleRows)
      BY DEF SaleRows, SweepInv
    <3> QED BY <3>1, <3>2
  <2>2. CASE ~SaleLands
    BY <2>2 DEF World, Tick, StockMoves, TenantMirrored, OperatorEdits, RecordDecision, SweepInv
  <2> QED BY <2>1, <2>2
<1> QED BY <1>1, <1>2, <1>3, DataMoves

LEMMA AxonStays == ASSUME AxonInv, UNCHANGED axonVars PROVE AxonInv' /\ UNCHANGED msg
BY DEF AxonInv, AxonTypeOK, SubTypeOK, AttemptsInv, SenderInv, MailInv, MayMail, AckedIsRecorded,
       AcceptedWasMailed, UndeliverableIsLeft, axonVars, subVars, brokerVars, loopVars

LEMMA ConsoleStays == ASSUME ConsoleInv, UNCHANGED <<now, provision, request>> PROVE ConsoleInv'
BY AnswersStand DEF ConsoleInv, ProvisionInv, Stands

\* One execution takes a step.
LEMMA JobSteps ==
    ASSUME SweepInv, ConsoleInv, NEW j \in Jobs, JobStep(j) \/ AnalysisFails(j) \/ Crash(j)
    PROVE  /\ SweepInv'
           /\ UNCHANGED <<now, provision, request, decisions, mirrored>>
           /\ actions \subseteq actions'
<1>1. SweepInv'
  BY StartSweepStep, ClaimStep, TowardsPlanStep, PlanStep, AppendStep, CompleteStep, EndStep DEF JobStep
<1>2. UNCHANGED <<now, provision, request, decisions, mirrored>>
  BY DEF JobStep, StartSweep, Claim, Resolve, Probe, FetchUniverse, Plan, AppendAction, AnalysisFails,
         Complete, Finish, Crash, jobUnchanged, worldVars
<1>3. actions \subseteq actions'
  BY DEF JobStep, StartSweep, Claim, Resolve, Probe, FetchUniverse, Plan, AppendAction, AnalysisFails,
         Complete, Finish, Crash
<1> QED BY <1>1, <1>2, <1>3

-----------------------------------------------------------------------------
(* The decisions. *)

Verbs == {"dismiss", "acknowledge", "snooze"}
DecisionRows == [analysis : Analyses, sku : Skus, verb : Verbs, until : Int]

About(d) == \E x \in actions : x.analysis = d.analysis /\ x.sku = d.sku

DecisionInv ==
    /\ decisions \in Seq(DecisionRows)
    /\ \A i \in DOMAIN decisions : About(decisions[i])

\* The alerts a decision is about stay.
LEMMA DecisionsStay ==
    ASSUME DecisionInv, UNCHANGED decisions, actions \subseteq actions'
    PROVE  DecisionInv'
<1>1. \A d : About(d) => About(d)'
  BY DEF About
<1>2. \A i \in DOMAIN decisions' : About(decisions[i])'
  <2> SUFFICES ASSUME NEW i \in DOMAIN decisions PROVE About(decisions[i])'
    OBVIOUS
  <2>1. PICK d : d = decisions[i] /\ About(d)
    BY DEF DecisionInv
  <2> QED BY <1>1, <2>1 DEF About
<1> QED BY <1>2 DEF DecisionInv

\* record_alert_decision adds one.
LEMMA RecordDecisionStep ==
    ASSUME DecisionInv, SweepInv, ConsoleInv, RecordDecision
    PROVE  DecisionInv'
<1>1. PICK x \in actions, verb \in Verbs :
        decisions' = Append(decisions, [analysis |-> x.analysis, sku |-> x.sku, verb |-> verb,
                                        until |-> UtcDate(now)])
  BY DEF RecordDecision, Verbs
<1>2. x.analysis \in Analyses /\ x.sku \in Skus
  BY DEF SweepInv, RunInv, ActionsAreClaimed, Pairs
<1>3. UtcDate(now) \in Int
  BY SynapseAssumption DEF UtcDate, ConsoleInv
<1> DEFINE d == [analysis |-> x.analysis, sku |-> x.sku, verb |-> verb, until |-> UtcDate(now)]
<1>4. d \in DecisionRows /\ d.analysis = x.analysis /\ d.sku = x.sku
  BY <1>2, <1>3 DEF DecisionRows
<1>5. decisions' = Append(decisions, d)
  BY <1>1
<1> HIDE DEF d
<1>6. /\ decisions' \in Seq(DecisionRows)
      /\ \A i \in DOMAIN decisions' : decisions'[i] = d \/ \E k \in DOMAIN decisions : decisions'[i] = decisions[k]
  BY <1>4, <1>5 DEF DecisionInv
<1>7. UNCHANGED actions
  BY DEF RecordDecision
<1>8. ASSUME NEW i \in DOMAIN decisions' PROVE About(decisions[i])'
  <2>1. PICK e : e = decisions'[i]
    OBVIOUS
  <2>2. About(e)
    <3>1. CASE e = d
      BY <1>4, <3>1 DEF About
    <3>2. CASE e # d
      BY <1>6, <2>1, <3>2 DEF DecisionInv
    <3> QED BY <3>1, <3>2
  <2> QED BY <1>7, <2>1, <2>2 DEF About
<1> QED BY <1>6, <1>8 DEF DecisionInv

\* The last of a sequence's positions is the one that counts.
LEMMA MaxIsLast ==
    ASSUME NEW n \in Nat, NEW S, S \subseteq 1..n, n \in S
    PROVE  Max(S) = n
<1>1. \A x \in S : x \in Int /\ (n >= x)
  OBVIOUS
<1>2. \A x \in S : (\A y \in S : x >= y) => x = n
  BY <1>1
<1> QED BY <1>1, <1>2 DEF Max

\* The state served for an alert is the last word on its target.
LEMMA LastWord == DecisionInv => DecisionsStand
<1> SUFFICES ASSUME DecisionInv PROVE DecisionsStand
  OBVIOUS
<1>1. \A i \in DOMAIN decisions : \E x \in actions :
        x.analysis = decisions[i].analysis /\ x.sku = decisions[i].sku
  BY DEF DecisionInv, About
<1>2. ASSUME decisions # <<>>, decisions[Len(decisions)].verb = "dismiss",
             NEW x \in actions, x.analysis = decisions[Len(decisions)].analysis,
             x.sku = decisions[Len(decisions)].sku
      PROVE  LifecycleState(x) = "dismissed"
  <2> DEFINE about == {i \in DOMAIN decisions : /\ decisions[i].analysis = x.analysis
                                                /\ decisions[i].sku = x.sku}
  <2>1. PICK n \in Nat : n = Len(decisions) /\ DOMAIN decisions = 1..n /\ n \in 1..n
    BY <1>2 DEF DecisionInv
  <2>2. about \subseteq 1..n /\ n \in about /\ about # {}
    BY <1>2, <2>1
  <2>3. Max(about) = n
    <3> HIDE DEF about
    <3> QED BY <2>2, MaxIsLast
  <2>4. LifecycleState(x) =
          IF about = {} THEN "open"
          ELSE IF decisions[Max(about)].verb = "dismiss" THEN "dismissed"
          ELSE IF decisions[Max(about)].verb = "acknowledge" THEN "acknowledged"
          ELSE IF decisions[Max(about)].until >= UtcDate(now) THEN "snoozed" ELSE "open"
    BY DEF LifecycleState
  <2> HIDE DEF about
  <2> QED BY <1>2, <2>1, <2>2, <2>3, <2>4
<1> QED BY <1>1, <1>2 DEF DecisionsStand

-----------------------------------------------------------------------------
(* The delivery screen. *)

LEMMA Counted ==
    ASSUME NEW S, NEW T, IsFiniteSet(S), IsFiniteSet(T), S \cap T = {}
    PROVE  Cardinality(S \cup T) = Cardinality(S) + Cardinality(T)
<1>1. Cardinality(S) \in Nat /\ Cardinality(T) \in Nat
  BY FS_CardinalityType
<1>2. Cardinality(S \cap T) = 0
  BY FS_EmptySet
<1>3. Cardinality(S \cup T) = Cardinality(S) + Cardinality(T) - Cardinality(S \cap T)
  BY FS_Union
<1> QED BY <1>1, <1>2, <1>3

LEMMA Smaller ==
    ASSUME NEW m \in Int, NEW n \in Int
    PROVE  Min({m, n}) = IF m <= n THEN m ELSE n
<1>1. \E x \in {m, n} : \A y \in {m, n} : x =< y
  OBVIOUS
<1>2. Min({m, n}) \in {m, n} /\ \A y \in {m, n} : Min({m, n}) =< y
  BY <1>1 DEF Min
<1> QED BY <1>2

\* The list is the ledger's rows up to the limit, and the counts are counts of them all.
LEMMA ScreenAgrees ==
    ASSUME AxonInv
    PROVE  /\ \A screen \in recent_deliveries :
                /\ screen.truncated \/ \A m \in Messages :
                     msg[m] = "acked" => \E d \in screen.deliveries : d.delivery_id = m
                /\ Cardinality(screen.deliveries) = Min({DeliveryLimit, delivery_counts.total})
           /\ delivery_counts.total = delivery_counts.accepted + delivery_counts.failed
<1> USE AxonAssumption
<1>0. /\ delivery_counts.total = COUNTS(DeliveryState)
      /\ delivery_counts.accepted = COUNTS({"accepted"})
      /\ delivery_counts.failed = COUNTS({"failed"})
  BY DEF delivery_counts
<1>1. \A m \in Messages : ledger[m] \in DeliveryState \cup {None}
  BY DEF AxonInv, AxonTypeOK
<1>2. \A m \in Messages : msg[m] = "acked" => m \in LedgerRows
  BY DEF AxonInv, AckedIsRecorded, LedgerRows
<1>3. IsFiniteSet(LedgerRows) /\ Cardinality(LedgerRows) \in Nat /\ DeliveryLimit \in Nat
  BY FS_Subset, FS_CardinalityType, PagesAssumption DEF LedgerRows
<1>5. COUNTS(DeliveryState) = Cardinality(LedgerRows)
  <2>1. LedgerRows = {m \in Messages : ledger[m] \in DeliveryState}
    BY <1>1 DEF LedgerRows
  <2> QED BY <2>1 DEF COUNTS
<1>6. COUNTS(DeliveryState) = COUNTS({"accepted"}) + COUNTS({"failed"})
  <2> DEFINE A == {m \in Messages : ledger[m] \in {"accepted"}}
             F == {m \in Messages : ledger[m] \in {"failed"}}
  <2>1. IsFiniteSet(A) /\ IsFiniteSet(F) /\ A \cap F = {}
    BY FS_Subset
  <2>2. {m \in Messages : ledger[m] \in DeliveryState} = A \cup F
    BY DEF DeliveryState
  <2>3. COUNTS({"accepted"}) = Cardinality(A) /\ COUNTS({"failed"}) = Cardinality(F)
    BY DEF COUNTS
  <2> HIDE DEF A, F
  <2>4. Cardinality(A \cup F) = Cardinality(A) + Cardinality(F)
    BY <2>1, Counted
  <2> QED BY <2>2, <2>3, <2>4 DEF COUNTS
<1>7. ASSUME NEW screen \in recent_deliveries
      PROVE  /\ screen.truncated \/ \A m \in Messages :
                  msg[m] = "acked" => \E d \in screen.deliveries : d.delivery_id = m
             /\ Cardinality(screen.deliveries) = Min({DeliveryLimit, Cardinality(LedgerRows)})
  <2>1. PICK page \in RECENT :
          screen = [deliveries |-> {DeliveryRow(m) : m \in page}, truncated |-> Cardinality(page) >= DeliveryLimit]
    BY DEF recent_deliveries
  <2>2. PICK D : D = {DeliveryRow(m) : m \in page}
    OBVIOUS
  <2>3. screen.deliveries = D /\ screen.truncated = (Cardinality(page) >= DeliveryLimit)
    BY <2>1, <2>2
  <2>4. page \in SUBSET LedgerRows /\ Cardinality(page) = Min({DeliveryLimit, Cardinality(LedgerRows)})
    BY DEF RECENT, kSubset
  <2>5. /\ IsFiniteSet(page) /\ Cardinality(page) \in Nat
        /\ Cardinality(page) = Cardinality(LedgerRows) => page = LedgerRows
    BY <1>3, <2>4, FS_Subset, FS_CardinalityType
  <2>6. Cardinality(D) = Cardinality(page)
    <3> DEFINE f == [m \in page |-> DeliveryRow(m)]
    <3>1. f \in [page -> D]
      BY <2>2
    <3>2. \A m, n \in page : f[m] = f[n] => m = n
      BY DEF DeliveryRow
    <3>3. \A d \in D : \E m \in page : f[m] = d
      BY <2>2
    <3> HIDE DEF f
    <3>4. f \in Bijection(page, D)
      BY <3>1, <3>2, <3>3 DEF Bijection, Injection, Surjection, IsInjective
    <3> QED BY <2>5, <3>4, FS_Bijection DEF ExistsBijection
  <2>7. ASSUME ~screen.truncated, NEW m \in Messages, msg[m] = "acked"
        PROVE  \E d \in screen.deliveries : d.delivery_id = m
    <3>0. ~ (Cardinality(page) >= DeliveryLimit)
      BY <2>3, <2>7, Zenon
    <3>1. Cardinality(page) # DeliveryLimit
      BY <1>3, <2>5, <3>0
    <3>2. Min({DeliveryLimit, Cardinality(LedgerRows)}) \in {DeliveryLimit, Cardinality(LedgerRows)}
      BY <1>3, Smaller
    <3>3. m \in page
      BY <1>2, <2>4, <2>5, <2>7, <3>1, <3>2
    <3>4. DeliveryRow(m) \in D /\ DeliveryRow(m).delivery_id = m
      BY <2>2, <3>3 DEF DeliveryRow
    <3> QED BY <2>3, <3>4
  <2> QED BY <2>3, <2>4, <2>6, <2>7
<1> QED BY <1>0, <1>5, <1>6, <1>7

-----------------------------------------------------------------------------
(* The inductive invariant, and the theorems. *)

IInv ==
    /\ AxonInv
    /\ ConsoleInv
    /\ NoticeInv
    /\ SweepInv
    /\ DecisionInv
    /\ mirrored \in BOOLEAN

LEMMA InitInv == Init => IInv
<1> SUFFICES ASSUME Init PROVE IInv
  OBVIOUS
<1>1. AxonInv
  BY AxonInitInv DEF Init
<1>2. DecisionInv
  BY DEF Init, DecisionInv
<1>3. mirrored \in BOOLEAN
  BY DEF Init
<1> QED BY <1>1, <1>2, <1>3, ConsoleInitInv, SweepInitInv DEF IInv

LEMMA NextInv == IInv /\ [Next]_vars => IInv'
<1> SUFFICES ASSUME IInv, [Next]_vars PROVE IInv'
  OBVIOUS
<1>0. AxonInv /\ ConsoleInv /\ NoticeInv /\ SweepInv /\ DecisionInv /\ mirrored \in BOOLEAN
  BY DEF IInv
<1>1. ASSUME UNCHANGED synapseVars
      PROVE  ConsoleInv' /\ SweepInv' /\ DecisionInv' /\ mirrored' \in BOOLEAN /\ UNCHANGED request
  <2>1. /\ UNCHANGED <<now, provision, request>> /\ UNCHANGED <<run, actions, attempted, rewritten, job>>
        /\ UNCHANGED <<positions, lines, decisions, mirrored>>
    BY <1>1 DEF synapseVars
  <2>2. DOMAIN positions' \subseteq Skus /\ lines' \in Seq(SaleRows)
    BY <1>0, <2>1 DEF SweepInv
  <2> QED BY <1>0, <2>1, <2>2, ConsoleStays, DataMoves, DecisionsStay
<1>2. CASE World /\ UNCHANGED axonVars
  <2>1. AxonInv' /\ UNCHANGED msg
    BY <1>0, <1>2, AxonStays
  <2>2. ConsoleInv' /\ NoticeInv' /\ SweepInv'
    BY <1>0, <1>2, <2>1, ProvisionStands, WorldStep
  <2>3. DecisionInv'
    <3>1. CASE RecordDecision
      BY <1>0, <3>1, RecordDecisionStep
    <3>2. CASE ~RecordDecision
      <4>1. UNCHANGED <<decisions, actions>>
        BY <1>2, <3>2 DEF World, Tick, SaleLands, StockMoves, TenantMirrored, OperatorEdits
      <4> QED BY <1>0, <4>1, DecisionsStay
    <3> QED BY <3>1, <3>2
  <2>4. mirrored' \in BOOLEAN
    BY <1>0, <1>2
    DEF World, Tick, SaleLands, StockMoves, TenantMirrored, OperatorEdits, RecordDecision
  <2> QED BY <2>1, <2>2, <2>3, <2>4 DEF IInv
<1>3. ASSUME NEW r \in Requests, ReadTenant(r) \/ EnableAnalysis(r) \/ PublishNotice(r)
      PROVE  SweepInv' /\ DecisionInv' /\ mirrored' \in BOOLEAN
  <2>2. /\ UNCHANGED <<run, actions, attempted, rewritten, job>>
        /\ UNCHANGED <<positions, lines, decisions, mirrored>>
    <3>1. CASE ReadTenant(r)
      BY <3>1 DEF ReadTenant, consoleUnchanged, worldVars
    <3>2. CASE EnableAnalysis(r)
      BY <3>2 DEF EnableAnalysis, consoleUnchanged, worldVars
    <3>3. CASE PublishNotice(r)
      BY <3>3 DEF PublishNotice, consoleUnchanged, worldVars
    <3> QED BY <1>3, <3>1, <3>2, <3>3
  <2>3. DOMAIN positions' \subseteq Skus /\ lines' \in Seq(SaleRows)
    BY <1>0, <2>2 DEF SweepInv
  <2> QED BY <1>0, <2>2, <2>3, DataMoves, DecisionsStay
<1>4. CASE \E r \in Requests : (ReadTenant(r) \/ EnableAnalysis(r)) /\ UNCHANGED axonVars
  <2>1. PICK r \in Requests : (ReadTenant(r) \/ EnableAnalysis(r)) /\ UNCHANGED axonVars
    BY <1>4
  <2>2. AxonInv' /\ UNCHANGED msg
    BY <1>0, <2>1, AxonStays
  <2>3. ConsoleInv' /\ NoticeInv'
    BY <1>0, <2>1, <2>2, ReadTenantStep, EnableStep
  <2> QED BY <1>3, <2>1, <2>2, <2>3 DEF IInv
<1>5. CASE \E r \in Requests : PublishNotice(r) /\ UNCHANGED <<stage, mails, ledger>>
  <2>1. PICK r \in Requests : PublishNotice(r) /\ UNCHANGED <<stage, mails, ledger>>
    BY <1>5
  <2>2. AxonInv' /\ ConsoleInv' /\ NoticeInv'
    BY <1>0, <2>1, PublishStep
  <2> QED BY <1>3, <2>1, <2>2 DEF IInv
<1>6. CASE \E j \in Jobs : (JobStep(j) \/ AnalysisFails(j) \/ Crash(j)) /\ UNCHANGED axonVars
  <2>1. PICK j \in Jobs : (JobStep(j) \/ AnalysisFails(j) \/ Crash(j)) /\ UNCHANGED axonVars
    BY <1>6
  <2>2. AxonInv' /\ UNCHANGED msg
    BY <1>0, <2>1, AxonStays
  <2>3. /\ SweepInv' /\ UNCHANGED <<now, provision, request, decisions, mirrored>>
        /\ actions \subseteq actions'
    BY <1>0, <2>1, JobSteps
  <2>4. ConsoleInv' /\ DecisionInv'
    BY <1>0, <2>3, ConsoleStays, DecisionsStay
  <2>5. NoticeInv' /\ mirrored' \in BOOLEAN
    BY <1>0, <2>2, <2>3 DEF NoticeInv
  <2> QED BY <2>2, <2>3, <2>4, <2>5 DEF IInv
<1>7. CASE AxonNext /\ UNCHANGED synapseVars
  <2>1. AxonInv' /\ \A m \in Messages : msg'[m] = "absent" <=> msg[m] = "absent"
    BY <1>0, <1>7, AxonStep
  <2>2. NoticeInv'
    BY <1>0, <1>1, <1>7, <2>1, SynapseAssumption, AxonAssumption DEF NoticeInv
  <2> QED BY <1>1, <1>7, <2>1, <2>2 DEF IInv
<1>8. CASE (\E m \in Messages : ForeignPublish(m)) /\ UNCHANGED synapseVars
  <2>1. PICK m \in Messages : ForeignPublish(m)
    BY <1>8
  <2>2. AxonInv'
    BY <1>0, <2>1, BrokerStep DEF ForeignPublish, Enqueue
  <2>3. \A n \in Deliverable : msg'[n] = msg[n]
    BY <1>0, <2>1, AxonAssumption DEF ForeignPublish, Enqueue, AxonInv, AxonTypeOK, SubTypeOK
  <2>4. NoticeInv'
    BY <1>0, <1>1, <1>8, <2>3, SynapseAssumption DEF NoticeInv
  <2> QED BY <1>1, <1>8, <2>2, <2>4 DEF IInv
<1>9. CASE UNCHANGED vars
  <2>1. UNCHANGED synapseVars /\ UNCHANGED axonVars
    BY <1>9 DEF vars
  <2>2. AxonInv' /\ UNCHANGED msg
    BY <1>0, <2>1, AxonStays
  <2>3. NoticeInv'
    BY <1>0, <1>1, <2>1, <2>2 DEF NoticeInv
  <2> QED BY <1>1, <2>1, <2>2, <2>3 DEF IInv
<1> QED BY <1>2, <1>4, <1>5, <1>6, <1>7, <1>8, <1>9 DEF Next

LEMMA Invariance == Spec => []IInv
<1>1. Init => IInv
  BY InitInv
<1>2. IInv /\ [Next]_vars => IInv'
  BY NextInv
<1> QED BY <1>1, <1>2, PTL DEF Spec

\* Every variable keeps its type: the provisions stay within the declared analyses and
\* offered timezones, a run's outcome is one the table admits, and no execution is
\* attempted more often than max_retries allows (tables.py, runner.py).
THEOREM SynapseTypes == Spec => []TypeOK
<1>1. IInv => TypeOK
  <2> SUFFICES ASSUME IInv PROVE TypeOK
    OBVIOUS
  <2>1. /\ AxonTypeOK /\ now \in StartNow..MaxNow /\ mirrored \in BOOLEAN
        /\ DOMAIN provision \subseteq Analyses /\ \A a \in DOMAIN provision : provision[a] \in Provision
    BY DEF IInv, AxonInv, ConsoleInv, ProvisionInv
  <2>2. DOMAIN positions \subseteq Skus /\ \A j \in Jobs : job[j].attempt \in 0..(MaxRetries + 1)
    BY DEF IInv, SweepInv, LocalsInv
  <2>3. \A i \in DOMAIN lines : lines[i].sku \in Skus
    BY WorkloadsAssumption DEF IInv, SweepInv
  <2>4. \A p \in Pairs : run[p] # Null => run[p].outcome \in Outcomes \cup {Null}
    BY DEF IInv, SweepInv, RunInv, RunRows
  <2> QED BY <2>1, <2>2, <2>3, <2>4 DEF TypeOK
<1> QED BY <1>1, Invariance, PTL

\* The delivery ledger can be believed however often a message is redelivered, a sender
\* dies or a ledger write fails: what was acknowledged has its row, what is recorded as
\* accepted was mailed, what cannot be served is left alone, the screen leaves out what was
\* acknowledged only when it says that it is truncated, its counts are not cut and add up,
\* and a notice on the queue is about an analysis that is enabled (axon send.py,
\* ledger.py, subscriber.py; main.py's enable_monitor).
THEOREM DeliveriesStayRecorded == Spec => []DeliveriesAreRecorded
<1>1. IInv => DeliveriesAreRecorded
  <2> SUFFICES ASSUME IInv PROVE DeliveriesAreRecorded
    OBVIOUS
  <2>1. AxonInv /\ AckedIsRecorded /\ AcceptedWasMailed /\ UndeliverableIsLeft
    BY DEF IInv, AxonInv
  <2>2. \A r \in Requests : msg[Notice[r]] # "absent" => request[r].analysis \in DOMAIN provision
    BY DEF IInv, NoticeInv, ConsoleInv, EnablesAreHonest
  <2>3. /\ \A screen \in recent_deliveries :
             /\ screen.truncated \/ \A m \in Messages :
                  msg[m] = "acked" => \E d \in screen.deliveries : d.delivery_id = m
             /\ Cardinality(screen.deliveries) = Min({DeliveryLimit, delivery_counts.total})
        /\ delivery_counts.total = delivery_counts.accepted + delivery_counts.failed
    BY <2>1, ScreenAgrees
  <2> QED BY <2>1, <2>2, <2>3 DEF DeliveriesAreRecorded
<1> QED BY <1>1, Invariance, PTL

\* What the console answered can be believed although its page was stale: of the requests
\* to enable an analysis at most one is told 201, with the timezone that stands, and 200
\* means that there is a row (enable_monitor and enable_analysis).
THEOREM EnablesStayHonest == Spec => []EnablesAreHonest
<1>1. IInv => EnablesAreHonest
  BY DEF IInv, ConsoleInv
<1> QED BY <1>1, Invariance, PTL

\* Every action in the log belongs to a slot that was claimed and to a plan computed for
\* it, whatever crashed, was retried or ran twice (runner.py's run_one).
THEOREM ActionsStayClaimed == Spec => []ActionsAreClaimed
<1>1. IInv => ActionsAreClaimed
  BY DEF IInv, SweepInv, RunInv
<1> QED BY <1>1, Invariance, PTL

\* A slot that the run table calls satisfied has its proposals in the action log, and its
\* counts are those of one plan, even when two executions completed it (run_postgres.py,
\* action_log_postgres.py).
THEOREM SatisfiedRunsAreLogged == Spec => []SatisfiedIsAppended
<1>1. IInv => SatisfiedIsAppended
  BY DEF IInv, SweepInv, RunInv
<1> QED BY <1>1, Invariance, PTL

\* An execution that exits with 0 leaves no slot it reports unfinished, and none failed
\* unless another execution completed the slot once more (__main__.py's exit code).
THEOREM GreenStaysClean == Spec => []GreenIsClean
<1>1. IInv => GreenIsClean
  <2> SUFFICES ASSUME IInv, NEW j \in Jobs, job[j].pc = "green", NEW x \in job[j].results
               PROVE  /\ run[x.pair].outcome # Null
                      /\ run[x.pair].outcome = "failed" => x.pair \in rewritten
    BY DEF GreenIsClean
  <2>1. LocalsInv(job[j]) /\ SlotInv(job[j])
    BY DEF IInv, SweepInv
  <2>2. x.outcome # "failed"
    BY <2>1 DEF LocalsInv
  <2>3. /\ run[x.pair].outcome # Null
        /\ run[x.pair].outcome = x.outcome \/ x.pair \in rewritten
    BY <2>1 DEF SlotInv, ReportInv
  <2> QED BY <2>2, <2>3
<1> QED BY <1>1, Invariance, PTL

\* A decision is about an alert that exists, and a dismissal holds for the alerts of later
\* slots too (record_alert_decision, reads.py's lifecycle state).
THEOREM DecisionsStayStanding == Spec => []DecisionsStand
<1>1. IInv => DecisionsStand
  BY LastWord DEF IInv
<1> QED BY <1>1, Invariance, PTL

-----------------------------------------------------------------------------
(* Largest and smallest. *)

LEMMA FiniteMax ==
    ASSUME NEW S, S \subseteq Int, IsFiniteSet(S), S # {}
    PROVE  Max(S) \in S /\ \A y \in S : Max(S) >= y
<1> DEFINE above(r) == {y \in S : y > r}
           counts == {Cardinality(above(r)) : r \in S}
<1>1. \A r \in S : IsFiniteSet(above(r)) /\ Cardinality(above(r)) \in Nat
  BY FS_Subset, FS_CardinalityType
<1>2. counts \in SUBSET Nat /\ counts # {}
  BY <1>1
<1>3. PICK n \in counts : \A y \in counts : n <= y
  BY <1>2, LeastElement
<1>4. PICK r \in S : n = Cardinality(above(r))
  OBVIOUS
<1>5. ASSUME NEW x \in S, ~(r >= x) PROVE FALSE
  <2>1. r \in Int /\ x \in Int /\ x > r
    BY <1>5
  <2>2. above(x) \in SUBSET above(r) /\ x \in above(r) /\ x \notin above(x)
    <3>1. \A y \in S : y \in Int /\ (y > x => y > r)
      BY <2>1
    <3>2. x \in above(r) /\ ~(x > x)
      BY <2>1
    <3>3. x \notin above(x)
      BY <3>2
    <3>4. \A y \in above(x) : y \in above(r)
      BY <3>1
    <3> QED BY <3>2, <3>3, <3>4
  <2>3. above(x) # above(r)
    BY <2>2
  <2>4. IsFiniteSet(above(x)) /\ IsFiniteSet(above(r)) /\ Cardinality(above(x)) \in Nat /\ Cardinality(above(r)) \in Nat
    BY <1>1
  <2>5. Cardinality(above(x)) \in counts
    OBVIOUS
  <2> HIDE DEF above
  <2>6. Cardinality(above(x)) <= Cardinality(above(r)) /\ Cardinality(above(x)) # Cardinality(above(r))
    BY <2>2, <2>3, <2>4, FS_Subset
  <2> HIDE DEF counts
  <2> QED BY <1>3, <1>4, <2>4, <2>5, <2>6
<1>6. \E x \in S : \A y \in S : x >= y
  BY <1>5
<1> QED BY <1>6 DEF Max

\* A caller's limit, clamped to the rows that a page may have.
LEMMA Bounded ==
    bounded(MaxRows) = MaxRows /\ bounded(0) = 1
<1>1. MaxRows \in Nat \ {0}
  BY PagesAssumption
<1>2. Min({MaxRows, MaxRows}) = MaxRows /\ Min({0, MaxRows}) = 0
  BY <1>1, Smaller
<1>3. Max({1, MaxRows}) = MaxRows
  <2>1. Max({1, MaxRows}) \in {1, MaxRows} /\ \A y \in {1, MaxRows} : Max({1, MaxRows}) >= y
    <3>1. \E x \in {1, MaxRows} : \A y \in {1, MaxRows} : x >= y
      BY <1>1
    <3> QED BY <3>1 DEF Max
  <2> QED BY <1>1, <2>1
<1>4. Max({1, 0}) = 1
  <2>1. Max({1, 0}) \in {1, 0} /\ \A y \in {1, 0} : Max({1, 0}) >= y
    <3>1. \E x \in {1, 0} : \A y \in {1, 0} : x >= y
      OBVIOUS
    <3> QED BY <3>1 DEF Max
  <2> QED BY <2>1
<1> QED BY <1>2, <1>3, <1>4 DEF bounded

-----------------------------------------------------------------------------
(* The declarations, as they are read. *)

\* A threshold is found by its name.
ByName(T) == [m \in {t.name : t \in T} |-> (CHOOSE t \in T : t.name = m).days]

LEMMA Named ==
    ASSUME NEW T, NEW n, NEW d, Threshold(n, d) \in T, \A t \in T : t.name = n => t = Threshold(n, d)
    PROVE  ByName(T)[n] = d
<1>1. Threshold(n, d).name = n /\ Threshold(n, d).days = d
  BY DEF Threshold
<1>2. (CHOOSE t \in T : t.name = n) = Threshold(n, d)
  BY <1>1
<1>3. n \in {t.name : t \in T}
  BY <1>1
<1> QED BY <1>1, <1>2, <1>3 DEF ByName

LEMMA ThresholdsByName ==
    /\ Days["dead_stock"]["stale_after_days"] = StaleAfterDays
    /\ Days["dead_stock"]["feed_stale_after_days"] = FeedStaleAfterDays
    /\ Days["stockout_risk"]["stale_after_days"] = SeriesStaleAfterDays
    /\ Days["stockout_risk"]["window_days"] = WindowDays
<1>1. /\ DOMAIN _DECLARATIONS = Analyses
      /\ _DECLARATIONS["dead_stock"] = DEAD_STOCK /\ _DECLARATIONS["stockout_risk"] = STOCKOUT_RISK
  BY DEF _DECLARATIONS, Analyses
<1>2. \A a \in DOMAIN _DECLARATIONS : Days[a] = ByName(ToSet(_DECLARATIONS[a].thresholds))
  BY DEF Days, ByName
<1>3. \A n, d : Threshold(n, d).name = n
  BY DEF Threshold
<1>4. PICK T : T = ToSet(DEAD_STOCK.thresholds)
  OBVIOUS
<1>5. T = {Threshold("stale_after_days", StaleAfterDays),
           Threshold("expires_after_days", ExpiresAfterDays["dead_stock"]),
           Threshold("feed_stale_after_days", FeedStaleAfterDays)}
  BY <1>4 DEF DEAD_STOCK, ToSet
<1>6. PICK U : U = ToSet(STOCKOUT_RISK.thresholds)
  OBVIOUS
<1>7. U = {Threshold("window_days", WindowDays), Threshold("at_risk_below_days", AtRiskBelowDays),
           Threshold("stale_after_days", SeriesStaleAfterDays),
           Threshold("expires_after_days", ExpiresAfterDays["stockout_risk"])}
  BY <1>6 DEF STOCKOUT_RISK, ToSet
<1>8. Days["dead_stock"] = ByName(T) /\ Days["stockout_risk"] = ByName(U)
  BY <1>1, <1>2, <1>4, <1>6 DEF Analyses
<1>9. ByName(T)["stale_after_days"] = StaleAfterDays /\ ByName(T)["feed_stale_after_days"] = FeedStaleAfterDays
  BY <1>3, <1>5, Named
<1>10. ByName(U)["stale_after_days"] = SeriesStaleAfterDays /\ ByName(U)["window_days"] = WindowDays
  BY <1>3, <1>7, Named
<1> QED BY <1>8, <1>9, <1>10

TheGate == MinHistory(MinHistoryDays, "any_series")

LEMMA RequirementsById ==
    /\ DOMAIN Requirement["dead_stock"] = {"current_state", "last_sale_at"}
    /\ DOMAIN Requirement["stockout_risk"] = {"current_state", "daily_series"}
    /\ Requirement["dead_stock"]["current_state"].gates = {}
    /\ Requirement["dead_stock"]["last_sale_at"].gates = {}
    /\ Requirement["stockout_risk"]["current_state"].gates = {}
    /\ Requirement["stockout_risk"]["daily_series"].gates = {TheGate}
    /\ Gates["stockout_risk"] = {TheGate}
<1> DEFINE here == CapabilityRequirement("current_state", Position \cup {"stock_qty", "sku_status"}, {}, Null)
           last == CapabilityRequirement("last_sale_at", Position \cup {"last_sale_date"}, {}, Null)
           series == CapabilityRequirement("daily_series", Position \cup {"event_date", "net_quantity"},
                                           {TheGate}, "window_days")
<1>1. ToSet(DEAD_STOCK.requires) = {here, last} /\ ToSet(STOCKOUT_RISK.requires) = {here, series}
  BY DEF DEAD_STOCK, STOCKOUT_RISK, STOCKOUT_RISK_REQUIRES, TheGate, ToSet
<1>2. /\ here.capability_id = "current_state" /\ here.gates = {}
      /\ last.capability_id = "last_sale_at" /\ last.gates = {}
      /\ series.capability_id = "daily_series" /\ series.gates = {TheGate}
  BY DEF CapabilityRequirement
<1>3. /\ Requirement["dead_stock"] = [id \in {r.capability_id : r \in ToSet(DEAD_STOCK.requires)} |->
                                        CHOOSE r \in ToSet(DEAD_STOCK.requires) : r.capability_id = id]
      /\ Requirement["stockout_risk"] = [id \in {r.capability_id : r \in ToSet(STOCKOUT_RISK.requires)} |->
                                           CHOOSE r \in ToSet(STOCKOUT_RISK.requires) : r.capability_id = id]
      /\ Gates["stockout_risk"] = UNION {r.gates : r \in ToSet(STOCKOUT_RISK.requires)}
  BY DEF Requirement, Gates, _DECLARATIONS
<1> HIDE DEF here, last, series
<1>4. /\ {r.capability_id : r \in {here, last}} = {"current_state", "last_sale_at"}
      /\ {r.capability_id : r \in {here, series}} = {"current_state", "daily_series"}
      /\ UNION {r.gates : r \in {here, series}} = {TheGate}
  BY <1>2
<1>5. /\ (CHOOSE r \in {here, last} : r.capability_id = "current_state") = here
      /\ (CHOOSE r \in {here, last} : r.capability_id = "last_sale_at") = last
      /\ (CHOOSE r \in {here, series} : r.capability_id = "current_state") = here
      /\ (CHOOSE r \in {here, series} : r.capability_id = "daily_series") = series
  BY <1>2
<1> QED BY <1>1, <1>2, <1>3, <1>4, <1>5

-----------------------------------------------------------------------------
(* What a plan proposes. *)

StaleBound(a) == IF a = "dead_stock" THEN FeedStaleAfterDays ELSE SeriesStaleAfterDays

\* Some sale line is recent enough for the action's date.
Backed(x) == \E i \in DOMAIN lines : x.as_of - lines[i].day <= StaleBound(x.analysis)

\* The action has stock behind it and can be read back.
Sound(x) == x.quantity # Null /\ (x.analysis = "dead_stock" => x.quantity > 0) /\ Constructible(x)

LineDays == {lines[i].day : i \in DOMAIN lines}

LEMMA LineDaysAreFinite ==
    ASSUME lines \in Seq(SaleRows)
    PROVE  IsFiniteSet(DOMAIN lines) /\ IsFiniteSet(LineDays) /\ LineDays \subseteq Int
<1>1. DOMAIN lines = 1..Len(lines) /\ Len(lines) \in Nat
  OBVIOUS
<1>2. IsFiniteSet(DOMAIN lines)
  BY <1>1, FS_Interval
<1>3. [i \in DOMAIN lines |-> lines[i].day] \in Surjection(DOMAIN lines, LineDays)
  BY DEF Surjection, LineDays
<1>4. IsFiniteSet(LineDays)
  BY <1>2, <1>3, FS_Surjection
<1>5. \A i \in DOMAIN lines : lines[i] \in SaleRows
  OBVIOUS
<1> QED BY <1>2, <1>4, <1>5, WorkloadsAssumption DEF LineDays

\* The latest of some sale days is the day of a line.
LEMMA LatestIsALine ==
    ASSUME lines \in Seq(SaleRows), NEW S, S \subseteq LineDays, S # {}
    PROVE  Max(S) \in LineDays /\ Max(S) \in Int /\ IsFiniteSet(S) /\ Max(S) \in S /\ \A d \in S : Max(S) >= d
<1>1. IsFiniteSet(S) /\ S \subseteq Int
  BY LineDaysAreFinite, FS_Subset
<1>2. Max(S) \in S /\ \A d \in S : Max(S) >= d
  BY <1>1, FiniteMax
<1> QED BY <1>1, <1>2

LEMMA SurvivorsAreLines ==
    ASSUME NEW r \in collapse_latest_wins(lines)
    PROVE  r.day \in LineDays
BY DEF collapse_latest_wins, LineDays

LEMMA SellingDays ==
    ASSUME lines \in Seq(SaleRows), NEW selling,
           selling = resolve_last_sale_at(collapse_latest_wins(lines)), NEW k \in DOMAIN selling
    PROVE  selling[k] \in LineDays
<1> DEFINE survivors == collapse_latest_wins(lines)
           sales == {r \in survivors : r.subtype = "SALE"}
           days(j) == {r.day : r \in {s \in sales : s.sku = j}}
<1>1. /\ DOMAIN selling = {r.sku : r \in sales}
      /\ \A j \in DOMAIN selling : selling[j] = Max(days(j))
  BY DEF resolve_last_sale_at
<1>2. \A r \in sales : r.day \in LineDays
  BY SurvivorsAreLines
<1> HIDE DEF sales
<1>3. days(k) \subseteq LineDays /\ days(k) # {}
  BY <1>1, <1>2
<1> HIDE DEF days
<1> QED BY <1>1, <1>3, LatestIsALine

\* dead_stock: a feed that is not refused has a line that is recent.
LEMMA FeedIsBacked ==
    ASSUME lines \in Seq(SaleRows), NEW asOf \in Int, NEW selling, NEW bound \in Int,
           \A k \in DOMAIN selling : selling[k] \in LineDays,
           _feed_refusal(selling, bound, asOf) = Null
    PROVE  \E d \in LineDays : asOf - d <= bound
<1> DEFINE days == {selling[k] : k \in DOMAIN selling}
<1>0. Null # "no_sale_history" /\ Null # "feed_stale"
  BY SynapseAssumption DEF RefusalReason
<1>1. DOMAIN selling # {} /\ ~(asOf - Max(days) > bound)
  BY <1>0 DEF _feed_refusal
<1>2. days \subseteq LineDays /\ days # {}
  BY <1>1
<1> HIDE DEF days
<1>3. Max(days) \in LineDays /\ Max(days) \in Int
  BY <1>2, LatestIsALine
<1> QED BY <1>1, <1>3

\* stockout_risk: a series that is not refused has a line that is recent.
LEMMA SeriesIsBacked ==
    ASSUME lines \in Seq(SaleRows), NEW asOf \in Int, NEW qty, NEW seen, NEW t, t.stale_after_days \in Int,
           \A r \in seen : r.event_date \in LineDays,
           _refusal(qty, seen, t, asOf) = Null
    PROVE  /\ \E d \in LineDays : asOf - d <= t.stale_after_days
           /\ qty # Null
           /\ TotalSold(seen) > 0
<1> DEFINE days == {r.event_date : r \in seen}
<1>0. /\ Null # "no_stock_quantity" /\ Null # "no_observations_in_window" /\ Null # "series_too_stale"
      /\ Null # "too_few_observations" /\ Null # "no_positive_demand"
  BY SynapseAssumption DEF RefusalReason
<1>1. seen # {} /\ ~(asOf - Max(days) > t.stale_after_days) /\ qty # Null /\ TotalSold(seen) > 0
  BY <1>0 DEF _refusal
<1>2. days \subseteq LineDays /\ days # {}
  BY <1>1
<1> HIDE DEF days
<1>3. Max(days) \in LineDays /\ Max(days) \in Int
  BY <1>2, LatestIsALine
<1> QED BY <1>1, <1>3

LEMMA BackedByDay ==
    ASSUME NEW x, NEW d \in LineDays, x.as_of - d <= StaleBound(x.analysis)
    PROVE  Backed(x)
BY DEF Backed, LineDays

LEMMA ActionFields ==
    ASSUME NEW a, NEW k, NEW asOf, NEW q, NEW m
    PROVE  LET x == Action(a, k, asOf, q, m)
           IN  /\ x.analysis = a /\ x.sku = k /\ x.as_of = asOf /\ x.quantity = q /\ x.measure = m
               /\ x.expires_on = asOf + ExpiresAfterDays[a]
BY DEF Action

\* A dead position has stock, and the feed it was judged by is live.
LEMMA DeadStockIsSound ==
    ASSUME lines \in Seq(SaleRows), NEW asOf \in Int, NEW universe,
           NEW k \in DOMAIN universe, universe[k] \in Nat \cup {Null},
           NEW f, f = _plan_dead_stock(universe, collapse_latest_wins(lines), asOf),
           f[k].is_dead_stock,
           NEW x, x = Action("dead_stock", k, asOf, universe[k], f[k].days_since_last_sale)
    PROVE  Sound(x) /\ Backed(x)
<1>1. PICK selling : selling = resolve_last_sale_at(collapse_latest_wins(lines))
  OBVIOUS
<1>2. f = evaluate_dead_stock(universe, selling, StaleAfterDays, FeedStaleAfterDays, asOf)
  BY <1>1, ThresholdsByName DEF _plan_dead_stock
<1>3. \A j \in DOMAIN selling : selling[j] \in LineDays
  BY <1>1, SellingDays
<1>4. PICK feed : feed = _feed_refusal(selling, FeedStaleAfterDays, asOf)
  OBVIOUS
<1>5. PICK stock : stock = _stock_refusal(universe[k])
  OBVIOUS
<1>6. PICK age : age = IF k \in DOMAIN selling THEN asOf - selling[k] ELSE Null
  OBVIOUS
<1>7. PICK refusal : refusal = IF feed # Null THEN feed ELSE stock
  OBVIOUS
<1>8. PICK row, dead : /\ dead = (refusal = Null /\ (age = Null \/ age >= StaleAfterDays))
                       /\ row = DeadStockRow(age, dead, refusal) /\ f[k] = row
  BY <1>2, <1>4, <1>5, <1>6, <1>7 DEF evaluate_dead_stock
<1>9. /\ f[k].days_since_last_sale = age
      /\ refusal = Null /\ (age = Null \/ age >= StaleAfterDays)
  <2>1. row = DeadStockRow(age, dead, refusal) /\ f[k] = row /\ row.is_dead_stock
    BY <1>8
  <2>2. row.days_since_last_sale = age /\ row.is_dead_stock = dead
    BY <2>1 DEF DeadStockRow
  <2>3. dead
    BY <2>1, <2>2
  <2> QED BY <1>8, <2>1, <2>2, <2>3
<1>10. feed = Null /\ stock = Null
  BY <1>7, <1>9
<1>11. {StaleAfterDays, FeedStaleAfterDays} \subseteq Nat \ {0} /\ ExpiresAfterDays["dead_stock"] \in Nat
  BY AnalysesAssumption DEF Analyses
<1>12. universe[k] \in Nat /\ universe[k] > 0 /\ universe[k] # Null
  <2>1. Null # "no_stock_quantity" /\ Null # "no_stock_on_hand" /\ Null \notin Int
    BY SynapseAssumption DEF RefusalReason
  <2>2. universe[k] # Null /\ ~(universe[k] <= 0)
    BY <1>5, <1>10, <2>1 DEF _stock_refusal
  <2> QED BY <2>2
<1>13. PICK d \in LineDays : asOf - d <= FeedStaleAfterDays
  <2>1. FeedStaleAfterDays \in Int /\ _feed_refusal(selling, FeedStaleAfterDays, asOf) = Null
    BY <1>4, <1>10, <1>11
  <2> QED BY <1>3, <2>1, FeedIsBacked
<1>14. age # Null => age >= 0
  <2>1. CASE k \in DOMAIN selling
    <3>1. selling[k] \in Int
      BY <1>3, <2>1, LineDaysAreFinite
    <3> QED BY <1>6, <1>9, <1>11, <2>1, <3>1
  <2>2. CASE k \notin DOMAIN selling
    BY <1>6, <2>2
  <2> QED BY <2>1, <2>2
<1>15. /\ x.analysis = "dead_stock" /\ x.as_of = asOf /\ x.quantity = universe[k] /\ x.measure = age
       /\ x.expires_on = asOf + ExpiresAfterDays["dead_stock"]
  BY <1>9, ActionFields
<1>16. x.expires_on >= x.as_of /\ x.quantity >= 0
  BY <1>11, <1>12, <1>15
<1>17. Sound(x)
  BY <1>12, <1>14, <1>15, <1>16 DEF Sound, Constructible
<1>18. Backed(x)
  BY <1>13, <1>15, BackedByDay DEF StaleBound
<1> QED BY <1>17, <1>18

LEMMA SeriesDays ==
    ASSUME NEW only, NEW from, NEW to, NEW r \in resolve_daily_series(collapse_latest_wins(lines), only, from, to)
    PROVE  r.event_date \in LineDays
<1> DEFINE within == {s \in collapse_latest_wins(lines) : /\ s.day \in from..to
                                                          /\ only = Null \/ s.sku \in only}
           sums == [s \in within |-> NetQuantity({v \in within : v.sku = s.sku /\ v.day = s.day})]
<1>1. r \in {[sku |-> s.sku, event_date |-> s.day, net_quantity |-> sums[s]] : s \in within}
  BY DEF resolve_daily_series
<1>2. within \subseteq collapse_latest_wins(lines)
  OBVIOUS
<1> HIDE DEF within, sums
<1>3. PICK s \in within : r.event_date = s.day
  BY <1>1
<1> QED BY <1>2, <1>3, SurvivorsAreLines

LEMMA Times == ASSUME NEW m \in Nat, NEW n \in Nat PROVE m * n \in Nat
OBVIOUS

\* A position at risk has stock, demand, and a series that is live.
LEMMA StockoutIsSound ==
    ASSUME lines \in Seq(SaleRows), NEW asOf \in Int, NEW universe, NEW fetch,
           NEW k \in DOMAIN universe, universe[k] \in Nat \cup {Null},
           NEW f, f = _plan_stockout_risk(universe, collapse_latest_wins(lines), fetch, asOf),
           f[k].is_at_risk,
           NEW x, x = Action("stockout_risk", k, asOf, universe[k], f[k].days_of_cover)
    PROVE  Sound(x) /\ Backed(x)
<1>1. PICK series : series = resolve_daily_series(collapse_latest_wins(lines), fetch.only_series,
                                                  fetch.window.date_from, fetch.window.date_to)
  OBVIOUS
<1>2. PICK t : t = [window_days |-> Days["stockout_risk"]["window_days"],
                    at_risk_below_days |-> Days["stockout_risk"]["at_risk_below_days"],
                    stale_after_days |-> Days["stockout_risk"]["stale_after_days"],
                    min_observations |-> (CHOOSE g \in Gates["stockout_risk"] : TRUE).days]
  OBVIOUS
<1>3. f = evaluate_stockout_risk(universe, series, t, asOf)
  BY <1>1, <1>2 DEF _plan_stockout_risk
<1>4. t.stale_after_days = SeriesStaleAfterDays /\ t.window_days = WindowDays
  BY <1>2, ThresholdsByName
<1>5. PICK seen : seen = {r \in series : r.sku = k}
  OBVIOUS
<1>6. f[k] = _assess(universe[k], seen, t, asOf)
  BY <1>3, <1>5 DEF evaluate_stockout_risk
<1>7. \A r \in seen : r.event_date \in LineDays
  BY <1>1, <1>5, SeriesDays
<1>8. PICK refusal : refusal = _refusal(universe[k], seen, t, asOf)
  OBVIOUS
<1>9. refusal = Null /\ f[k].days_of_cover = <<universe[k] * t.window_days, TotalSold(seen)>>
  BY <1>6, <1>8 DEF _assess, StockoutRiskRow
<1>10. SeriesStaleAfterDays \in Int /\ WindowDays \in Nat /\ ExpiresAfterDays["stockout_risk"] \in Nat
  BY AnalysesAssumption DEF Analyses
<1>11. /\ \E d \in LineDays : asOf - d <= t.stale_after_days
       /\ universe[k] # Null
       /\ TotalSold(seen) > 0
  BY <1>4, <1>7, <1>8, <1>9, <1>10, SeriesIsBacked
<1>12. universe[k] \in Nat /\ universe[k] * WindowDays \in Nat
  BY <1>10, <1>11, Times
<1>13. /\ x.analysis = "stockout_risk" /\ x.as_of = asOf /\ x.quantity = universe[k]
       /\ x.measure = <<universe[k] * WindowDays, TotalSold(seen)>>
       /\ x.expires_on = asOf + ExpiresAfterDays["stockout_risk"]
  BY <1>4, <1>9, ActionFields
<1>14. x.expires_on >= x.as_of /\ x.quantity >= 0 /\ universe[k] * WindowDays >= 0
  BY <1>10, <1>12, <1>13
<1>15. x.measure[1] >= 0 /\ x.measure[2] > 0
  BY <1>11, <1>13, <1>14
<1>16. Sound(x)
  BY <1>11, <1>13, <1>14, <1>15 DEF Sound, Constructible
<1>17. Backed(x)
  BY <1>4, <1>11, <1>13, BackedByDay DEF StaleBound
<1> QED BY <1>16, <1>17

Stocked(universe) == \A k \in DOMAIN universe : universe[k] \in Nat \cup {Null}

SoundActions(A) ==
    /\ \A x \in A : Sound(x) /\ Backed(x)
    /\ \A x, y \in A : x.sku = y.sku => x = y

LEMMA PlanIsSound ==
    ASSUME lines \in Seq(SaleRows), NEW a \in Analyses, NEW asOf \in Int, NEW universe,
           Stocked(universe), NEW fetches, NEW result,
           result = PlanResult(a, universe, FindingsOf(a, universe, collapse_latest_wins(lines), fetches, asOf), asOf)
    PROVE  SoundActions(result.actions)
<1>1. PICK f : f = FindingsOf(a, universe, collapse_latest_wins(lines), fetches, asOf) /\ DOMAIN f = DOMAIN universe
  BY FindingsShape
<1>2. CASE a = "dead_stock"
  <2>1. f = _plan_dead_stock(universe, collapse_latest_wins(lines), asOf)
    BY <1>1, <1>2 DEF FindingsOf
  <2>2. \A x \in result.actions : \E k \in DOMAIN universe :
          f[k].is_dead_stock /\ x = Action("dead_stock", k, asOf, universe[k], f[k].days_since_last_sale)
    BY <1>1, <1>2 DEF PlanResult, propose_dead_stock_actions
  <2>3. \A x \in result.actions : Sound(x) /\ Backed(x)
    <3> TAKE x \in result.actions
    <3>1. PICK k \in DOMAIN universe :
            f[k].is_dead_stock /\ x = Action("dead_stock", k, asOf, universe[k], f[k].days_since_last_sale)
      BY <2>2
    <3>2. universe[k] \in Nat \cup {Null}
      BY DEF Stocked
    <3> QED BY <2>1, <3>1, <3>2, DeadStockIsSound
  <2>4. \A x, y \in result.actions : x.sku = y.sku => x = y
    BY <2>2, ActionFields
  <2> QED BY <2>3, <2>4 DEF SoundActions
<1>3. CASE a = "stockout_risk"
  <2>1. f = _plan_stockout_risk(universe, collapse_latest_wins(lines), fetches["daily_series"], asOf)
    BY <1>1, <1>3 DEF FindingsOf
  <2>2. \A x \in result.actions : \E k \in DOMAIN universe :
          f[k].is_at_risk /\ x = Action("stockout_risk", k, asOf, universe[k], f[k].days_of_cover)
    BY <1>1, <1>3 DEF PlanResult, propose_stockout_actions
  <2>3. \A x \in result.actions : Sound(x) /\ Backed(x)
    <3> TAKE x \in result.actions
    <3>1. PICK k \in DOMAIN universe :
            f[k].is_at_risk /\ x = Action("stockout_risk", k, asOf, universe[k], f[k].days_of_cover)
      BY <2>2
    <3>2. universe[k] \in Nat \cup {Null}
      BY DEF Stocked
    <3> QED BY <2>1, <3>1, <3>2, StockoutIsSound
  <2>4. \A x, y \in result.actions : x.sku = y.sku => x = y
    BY <2>2, ActionFields
  <2> QED BY <2>3, <2>4 DEF SoundActions
<1> QED BY <1>2, <1>3 DEF Analyses

-----------------------------------------------------------------------------
(* What a plan fetches. *)

\* A fetch for every requirement, narrowed if it is gated.
BoundTo(a, fetches) ==
    /\ DOMAIN fetches = DOMAIN Requirement[a]
    /\ \A id \in DOMAIN Requirement[a] :
         IF Requirement[a][id].gates = {} THEN fetches[id].only_series = Null
         ELSE fetches[id].only_series \notin {Null, {}}

NarrowedTo(gates, observed) ==
    IF gates = {} THEN Null ELSE {k \in Skus : \A g \in gates : k \in observed[g.kind].qualifying}
AllSatisfied(gates, observed) == \A g \in gates : satisfies(g.policy, observed[g.kind])

LEMMA SatisfiedResolution ==
    ASSUME NEW id, NEW gates, NEW observed, NEW r, r = resolve(id, gates, observed), r.status = "satisfied"
    PROVE  r.qualifying = NarrowedTo(gates, observed) /\ AllSatisfied(gates, observed)
<1>1. Unregistered(id).status # "satisfied" /\ Raised.status # "satisfied"
  BY DEF Unregistered, Raised
<1>2. \A u : PreconditionUnmet(u).status # "satisfied"
  BY DEF PreconditionUnmet
<1>3. \A q : Satisfied(q).qualifying = q
  BY DEF Satisfied
<1> DEFINE unmet == {g \in gates : ~satisfies(g.policy, observed[g.kind])}
           rest == NarrowedTo(gates, observed)
<1>4. r = IF id \notin DOMAIN _REGISTRY THEN Unregistered(id)
          ELSE IF {g.kind : g \in gates} # _REGISTRY[id].descriptor.gates THEN Raised
          ELSE IF unmet # {} THEN PreconditionUnmet({g.kind : g \in unmet})
          ELSE Satisfied(rest)
  BY DEF resolve, NarrowedTo
<1>5. r = Satisfied(rest) /\ unmet = {}
  <2> HIDE DEF rest, unmet
  <2> QED BY <1>1, <1>2, <1>4
<1> QED BY <1>3, <1>5 DEF AllSatisfied

LEMMA FetchesResolved ==
    ASSUME NEW a \in Analyses, NEW asOf, NEW observed, NEW r, r = resolve_declaration(a, asOf, observed),
           r # Raised, r.status # "blocked",
           NEW counts, NEW series, series \in SUBSET Skus, Agrees(counts, series),
           a = "stockout_risk" => observed = [min_history_days |-> Observation(counts, series)]
    PROVE  BoundTo(a, r.fetches)
<1> DEFINE required == DOMAIN Requirement[a]
           outcome(id) == resolve(id, Requirement[a][id].gates, observed)
           blocked == {id \in required : outcome(id).status # "satisfied"}
           fetches == [id \in required |-> [only_series |-> outcome(id).qualifying, window |-> window_for(a, id, asOf)]]
<1>1. r = IF \E id \in required : outcome(id) = Raised THEN Raised
          ELSE IF blocked # {} THEN [status |-> "blocked", blocked |-> blocked]
          ELSE [status |-> "satisfied", fetches |-> fetches]
  BY DEF resolve_declaration
<1>2. blocked = {} /\ r.fetches = fetches
  <2> HIDE DEF blocked, fetches
  <2> QED BY <1>1
<1>3. \A id \in required :
        fetches[id].only_series = outcome(id).qualifying /\ outcome(id).status = "satisfied"
  BY <1>2
<1>4. DOMAIN r.fetches = required
  BY <1>2
<1>5. ASSUME NEW id \in required
      PROVE  IF Requirement[a][id].gates = {} THEN fetches[id].only_series = Null
             ELSE fetches[id].only_series \notin {Null, {}}
  <2>1. PICK gates : gates = Requirement[a][id].gates
    OBVIOUS
  <2>2. PICK o : o = resolve(id, gates, observed) /\ o.status = "satisfied" /\ fetches[id].only_series = o.qualifying
    BY <1>3, <1>5, <2>1
  <2>3. /\ o.qualifying = IF gates = {} THEN Null
                         ELSE {k \in Skus : \A g \in gates : k \in observed[g.kind].qualifying}
        /\ \A g \in gates : satisfies(g.policy, observed[g.kind])
    <3>1. o.qualifying = NarrowedTo(gates, observed) /\ AllSatisfied(gates, observed)
      BY <2>2, SatisfiedResolution
    <3> QED BY <3>1 DEF NarrowedTo, AllSatisfied
  <2>4. CASE gates = {}
    BY <2>1, <2>2, <2>3, <2>4
  <2>5. CASE gates # {}
    <3>1. a = "stockout_risk" /\ gates = {TheGate}
      BY <1>5, <2>1, <2>5, RequirementsById DEF Analyses
    <3>2. TheGate.kind = "min_history_days" /\ TheGate.policy = "any_series"
      BY DEF TheGate, MinHistory
    <3>3. PICK seen : seen = observed["min_history_days"]
      OBVIOUS
    <3>4. seen.qualifying = series /\ seen.pairs_qualifying = counts.pairs_qualifying
      BY <3>1, <3>3 DEF Observation
    <3>5. seen.pairs_qualifying > 0
      BY <2>3, <3>1, <3>2, <3>3 DEF satisfies
    <3>6. series # {}
      BY <3>4, <3>5, FS_EmptySet DEF Agrees
    <3>7. o.qualifying = {k \in Skus : k \in series}
      BY <2>3, <2>5, <3>1, <3>2, <3>3, <3>4
    <3>8. o.qualifying = series
      BY <3>7
    <3>9. series # Null
      BY SynapseAssumption
    <3> QED BY <2>1, <2>2, <2>5, <3>6, <3>8, <3>9
  <2> QED BY <2>4, <2>5
<1> HIDE DEF fetches
<1> QED BY <1>2, <1>4, <1>5 DEF BoundTo

-----------------------------------------------------------------------------
(* The second invariant: what the screens rest on. *)

\* Only a tenant that is mirrored is provisioned, swept or asked about.
MirrorInv ==
    \/ mirrored
    \/ /\ DOMAIN provision = {}
       /\ \A r \in Requests : request[r].pc \notin {"enable", "publish"}
       /\ \A j \in Jobs : DOMAIN job[j].todo = {} /\ job[j].pc \notin Busy
       /\ \A p \in Pairs : run[p] = Null

\* The plans that were computed: one sound action per SKU, on a feed that was live.
SoundPlan(p, P) ==
    /\ IsFiniteSet(P)
    /\ \A x \in P : x.analysis = p[1] /\ x.as_of = p[2] /\ Sound(x) /\ Backed(x)
    /\ \A x, y \in P : x.sku = y.sku => x = y
PlansInv == \A p \in Pairs : \A P \in attempted[p] : SoundPlan(p, P)

FetchInv(x) ==
    /\ x.pc = "plan" => Stocked(x.universe)
    /\ x.pc \in {"universe", "plan", "append"} => BoundTo(x.analysis, x.fetches)

ReadsInv ==
    /\ MirrorInv
    /\ Stocked(positions)
    /\ PlansInv
    /\ IsFiniteSet(actions)
    /\ \A j \in Jobs : FetchInv(job[j])

LEMMA SlotsAreDates == Slots \subseteq Int
BY SynapseAssumption DEF Slots, slot_for

LEMMA ReadsInit == Init => ReadsInv
<1> SUFFICES ASSUME Init PROVE ReadsInv
  OBVIOUS
<1>1. Idle.pc = "idle" /\ DOMAIN Idle.todo = {}
  BY DEF Idle
<1>2. \A j \in Jobs : job[j] = Idle
  BY DEF Init
<1>3. MirrorInv
  <2>1. \A j \in Jobs : DOMAIN job[j].todo = {} /\ job[j].pc \notin Busy
    BY <1>1, <1>2 DEF Busy
  <2>2. \A r \in Requests : request[r].pc \notin {"enable", "publish"}
    BY DEF Init
  <2>3. \A p \in Pairs : run[p] = Null
    BY DEF Init
  <2>4. mirrored \/ DOMAIN provision = {}
    BY DEF Init
  <2> QED BY <2>1, <2>2, <2>3, <2>4 DEF MirrorInv
<1>4. Stocked(positions)
  <2>1. PICK w \in Workloads : positions = w.positions
    BY DEF Init
  <2> QED BY <2>1, WorkloadsAssumption DEF Stocked
<1>5. PlansInv /\ IsFiniteSet(actions)
  BY FS_EmptySet DEF Init, PlansInv
<1>6. \A j \in Jobs : FetchInv(job[j])
  BY <1>1, <1>2 DEF FetchInv
<1> QED BY <1>3, <1>4, <1>5, <1>6 DEF ReadsInv

\* Lines only arrive.
LEMMA BackedStays ==
    ASSUME NEW x, Backed(x), UNCHANGED lines \/ \E r : lines' = Append(lines, r), lines \in Seq(SaleRows)
    PROVE  Backed(x)'
<1>1. PICK i \in DOMAIN lines : x.as_of - lines[i].day <= StaleBound(x.analysis)
  BY DEF Backed
<1>2. i \in DOMAIN lines' /\ lines'[i] = lines[i]
  OBVIOUS
<1> QED BY <1>1, <1>2 DEF Backed, StaleBound

LEMMA PlansStay ==
    ASSUME PlansInv, UNCHANGED attempted, lines \in Seq(SaleRows),
           UNCHANGED lines \/ \E r : lines' = Append(lines, r)
    PROVE  PlansInv'
<1> SUFFICES ASSUME NEW p \in Pairs, NEW P \in attempted[p] PROVE SoundPlan(p, P)'
  BY DEF PlansInv
<1>1. SoundPlan(p, P)
  BY DEF PlansInv
<1>2. \A x \in P : Backed(x)'
  BY <1>1, BackedStays DEF SoundPlan
<1> QED BY <1>1, <1>2 DEF SoundPlan, Sound, Constructible

\* One execution moves.
LEMMA FetchMoves ==
    ASSUME SweepInv, NEW j \in Jobs, NEW x, job' = [job EXCEPT ![j] = x],
           FetchInv(x), \A i \in Jobs : FetchInv(job[i])
    PROVE  \A i \in Jobs : FetchInv(job[i])'
<1> TAKE i \in Jobs
<1>1. PICK y : y = job'[i]
  OBVIOUS
<1>2. y = IF i = j THEN x ELSE job[i]
  BY <1>1 DEF SweepInv
<1>3. FetchInv(y)
  BY <1>2
<1> QED BY <1>1, <1>3 DEF FetchInv, Stocked, BoundTo

\* What FetchInv looks at, after a step of the plan.
LEMMA FetchesGoOn ==
    ASSUME SweepInv, Stocked(positions), NEW j \in Jobs, FetchInv(job[j]), JobStep(j) \/ AnalysisFails(j) \/ Crash(j)
    PROVE  \E x : job' = [job EXCEPT ![j] = x] /\ FetchInv(x)
<1>1. PICK s : s = job[j] /\ LocalsInv(s) /\ SlotInv(s) /\ DOMAIN s = JobFields /\ FetchInv(s)
  BY DEF SweepInv, LocalsInv
<1>2. ASSUME NEW x, job' = [job EXCEPT ![j] = x], x.pc \notin {"universe", "plan", "append"}
      PROVE  \E y : job' = [job EXCEPT ![j] = y] /\ FetchInv(y)
  BY <1>2 DEF FetchInv
<1>3. CASE StartSweep(j)
  <2>1. CASE WithinEnvelope
    <3>1. PICK x : x = [Idle EXCEPT !.pc = "next", !.attempt = job[j].attempt + 1, !.now = now,
                                    !.todo = [a \in Active |-> provision[a]]]
      OBVIOUS
    <3>2. job' = [job EXCEPT ![j] = x]
      BY <1>3, <2>1, <3>1 DEF StartSweep
    <3>3. x.pc = "next"
      BY <3>1 DEF Idle
    <3> QED BY <1>2, <3>2, <3>3
  <2>2. CASE ~WithinEnvelope
    <3>1. PICK pc : pc = IF job[j].attempt + 1 <= MaxRetries THEN "retry" ELSE "red"
      OBVIOUS
    <3>2. PICK x : x = [Idle EXCEPT !.pc = pc, !.attempt = job[j].attempt + 1]
      OBVIOUS
    <3>3. job' = [job EXCEPT ![j] = x]
      BY <1>3, <2>2, <3>1, <3>2 DEF StartSweep
    <3>4. x.pc = pc
      BY <3>2 DEF Idle
    <3> QED BY <1>2, <3>1, <3>3, <3>4
  <2> QED BY <2>1, <2>2
<1>4. CASE Claim(j)
  <2>1. s.pc = "next"
    BY <1>1, <1>4 DEF Claim
  <2>2. PICK a, p, pair : a = NextUp(j) /\ p = <<a, NextSlot(j)>> /\ pair = run'[p].outcome
    OBVIOUS
  <2>3. CASE pair = Null
    <3>1. PICK x : x = [s EXCEPT !.pc = "resolve", !.analysis = a, !.slot = p[2], !.todo = Without(@, a)]
      OBVIOUS
    <3>2. job' = [job EXCEPT ![j] = x]
      BY <1>1, <1>4, <2>2, <2>3, <3>1 DEF Claim
    <3>3. x.pc = "resolve"
      BY <1>1, <3>1 DEF JobFields
    <3> QED BY <1>2, <3>2, <3>3
  <2>4. CASE pair # Null
    <3>1. PICK x : x = [s EXCEPT !.todo = Without(@, a), !.results = @ \cup {[pair |-> p, outcome |-> run[p].outcome]}]
      OBVIOUS
    <3>2. job' = [job EXCEPT ![j] = x]
      BY <1>1, <1>4, <2>2, <2>4, <3>1 DEF Claim
    <3>3. x.pc = "next"
      BY <1>1, <2>1, <3>1 DEF JobFields
    <3> QED BY <1>2, <3>2, <3>3
  <2> QED BY <2>3, <2>4
<1>5. CASE Complete(j)
  <2>1. PICK x : x = [Idle EXCEPT !.pc = "next", !.attempt = s.attempt, !.now = s.now, !.todo = s.todo,
                        !.results = s.results \cup {[pair |-> <<s.analysis, s.slot>>, outcome |-> s.outcome]}]
    OBVIOUS
  <2>2. job' = [job EXCEPT ![j] = x]
    BY <1>1, <1>5, <2>1 DEF Complete
  <2>3. x.pc = "next"
    BY <2>1 DEF Idle
  <2> QED BY <1>2, <2>2, <2>3
<1>6. CASE Finish(j) \/ Crash(j)
  <2>1. \A g, rs : Ended(j, g, rs).pc \in {"green", "retry", "red"}
    BY DEF Ended, Idle
  <2>2. CASE Crash(j)
    <3>1. job' = [job EXCEPT ![j] = Ended(j, FALSE, {})]
      BY <2>2 DEF Crash
    <3> QED BY <1>2, <2>1, <3>1
  <2>3. CASE Finish(j)
    <3>1. PICK green, results : job' = [job EXCEPT ![j] = Ended(j, green, results)]
      BY <2>3 DEF Finish
    <3> QED BY <1>2, <2>1, <3>1
  <2> QED BY <1>6, <2>2, <2>3
<1>7. CASE AnalysisFails(j)
  <2>1. PICK x : x = [s EXCEPT !.pc = "complete", !.outcome = "failed", !.appended = 0, !.pending = {}, !.counts = Null]
    OBVIOUS
  <2>2. job' = [job EXCEPT ![j] = x] /\ x.pc = "complete"
    BY <1>1, <1>7, <2>1 DEF AnalysisFails, JobFields
  <2> QED BY <1>2, <2>2
<1>8. CASE FetchUniverse(j)
  <2>1. PICK x : x = [s EXCEPT !.pc = "plan", !.universe = positions]
    OBVIOUS
  <2>2. x.pc = "plan" /\ x.universe = positions /\ x.analysis = s.analysis /\ x.fetches = s.fetches
    BY <1>1, <2>1 DEF JobFields
  <2>3. job' = [job EXCEPT ![j] = x] /\ s.pc = "universe"
    BY <1>1, <1>8, <2>1 DEF FetchUniverse
  <2> QED BY <1>1, <2>2, <2>3 DEF FetchInv
<1>9. CASE Plan(j)
  <2>1. PICK result : job' = [job EXCEPT ![j] =
                     [@ EXCEPT !.pc = IF result.actions = {} THEN "complete" ELSE "append",
                               !.proposed = result.actions, !.pending = result.actions,
                               !.refusals = result.refusals]]
    BY <1>9 DEF Plan
  <2>2. PICK pc : pc = IF result.actions = {} THEN "complete" ELSE "append"
    OBVIOUS
  <2>3. PICK x : x = [s EXCEPT !.pc = pc, !.proposed = result.actions, !.pending = result.actions,
                               !.refusals = result.refusals]
    OBVIOUS
  <2>4. x.pc # "plan" /\ x.analysis = s.analysis /\ x.fetches = s.fetches
    BY <1>1, <2>2, <2>3 DEF JobFields
  <2>5. job' = [job EXCEPT ![j] = x] /\ s.pc = "plan"
    BY <1>1, <1>9, <2>1, <2>2, <2>3 DEF Plan
  <2> QED BY <1>1, <2>4, <2>5 DEF FetchInv
<1>10. CASE AppendAction(j)
  <2>0. PICK action : action = CHOOSE x \in job[j].pending : \A y \in job[j].pending : x.sku <= y.sku
    OBVIOUS
  <2>1. PICK pc, pending, appended :
          /\ pending = job[j].pending \ {action}
          /\ pc = IF pending = {} THEN "complete" ELSE "append"
          /\ appended = IF Logged(action) THEN job[j].appended ELSE job[j].appended + 1
    OBVIOUS
  <2>2. PICK x : x = [s EXCEPT !.pc = pc, !.pending = pending, !.appended = appended]
    OBVIOUS
  <2>3. x.pc # "plan" /\ x.analysis = s.analysis /\ x.fetches = s.fetches
    BY <1>1, <2>1, <2>2 DEF JobFields
  <2>4. job' = [job EXCEPT ![j] = x] /\ s.pc = "append"
    BY <1>1, <1>10, <2>0, <2>1, <2>2 DEF AppendAction
  <2> QED BY <1>1, <2>3, <2>4 DEF FetchInv
<1>11. ASSUME s.pc \in Busy, NEW observed, NEW counts, NEW series, series \in SUBSET Skus, Agrees(counts, series),
              s.analysis = "stockout_risk" => observed = [min_history_days |-> Observation(counts, series)],
              NEW x, x = Resolved(j, observed)
       PROVE  FetchInv(x)
  <2>1. PICK r : r = resolve_declaration(s.analysis, s.slot, observed)
    OBVIOUS
  <2>2. x = IF r = Raised THEN Ends(j, "failed")
            ELSE IF r.status = "blocked" THEN Ends(j, "blocked")
            ELSE [s EXCEPT !.pc = "universe", !.fetches = r.fetches, !.counts = Null]
    BY <1>1, <1>11, <2>1 DEF Resolved
  <2>3. \A o : Ends(j, o).pc = "complete"
    BY <1>1 DEF Ends, JobFields
  <2>4. CASE r = Raised \/ r.status = "blocked"
    BY <2>2, <2>3, <2>4 DEF FetchInv
  <2>5. CASE r # Raised /\ r.status # "blocked"
    <3>1. s.analysis \in Analyses
      BY <1>1, <1>11 DEF SlotInv, Pairs, PairOf
    <3>2. BoundTo(s.analysis, r.fetches)
      BY <1>11, <2>1, <2>5, <3>1, FetchesResolved
    <3>3. x.pc = "universe" /\ x.analysis = s.analysis /\ x.fetches = r.fetches
      BY <1>1, <2>2, <2>5 DEF JobFields
    <3> QED BY <3>2, <3>3 DEF FetchInv
  <2> QED BY <2>4, <2>5
<1>12. CASE Resolve(j)
  <2>0. s.pc = "resolve" /\ s.pc \in Busy
    BY <1>1, <1>12 DEF Resolve, Busy
  <2>1. PICK counts : job' = [job EXCEPT ![j] = IF Gates[job[j].analysis] = {} THEN Resolved(j, <<>>)
                                                ELSE [@ EXCEPT !.pc = "probe", !.counts = counts]]
    BY <1>12 DEF Resolve
  <2>2. CASE Gates[s.analysis] = {}
    <3>1. s.analysis # "stockout_risk"
      BY <2>2, RequirementsById
    <3>2. PICK none : none = [pairs_qualifying |-> 0]
      OBVIOUS
    <3>3. Agrees(none, {}) /\ {} \in SUBSET Skus
      BY <3>2, FS_EmptySet DEF Agrees
    <3>4. PICK x : x = Resolved(j, <<>>)
      OBVIOUS
    <3>5. FetchInv(x)
      BY <1>11, <2>0, <3>1, <3>3, <3>4
    <3> QED BY <1>1, <2>1, <2>2, <3>4, <3>5
  <2>3. CASE Gates[s.analysis] # {}
    <3>1. PICK x : x = [s EXCEPT !.pc = "probe", !.counts = counts]
      OBVIOUS
    <3>2. job' = [job EXCEPT ![j] = x] /\ x.pc = "probe"
      BY <1>1, <2>1, <2>3, <3>1 DEF JobFields
    <3> QED BY <1>2, <3>2
  <2> QED BY <2>2, <2>3
<1>13. CASE Probe(j)
  <2>0. s.pc = "probe" /\ s.pc \in Busy
    BY <1>1, <1>13 DEF Probe, Busy
  <2>1. PICK series : /\ series = qualifying_statement(collapse_latest_wins(lines), MinHistoryDays)
                      /\ job' = [job EXCEPT ![j] =
                           IF ~Agrees(job[j].counts, series) THEN Ends(j, "failed")
                           ELSE Resolved(j, [min_history_days |-> Observation(job[j].counts, series)])]
    BY <1>13 DEF Probe
  <2>2. series \in SUBSET Skus
    <3>1. \A r \in collapse_latest_wins(lines) : r.sku \in Skus
      <4>1. \A i \in DOMAIN lines : lines[i] \in SaleRows
        BY DEF SweepInv
      <4> QED BY <4>1, WorkloadsAssumption DEF collapse_latest_wins
    <3> QED BY <2>1, <3>1 DEF qualifying_statement
  <2>3. CASE ~Agrees(job[j].counts, series)
    <3>1. PICK x : x = Ends(j, "failed")
      OBVIOUS
    <3>2. x.pc = "complete"
      BY <1>1, <3>1 DEF Ends, JobFields
    <3> QED BY <1>2, <2>1, <2>3, <3>1, <3>2
  <2>4. CASE Agrees(job[j].counts, series)
    <3>1. PICK x, observed : /\ observed = [min_history_days |-> Observation(job[j].counts, series)]
                             /\ x = Resolved(j, observed)
      OBVIOUS
    <3>2. FetchInv(x)
      BY <1>11, <2>0, <2>2, <2>4, <3>1
    <3> QED BY <2>1, <2>4, <3>1, <3>2
  <2> QED BY <2>3, <2>4
<1> QED BY <1>3, <1>4, <1>5, <1>6, <1>7, <1>8, <1>9, <1>10, <1>12, <1>13 DEF JobStep

\* Of a tenant that is not mirrored there is nothing to sweep.
LEMMA MirrorJobs ==
    ASSUME SweepInv, MirrorInv, NEW j \in Jobs, JobStep(j) \/ AnalysisFails(j) \/ Crash(j),
           UNCHANGED <<provision, request, mirrored>>
    PROVE  MirrorInv'
<1>1. CASE mirrored
  BY <1>1 DEF MirrorInv
<1>2. CASE ~mirrored
  <2>1. /\ DOMAIN provision = {} /\ \A r \in Requests : request[r].pc \notin {"enable", "publish"}
        /\ \A i \in Jobs : DOMAIN job[i].todo = {} /\ job[i].pc \notin Busy
        /\ \A p \in Pairs : run[p] = Null
    BY <1>2 DEF MirrorInv
  <2>2. StartSweep(j) \/ Finish(j) \/ Crash(j)
    <3>1. DOMAIN job[j].todo = {} /\ job[j].pc \notin Busy
      BY <2>1
    <3> QED BY <3>1 DEF JobStep, Claim, Resolve, Probe, FetchUniverse, Plan, AppendAction, Complete, AnalysisFails, Busy
  <2>3. UNCHANGED run
    BY <2>2 DEF StartSweep, Finish, Crash
  <2>4. PICK x : job' = [job EXCEPT ![j] = x] /\ DOMAIN x.todo = {} /\ x.pc \notin Busy
    <3>1. CASE StartSweep(j) /\ WithinEnvelope
      <4>1. PICK x : x = [Idle EXCEPT !.pc = "next", !.attempt = job[j].attempt + 1, !.now = now,
                                      !.todo = [a \in Active |-> provision[a]]]
        OBVIOUS
      <4>2. job' = [job EXCEPT ![j] = x]
        BY <3>1, <4>1 DEF StartSweep
      <4>3. x.pc = "next" /\ x.todo = [a \in Active |-> provision[a]]
        BY <4>1 DEF Idle
      <4>4. Active = {}
        BY <2>1 DEF Active
      <4> QED BY <4>2, <4>3, <4>4 DEF Busy
    <3>2. CASE StartSweep(j) /\ ~WithinEnvelope
      <4>1. PICK pc : pc = IF job[j].attempt + 1 <= MaxRetries THEN "retry" ELSE "red"
        OBVIOUS
      <4>2. PICK x : x = [Idle EXCEPT !.pc = pc, !.attempt = job[j].attempt + 1]
        OBVIOUS
      <4>3. job' = [job EXCEPT ![j] = x]
        BY <3>2, <4>1, <4>2 DEF StartSweep
      <4>4. x.pc = pc /\ x.todo = <<>>
        BY <4>2 DEF Idle
      <4>5. pc \notin Busy
        BY <4>1 DEF Busy
      <4>6. DOMAIN <<>> = {}
        OBVIOUS
      <4> QED BY <4>3, <4>4, <4>5, <4>6
    <3>3. ASSUME NEW g, NEW rs, job' = [job EXCEPT ![j] = Ended(j, g, rs)]
          PROVE  \E x : job' = [job EXCEPT ![j] = x] /\ DOMAIN x.todo = {} /\ x.pc \notin Busy
      <4>1. PICK pc : pc = IF g THEN "green" ELSE IF job[j].attempt <= MaxRetries THEN "retry" ELSE "red"
        OBVIOUS
      <4>2. PICK x : x = [Idle EXCEPT !.pc = pc, !.attempt = job[j].attempt, !.results = rs]
        OBVIOUS
      <4>3. x = Ended(j, g, rs)
        BY <4>1, <4>2 DEF Ended
      <4>4. x.pc = pc /\ x.todo = <<>>
        BY <4>2 DEF Idle
      <4>5. pc \notin Busy
        BY <4>1 DEF Busy
      <4>6. DOMAIN <<>> = {}
        OBVIOUS
      <4> QED BY <3>3, <4>3, <4>4, <4>5, <4>6
    <3>4. CASE Crash(j)
      <4>1. job' = [job EXCEPT ![j] = Ended(j, FALSE, {})]
        BY <3>4 DEF Crash
      <4> QED BY <3>3, <4>1
    <3>5. CASE Finish(j)
      <4>1. PICK green, results : job' = [job EXCEPT ![j] = Ended(j, green, results)]
        BY <3>5 DEF Finish
      <4> QED BY <3>3, <4>1
    <3> QED BY <2>2, <3>1, <3>2, <3>4, <3>5
  <2>5. \A i \in Jobs : DOMAIN job'[i].todo = {} /\ job'[i].pc \notin Busy
    BY <2>1, <2>4 DEF SweepInv
  <2> QED BY <2>1, <2>3, <2>5 DEF MirrorInv
<1> QED BY <1>1, <1>2

\* A plan is computed over lines and stock as they were read.
LEMMA PlansGrow ==
    ASSUME SweepInv, PlansInv, NEW j \in Jobs, FetchInv(job[j]), Plan(j)
    PROVE  PlansInv'
<1>1. PICK s : s = job[j] /\ LocalsInv(s) /\ SlotInv(s) /\ s.pc = "plan" /\ FetchInv(s)
  BY DEF Plan, SweepInv
<1>2. /\ DOMAIN s.universe \subseteq Skus /\ PairOf(s) \in Pairs /\ s.analysis \in Analyses
      /\ s.slot \in Int /\ Stocked(s.universe)
  <2>1. DOMAIN s.universe \subseteq Skus /\ PairOf(s) \in Pairs /\ Stocked(s.universe)
    BY <1>1 DEF LocalsInv, SlotInv, Busy, FetchInv
  <2>2. s.analysis \in Analyses /\ s.slot \in Slots
    BY <2>1 DEF PairOf, Pairs
  <2> QED BY <2>1, <2>2, SlotsAreDates
<1>3. PICK result :
        /\ result = PlanResult(s.analysis, s.universe,
                      FindingsOf(s.analysis, s.universe, collapse_latest_wins(lines), s.fetches, s.slot), s.slot)
        /\ attempted' = [attempted EXCEPT ![<<job[j].analysis, job[j].slot>>] = @ \cup {result.actions}]
  BY <1>1 DEF Plan, AsOf
<1>4. PICK acts : acts = result.actions
  OBVIOUS
<1>5. (\A y \in acts : y.analysis = s.analysis /\ y.as_of = s.slot) /\ IsFiniteSet(acts)
  BY <1>2, <1>3, <1>4, PlanShape
<1>6. lines \in Seq(SaleRows) /\ UNCHANGED lines
  BY DEF SweepInv, Plan, jobUnchanged, worldVars
<1>7. (\A x \in acts : Sound(x) /\ Backed(x)) /\ (\A x, y \in acts : x.sku = y.sku => x = y)
  <2>1. SoundActions(result.actions)
    BY <1>2, <1>3, <1>6, PlanIsSound
  <2> QED BY <1>4, <2>1 DEF SoundActions
<1>8. PICK p \in Pairs : p = PairOf(s) /\ p[1] = s.analysis /\ p[2] = s.slot
  BY <1>2 DEF PairOf
<1>9. SoundPlan(p, acts)
  BY <1>5, <1>7, <1>8 DEF SoundPlan
<1>10. DOMAIN attempted = Pairs
  BY DEF SweepInv, RunInv
<1>11. \A q \in Pairs : \A P \in attempted'[q] : P \in attempted[q] \/ (q = p /\ P = acts)
  BY <1>1, <1>3, <1>4, <1>8, <1>10 DEF PairOf
<1>12. \A q \in Pairs : \A P \in attempted'[q] : SoundPlan(q, P)
  BY <1>9, <1>11 DEF PlansInv
<1> SUFFICES ASSUME NEW q \in Pairs, NEW P \in attempted'[q] PROVE SoundPlan(q, P)'
  BY DEF PlansInv
<1>13. SoundPlan(q, P)
  BY <1>12
<1>14. \A x \in P : Backed(x)'
  BY <1>6, <1>13, BackedStays DEF SoundPlan
<1> QED BY <1>13, <1>14 DEF SoundPlan, Sound, Constructible

\* One execution takes a step.
LEMMA ReadsJobs ==
    ASSUME SweepInv, ReadsInv, NEW j \in Jobs, JobStep(j) \/ AnalysisFails(j) \/ Crash(j)
    PROVE  ReadsInv'
<1>0. UNCHANGED <<provision, request, mirrored, positions, lines>>
  BY DEF JobStep, StartSweep, Claim, Resolve, Probe, FetchUniverse, Plan, AppendAction, AnalysisFails,
         Complete, Finish, Crash, jobUnchanged, worldVars
<1>1. MirrorInv'
  BY <1>0, MirrorJobs DEF ReadsInv
<1>2. Stocked(positions)'
  BY <1>0 DEF ReadsInv, Stocked
<1>3. PlansInv'
  <2>1. CASE Plan(j)
    BY <2>1, PlansGrow DEF ReadsInv
  <2>2. CASE ~Plan(j)
    <3>1. UNCHANGED attempted
      BY <2>2 DEF JobStep, StartSweep, Claim, Resolve, Probe, FetchUniverse, AppendAction, AnalysisFails,
                  Complete, Finish, Crash
    <3> QED BY <1>0, <3>1, PlansStay DEF ReadsInv, SweepInv
  <2> QED BY <2>1, <2>2
<1>4. IsFiniteSet(actions')
  <2>1. CASE AppendAction(j)
    <3>1. PICK action : actions' = actions \/ actions' = actions \cup {action}
      BY <2>1 DEF AppendAction
    <3> QED BY <3>1, FS_AddElement DEF ReadsInv
  <2>2. CASE ~AppendAction(j)
    <3>1. UNCHANGED actions
      BY <2>2 DEF JobStep, StartSweep, Claim, Resolve, Probe, FetchUniverse, Plan, AnalysisFails,
                  Complete, Finish, Crash
    <3> QED BY <3>1 DEF ReadsInv
  <2> QED BY <2>1, <2>2
<1>5. \A i \in Jobs : FetchInv(job[i])'
  <2>1. PICK x : job' = [job EXCEPT ![j] = x] /\ FetchInv(x)
    BY FetchesGoOn DEF ReadsInv
  <2> QED BY <2>1, FetchMoves DEF ReadsInv
<1> QED BY <1>1, <1>2, <1>3, <1>4, <1>5 DEF ReadsInv

\* The executions and the tables of the sweep stay.
LEMMA ReadsElsewhere ==
    ASSUME SweepInv, ReadsInv, UNCHANGED <<attempted, actions, job>>,
           UNCHANGED lines \/ \E r : lines' = Append(lines, r), Stocked(positions)', MirrorInv'
    PROVE  ReadsInv'
<1>1. PlansInv'
  BY PlansStay DEF ReadsInv, SweepInv
<1>2. \A i \in Jobs : FetchInv(job[i])'
  BY DEF ReadsInv, FetchInv, Stocked, BoundTo
<1> QED BY <1>1, <1>2 DEF ReadsInv

LEMMA ReadsWorld ==
    ASSUME SweepInv, ReadsInv, World
    PROVE  ReadsInv'
<1>1. UNCHANGED <<attempted, actions, job, run, request>>
  BY DEF World, Tick, SaleLands, StockMoves, TenantMirrored, OperatorEdits, RecordDecision
<1>2. UNCHANGED lines \/ \E r : lines' = Append(lines, r)
  BY DEF World, Tick, SaleLands, StockMoves, TenantMirrored, OperatorEdits, RecordDecision
<1>3. Stocked(positions)'
  <2>1. CASE StockMoves
    <3>1. PICK k \in Skus, q \in Stocks :
            positions' = [i \in DOMAIN positions \cup {k} |-> IF i = k THEN q ELSE positions[i]]
      BY <2>1 DEF StockMoves
    <3>2. q \in Nat \cup {Null}
      BY SynapseAssumption
    <3>3. \A i \in DOMAIN positions : positions[i] \in Nat \cup {Null}
      BY DEF ReadsInv, Stocked
    <3> QED BY <3>1, <3>2, <3>3 DEF Stocked
  <2>2. CASE ~StockMoves
    <3>1. UNCHANGED positions
      BY <2>2 DEF World, Tick, SaleLands, TenantMirrored, OperatorEdits, RecordDecision
    <3> QED BY <3>1 DEF ReadsInv, Stocked
  <2> QED BY <2>1, <2>2
<1>4. MirrorInv'
  <2>1. DOMAIN provision' = DOMAIN provision /\ (mirrored => mirrored')
    <3>1. CASE OperatorEdits
      <4>1. UNCHANGED mirrored /\ \E a \in DOMAIN provision :
              \/ provision' = [provision EXCEPT ![a].disabled = TRUE]
              \/ provision' = [provision EXCEPT ![a].rung = "suggest"]
        BY <3>1 DEF OperatorEdits
      <4> QED BY <4>1
    <3>2. CASE ~OperatorEdits
      BY <3>2 DEF World, Tick, SaleLands, StockMoves, TenantMirrored, RecordDecision
    <3> QED BY <3>1, <3>2
  <2> QED BY <1>1, <2>1 DEF ReadsInv, MirrorInv
<1> QED BY <1>1, <1>2, <1>3, <1>4, ReadsElsewhere

\* A request gets past the page of a mirrored tenant only.
LEMMA ReadsConsole ==
    ASSUME SweepInv, RequestInv, ReadsInv, NEW r \in Requests, ReadTenant(r) \/ EnableAnalysis(r) \/ PublishNotice(r)
    PROVE  ReadsInv'
<1>1. UNCHANGED <<attempted, actions, job, run, lines, positions, mirrored>>
  BY DEF ReadTenant, EnableAnalysis, PublishNotice, consoleUnchanged, worldVars
<1>2. DOMAIN request = Requests
  BY DEF RequestInv
<1>3. MirrorInv'
  <2>1. CASE mirrored
    BY <1>1, <2>1 DEF MirrorInv
  <2>2. CASE ~mirrored
    <3>1. /\ DOMAIN provision = {} /\ \A q \in Requests : request[q].pc \notin {"enable", "publish"}
          /\ \A i \in Jobs : DOMAIN job[i].todo = {} /\ job[i].pc \notin Busy
          /\ \A p \in Pairs : run[p] = Null
      BY <2>2 DEF ReadsInv, MirrorInv
    <3>2. ReadTenant(r)
      BY <3>1 DEF EnableAnalysis, PublishNotice
    <3>3. request' = [request EXCEPT ![r] = [@ EXCEPT !.pc = "answered", !.status = 404]] /\ UNCHANGED provision
      <4>1. \A a, z : RefusedOnPage(a, z) = 404 /\ 404 # Null
        BY <2>2, SynapseAssumption DEF RefusedOnPage
      <4> QED BY <3>2, <4>1 DEF ReadTenant
    <3>4. request'[r].pc = "answered" /\ \A q \in Requests \ {r} : request'[q] = request[q]
      <4>1. request[r] \in RequestRows
        BY DEF RequestInv
      <4>2. [request[r] EXCEPT !.pc = "answered", !.status = 404].pc = "answered"
        BY <4>1 DEF RequestRows
      <4> QED BY <1>2, <3>3, <4>2
    <3> QED BY <1>1, <3>1, <3>3, <3>4 DEF MirrorInv
  <2> QED BY <2>1, <2>2
<1>4. Stocked(positions)'
  BY <1>1 DEF ReadsInv, Stocked
<1> QED BY <1>1, <1>3, <1>4, ReadsElsewhere

LEMMA ReadsKept == IInv /\ ReadsInv /\ [Next]_vars => ReadsInv'
<1> SUFFICES ASSUME IInv, ReadsInv, [Next]_vars PROVE ReadsInv'
  OBVIOUS
<1>0. SweepInv /\ RequestInv
  BY DEF IInv, ConsoleInv
<1>1. CASE World
  BY <1>0, <1>1, ReadsWorld
<1>2. CASE \E r \in Requests : ReadTenant(r) \/ EnableAnalysis(r) \/ PublishNotice(r)
  BY <1>0, <1>2, ReadsConsole
<1>3. CASE \E j \in Jobs : JobStep(j) \/ AnalysisFails(j) \/ Crash(j)
  BY <1>0, <1>3, ReadsJobs
<1>4. CASE UNCHANGED synapseVars
  <2>1. UNCHANGED <<attempted, actions, job, run, lines, positions, mirrored, provision, request>>
    BY <1>4 DEF synapseVars
  <2>2. Stocked(positions)' /\ MirrorInv'
    BY <2>1 DEF ReadsInv, Stocked, MirrorInv
  <2> QED BY <1>0, <2>1, <2>2, ReadsElsewhere
<1>5. UNCHANGED vars => UNCHANGED synapseVars
  BY DEF vars
<1> QED BY <1>1, <1>2, <1>3, <1>4, <1>5 DEF Next

-----------------------------------------------------------------------------
(* Pages. *)

LEMMA PageShape ==
    ASSUME NEW date, IsFiniteSet(DOMAIN date), NEW limit \in Nat, NEW page \in Pages(date, limit)
    PROVE  /\ page \subseteq DOMAIN date /\ IsFiniteSet(page)
           /\ Cardinality(page) \in Nat /\ Cardinality(DOMAIN date) \in Nat
           /\ Cardinality(page) = Min({limit, Cardinality(DOMAIN date)})
           /\ Cardinality(page) = IF limit <= Cardinality(DOMAIN date) THEN limit ELSE Cardinality(DOMAIN date)
           /\ \A x \in page, y \in DOMAIN date \ page : date[x] >= date[y]
<1>1. /\ page \in SUBSET DOMAIN date
      /\ Cardinality(page) = Min({limit, Cardinality(DOMAIN date)})
      /\ \A x \in page, y \in DOMAIN date \ page : date[x] >= date[y]
  BY DEF Pages, kSubset
<1>2. IsFiniteSet(page) /\ Cardinality(page) \in Nat /\ Cardinality(DOMAIN date) \in Nat
  BY <1>1, FS_Subset, FS_CardinalityType
<1>3. Min({limit, Cardinality(DOMAIN date)}) = IF limit <= Cardinality(DOMAIN date) THEN limit ELSE Cardinality(DOMAIN date)
  BY <1>2, Smaller
<1> QED BY <1>1, <1>2, <1>3

\* Rows that show their alert are as many as the alerts.
LEMMA RowsOfEvents ==
    ASSUME NEW S, IsFiniteSet(S), NEW f, \A x \in S : f[x].event = x, NEW T, T = {f[x] : x \in S}
    PROVE  IsFiniteSet(T) /\ Cardinality(T) = Cardinality(S)
<1> DEFINE g == [x \in S |-> f[x]]
<1>1. g \in [S -> T]
  OBVIOUS
<1>2. \A x, y \in S : g[x] = g[y] => x = y
  OBVIOUS
<1>3. \A t \in T : \E x \in S : g[x] = t
  OBVIOUS
<1> HIDE DEF g
<1>4. g \in Bijection(S, T)
  BY <1>1, <1>2, <1>3 DEF Bijection, Injection, Surjection, IsInjective
<1> QED BY <1>4, FS_Bijection DEF ExistsBijection

\* A list of such rows is cut as the list of their alerts.
EventsOn(page) == {r.event : r \in page}
ShownPages(T, n) == {EventsOn(page) : page \in Pages([r \in T |-> r.event.as_of], n)}
DatedPages(S, n) == Pages([x \in S |-> x.as_of], n)

LEMMA EventPages ==
    ASSUME NEW S, IsFiniteSet(S), NEW f, \A x \in S : f[x].event = x, NEW T, T = {f[x] : x \in S}, NEW n \in Nat
    PROVE  ShownPages(T, n) = DatedPages(S, n)
<1> DEFINE dates == [r \in T |-> r.event.as_of]
           days == [x \in S |-> x.as_of]
<1>1. IsFiniteSet(T) /\ Cardinality(T) = Cardinality(S)
  BY RowsOfEvents
<1>2. DOMAIN dates = T /\ DOMAIN days = S
  OBVIOUS
<1>3. /\ \A r \in T : r.event \in S /\ r = f[r.event] /\ dates[r] = days[r.event]
      /\ \A x \in S : f[x] \in T /\ f[x].event = x /\ dates[f[x]] = days[x]
  OBVIOUS
<1> HIDE DEF dates, days
<1>4. ASSUME NEW page \in Pages(dates, n)
      PROVE  EventsOn(page) \in Pages(days, n)
  <2>1. /\ page \subseteq T /\ IsFiniteSet(page)
        /\ Cardinality(page) = Min({n, Cardinality(T)})
        /\ \A x \in page, y \in T \ page : dates[x] >= dates[y]
    <3>1. IsFiniteSet(DOMAIN dates)
      BY <1>1, <1>2
    <3>2. /\ page \subseteq DOMAIN dates /\ IsFiniteSet(page)
          /\ Cardinality(page) = Min({n, Cardinality(DOMAIN dates)})
          /\ \A x \in page, y \in DOMAIN dates \ page : dates[x] >= dates[y]
      BY <3>1, PageShape
    <3> QED BY <1>2, <3>2
  <2>2. PICK E : E = EventsOn(page)
    OBVIOUS
  <2>3. E \subseteq S /\ page = {f[x] : x \in E} /\ \A x \in E : f[x] \in page
    BY <1>3, <2>1, <2>2 DEF EventsOn
  <2>4. IsFiniteSet(E) /\ \A x \in E : f[x].event = x
    BY <2>3, FS_Subset
  <2>5. Cardinality(page) = Cardinality(E)
    BY <2>3, <2>4, RowsOfEvents
  <2>6. \A x \in E, y \in S \ E : days[x] >= days[y]
    <3> TAKE x \in E, y \in S \ E
    <3>1. f[y] \in T \ page
      BY <1>3, <2>2 DEF EventsOn
    <3>2. f[x] \in page
      BY <2>3
    <3>3. dates[f[x]] >= dates[f[y]]
      BY <2>1, <3>1, <3>2
    <3> QED BY <1>3, <2>3, <3>3
  <2> QED BY <1>1, <1>2, <2>1, <2>2, <2>3, <2>5, <2>6 DEF Pages, kSubset
<1>5. ASSUME NEW E \in Pages(days, n)
      PROVE  \E page \in Pages(dates, n) : E = EventsOn(page)
  <2>1. /\ E \subseteq S /\ IsFiniteSet(E)
        /\ Cardinality(E) = Min({n, Cardinality(S)})
        /\ \A x \in E, y \in S \ E : days[x] >= days[y]
    BY <1>1, <1>2, PageShape
  <2>2. PICK page : page = {f[x] : x \in E}
    OBVIOUS
  <2>3. page \subseteq T /\ E = EventsOn(page)
    BY <1>3, <2>1, <2>2 DEF EventsOn
  <2>4. \A x \in E : f[x].event = x
    BY <2>1
  <2>5. Cardinality(page) = Cardinality(E)
    BY <2>1, <2>2, <2>4, RowsOfEvents
  <2>6. \A r \in page, t \in T \ page : dates[r] >= dates[t]
    <3> TAKE r \in page, t \in T \ page
    <3>1. r.event \in E /\ t.event \in S \ E
      <4>1. PICK x \in E : r = f[x]
        BY <2>2
      <4>2. r.event \in E
        BY <2>4, <4>1
      <4>3. t.event \in S /\ t = f[t.event]
        BY <1>3
      <4>4. t.event \notin E
        BY <2>2, <4>3
      <4> QED BY <4>2, <4>3, <4>4
    <3>2. days[r.event] >= days[t.event]
      BY <2>1, <3>1
    <3> QED BY <1>3, <2>3, <3>2
  <2>7. page \in Pages(dates, n)
    BY <1>1, <1>2, <2>1, <2>3, <2>5, <2>6 DEF Pages, kSubset
  <2> QED BY <2>3, <2>7
<1>6. {EventsOn(page) : page \in Pages(dates, n)} = Pages(days, n)
  BY <1>4, <1>5
<1> QED BY <1>6 DEF dates, days, ShownPages, DatedPages

-----------------------------------------------------------------------------
(* The screens. *)

LEMMA PairsAreFinite == IsFiniteSet(Pairs) /\ IsFiniteSet(Slots)
<1> USE SynapseAssumption
<1>1. IsFiniteSet(StartNow..MaxNow)
  BY FS_Interval
<1>2. IsFiniteSet(Timezones \X (StartNow..MaxNow))
  BY <1>1, FS_Product
<1>3. [zt \in Timezones \X (StartNow..MaxNow) |-> slot_for(zt[1], zt[2])] \in
        Surjection(Timezones \X (StartNow..MaxNow), Slots)
  <2> DEFINE f == [zt \in Timezones \X (StartNow..MaxNow) |-> slot_for(zt[1], zt[2])]
  <2>1. \A zt \in Timezones \X (StartNow..MaxNow) : f[zt] \in Slots
    BY DEF Slots
  <2>2. ASSUME NEW s \in Slots PROVE \E zt \in Timezones \X (StartNow..MaxNow) : f[zt] = s
    <3>1. PICK z \in Timezones, t \in StartNow..MaxNow : s = slot_for(z, t)
      BY DEF Slots
    <3>2. <<z, t>> \in Timezones \X (StartNow..MaxNow) /\ f[<<z, t>>] = s
      BY <3>1
    <3> QED BY <3>2
  <2> QED BY <2>1, <2>2 DEF Surjection
<1>4. IsFiniteSet(Slots)
  BY <1>2, <1>3, FS_Surjection
<1>5. IsFiniteSet(Analyses)
  <2>1. Analyses = {"dead_stock"} \cup {"stockout_risk"}
    BY DEF Analyses
  <2>2. IsFiniteSet({"dead_stock"}) /\ IsFiniteSet({"stockout_risk"})
    BY FS_Singleton
  <2> QED BY <2>1, <2>2, FS_Union
<1> QED BY <1>4, <1>5, FS_Product DEF Pairs

\* The newest of the lines.
LEMMA LatestSale ==
    ASSUME lines \in Seq(SaleRows)
    PROVE  /\ resolve_latest_sale_dates \in Int \cup {Null}
           /\ LineDays # {} => /\ resolve_latest_sale_dates \in Int
                               /\ \A d \in LineDays : d \in Int /\ resolve_latest_sale_dates >= d
<1>1. CASE lines = <<>>
  BY <1>1 DEF resolve_latest_sale_dates, LineDays
<1>2. CASE lines # <<>>
  <2>1. LineDays # {}
    <3>1. 1 \in DOMAIN lines
      BY <1>2
    <3> QED BY <3>1 DEF LineDays
  <2>2. resolve_latest_sale_dates = Max(LineDays)
    BY <1>2 DEF resolve_latest_sale_dates, LineDays
  <2>3. Max(LineDays) \in Int /\ \A d \in LineDays : Max(LineDays) >= d
    BY <2>1, LatestIsALine
  <2>4. \A d \in LineDays : d \in Int
    BY LineDaysAreFinite
  <2> QED BY <2>2, <2>3, <2>4
<1> QED BY <1>1, <1>2

LEMMA States == \A x : LifecycleState(x) \in ALERT_STATES
BY DEF LifecycleState, ALERT_STATES

LEMMA HeaderIsTyped ==
    ASSUME IInv, ReadsInv, NEW q \in BOOLEAN
    PROVE  mirrored => TENANT(q) \in Headers /\ TENANT(q) # Null /\ TENANT(q).open_alerts = OPEN_ALERTS_BY_TENANT(q)
<1> SUFFICES ASSUME mirrored PROVE TENANT(q) \in Headers /\ TENANT(q) # Null /\ TENANT(q).open_alerts = OPEN_ALERTS_BY_TENANT(q)
  OBVIOUS
<1>1. DOMAIN positions \subseteq Skus /\ lines \in Seq(SaleRows) /\ IsFiniteSet(actions)
  BY DEF IInv, SweepInv, ReadsInv
<1>2. Cardinality(DOMAIN positions) \in Nat
  BY <1>1, SynapseAssumption, FS_Subset, FS_CardinalityType
<1>3. Len(lines) \in Nat /\ resolve_latest_sale_dates \in Int \cup {Null}
  BY <1>1, LatestSale
<1>4. Cardinality(actions) \in Nat
  BY <1>1, FS_CardinalityType
<1>5. OPEN_ALERTS_BY_TENANT(q) \in Nat
  <2>1. {x \in actions_analytical(q) : LifecycleState(x) = "open"} \in SUBSET actions
    BY DEF actions_analytical
  <2> QED BY <1>1, <2>1, FS_Subset, FS_CardinalityType DEF OPEN_ALERTS_BY_TENANT
<1>6. TENANT(q) = [products |-> Cardinality(DOMAIN positions), sales_seen |-> Len(lines),
                latest_sale |-> resolve_latest_sale_dates, actions_recorded |-> Cardinality(actions),
                open_alerts |-> OPEN_ALERTS_BY_TENANT(q)]
  BY DEF TENANT
<1>7. TENANT(q) \in Headers /\ TENANT(q).open_alerts = OPEN_ALERTS_BY_TENANT(q)
  BY <1>2, <1>3, <1>4, <1>5, <1>6 DEF Headers
<1> QED BY <1>7, DetailAssumption

LEMMA PagesOfRows ==
    ASSUME NEW S, IsFiniteSet(S), NEW f, NEW T, NEW n \in Nat,
           \A x \in S : f[x].event = x /\ f[x] \in T, \A r \in T : \E x \in S : r = f[x]
    PROVE  ShownPages(T, n) = DatedPages(S, n)
<1>1. T = {f[x] : x \in S} /\ \A x \in S : f[x].event = x
  OBVIOUS
<1> QED BY <1>1, EventPages

\* Roster, page, chips and lists.
LEMMA CountsDoAgree ==
    ASSUME IInv, ReadsInv
    PROVE  CountsAgree
<1> SUFFICES ASSUME NEW q \in BOOLEAN
             PROVE  /\ \A s \in ALERT_STATES : \A page \in fleet_alerts(q, s, Null, MaxRows) :
                         Cardinality(page) = Min({alert_state_counts(q)[s], MaxRows})
                    /\ alert_state_counts(q)["open"] + alert_state_counts(q)["snoozed"]
                         + alert_state_counts(q)["acknowledged"] + alert_state_counts(q)["dismissed"]
                         = Cardinality(actions_analytical(q))
                    /\ mirrored /\ ~q =>
                         {{r.event : r \in page} : page \in fleet_alerts(q, Null, Null, MaxRows)}
                           = {{r.event : r \in page} : page \in tenant_alerts(MaxRows)}
                    /\ \A row \in fleet(q) : row.open_alerts = alert_state_counts(q)["open"]
                    /\ mirrored => TENANT(q).open_alerts = alert_state_counts(q)["open"]
  BY DEF CountsAgree
<1>0. PICK log, chips : log = actions_analytical(q) /\ chips = alert_state_counts(q)
  OBVIOUS
<1>1. IsFiniteSet(log) /\ MaxRows \in Nat
  BY <1>0, PagesAssumption, FS_EmptySet DEF ReadsInv, actions_analytical
<1> DEFINE In(s) == {x \in log : LifecycleState(x) = s}
<1>2. /\ DOMAIN chips = ALERT_STATES
      /\ \A s \in ALERT_STATES : chips[s] = Cardinality(In(s))
  BY <1>0 DEF alert_state_counts, FLEET_ALERT_STATE_COUNTS
<1>3. \A s : In(s) \in SUBSET log /\ IsFiniteSet(In(s)) /\ Cardinality(In(s)) \in Nat
  BY <1>1, FS_Subset, FS_CardinalityType
<1>4. PICK f : f = [x \in log |-> FleetAlertRow(x)]
  OBVIOUS
<1>5. \A x \in log : f[x].event = x /\ f[x].lifecycle_state = LifecycleState(x)
  BY <1>4 DEF FleetAlertRow
<1>6. ASSUME NEW s \in ALERT_STATES, NEW page \in fleet_alerts(q, s, Null, MaxRows)
      PROVE  Cardinality(page) = Min({chips[s], MaxRows})
  <2>1. s # Null
    BY PagesAssumption
  <2>2. PICK rows : /\ rows = {r \in {FleetAlertRow(x) : x \in log} : r.lifecycle_state = s}
                    /\ page \in Pages([r \in rows |-> r.event.as_of], bounded(MaxRows))
    BY <1>0, <2>1 DEF fleet_alerts
  <2>3. rows = {f[x] : x \in In(s)}
    BY <1>4, <1>5, <2>2
  <2>4. \A x \in In(s) : f[x].event = x
    BY <1>5
  <2>5. PICK S : S = In(s)
    OBVIOUS
  <2>6. IsFiniteSet(rows) /\ Cardinality(rows) = Cardinality(S)
    <3> HIDE DEF In
    <3>1. IsFiniteSet(S) /\ (\A x \in S : f[x].event = x) /\ rows = {f[x] : x \in S}
      BY <1>3, <2>3, <2>4, <2>5
    <3> QED BY <3>1, RowsOfEvents
  <2>7. PICK date : date = [r \in rows |-> r.event.as_of]
    OBVIOUS
  <2>8. Cardinality(page) = Min({MaxRows, Cardinality(rows)})
    <3>1. DOMAIN date = rows /\ page \in Pages(date, MaxRows)
      BY <2>2, <2>7, Bounded
    <3> QED BY <1>1, <2>6, <3>1, PageShape
  <2>9. chips[s] = Cardinality(rows)
    BY <1>2, <2>5, <2>6
  <2>10. {MaxRows, Cardinality(rows)} = {chips[s], MaxRows}
    BY <2>9
  <2> QED BY <2>8, <2>10
<1>7. chips["open"] + chips["snoozed"] + chips["acknowledged"]
        + chips["dismissed"] = Cardinality(log)
  <2>1. log = ((In("open") \cup In("snoozed")) \cup In("acknowledged")) \cup In("dismissed")
    BY States DEF ALERT_STATES
  <2>2. /\ In("open") \cap In("snoozed") = {}
        /\ (In("open") \cup In("snoozed")) \cap In("acknowledged") = {}
        /\ ((In("open") \cup In("snoozed")) \cup In("acknowledged")) \cap In("dismissed") = {}
    <3>1. ASSUME NEW s, NEW t, s # t PROVE In(s) \cap In(t) = {}
      <4>1. ASSUME NEW x, x \in In(s), x \in In(t) PROVE FALSE
        BY <3>1, <4>1
      <4> HIDE DEF In
      <4> QED BY <4>1
    <3>2. /\ In("open") \cap In("snoozed") = {}
          /\ In("open") \cap In("acknowledged") = {} /\ In("snoozed") \cap In("acknowledged") = {}
          /\ In("open") \cap In("dismissed") = {} /\ In("snoozed") \cap In("dismissed") = {}
          /\ In("acknowledged") \cap In("dismissed") = {}
      <4> HIDE DEF In
      <4> QED BY <3>1
    <3> HIDE DEF In
    <3> QED BY <3>2
  <2>3. PICK a, b, c, d : a = In("open") /\ b = In("snoozed") /\ c = In("acknowledged") /\ d = In("dismissed")
    OBVIOUS
  <2>4. /\ IsFiniteSet(a) /\ IsFiniteSet(b) /\ IsFiniteSet(c) /\ IsFiniteSet(d)
        /\ log = ((a \cup b) \cup c) \cup d
        /\ a \cap b = {} /\ (a \cup b) \cap c = {} /\ ((a \cup b) \cup c) \cap d = {}
        /\ Cardinality(a) \in Nat /\ Cardinality(b) \in Nat /\ Cardinality(c) \in Nat /\ Cardinality(d) \in Nat
    <3> HIDE DEF In
    <3> QED BY <1>3, <2>1, <2>2, <2>3
  <2>5. Cardinality(a \cup b) = Cardinality(a) + Cardinality(b) /\ IsFiniteSet(a \cup b)
    BY <2>4, Counted, FS_Union
  <2>6. Cardinality((a \cup b) \cup c) = Cardinality(a \cup b) + Cardinality(c) /\ IsFiniteSet((a \cup b) \cup c)
    BY <2>4, <2>5, Counted, FS_Union
  <2>7. Cardinality(log) = Cardinality((a \cup b) \cup c) + Cardinality(d)
    BY <2>4, <2>6, Counted
  <2>8. /\ chips["open"] = Cardinality(a) /\ chips["snoozed"] = Cardinality(b)
        /\ chips["acknowledged"] = Cardinality(c) /\ chips["dismissed"] = Cardinality(d)
    BY <1>2, <2>3 DEF ALERT_STATES
  <2> QED BY <2>4, <2>5, <2>6, <2>7, <2>8
<1>8. ASSUME mirrored, ~q
      PROVE  {{r.event : r \in page} : page \in fleet_alerts(q, Null, Null, MaxRows)}
               = {{r.event : r \in page} : page \in tenant_alerts(MaxRows)}
  <2>0. log = actions
    BY <1>0, <1>8 DEF actions_analytical
  <2>1. PICK g : g = [x \in log |-> AlertRow(x)]
    OBVIOUS
  <2>2. \A x \in log : g[x].event = x
    BY <2>1 DEF AlertRow
  <2>3. PICK T, U : T = {f[x] : x \in log} /\ U = {g[x] : x \in log}
    OBVIOUS
  <2>4. fleet_alerts(q, Null, Null, MaxRows) = Pages([r \in T |-> r.event.as_of], MaxRows)
    <3>1. {r \in {FleetAlertRow(x) : x \in log} :
             (Null = Null \/ r.lifecycle_state = Null) /\ (Null = Null \/ r.event.analysis = Null)} = T
      BY <1>4, <2>3
    <3> QED BY <1>0, <3>1, Bounded DEF fleet_alerts
  <2>5. tenant_alerts(MaxRows) = Pages([r \in U |-> r.event.as_of], MaxRows)
    <3>1. {AlertRow(x) : x \in log} = U
      BY <2>1, <2>3
    <3> QED BY <1>8, <2>0, <3>1, Bounded DEF tenant_alerts
  <2>6. {EventsOn(page) : page \in fleet_alerts(q, Null, Null, MaxRows)} = Pages([x \in log |-> x.as_of], MaxRows)
    <3>1. (\A x \in log : f[x].event = x /\ f[x] \in T) /\ (\A r \in T : \E x \in log : r = f[x])
      BY <1>5, <2>3
    <3>2. ShownPages(T, MaxRows) = DatedPages(log, MaxRows)
      BY <1>1, <3>1, PagesOfRows
    <3> QED BY <2>4, <3>2 DEF ShownPages, DatedPages
  <2>7. {EventsOn(page) : page \in tenant_alerts(MaxRows)} = Pages([x \in log |-> x.as_of], MaxRows)
    <3>1. (\A x \in log : g[x].event = x /\ g[x] \in U) /\ (\A r \in U : \E x \in log : r = g[x])
      BY <2>2, <2>3
    <3>2. ShownPages(U, MaxRows) = DatedPages(log, MaxRows)
      BY <1>1, <3>1, PagesOfRows
    <3> QED BY <2>5, <3>2 DEF ShownPages, DatedPages
  <2>8. {EventsOn(page) : page \in fleet_alerts(q, Null, Null, MaxRows)} = {EventsOn(page) : page \in tenant_alerts(MaxRows)}
    BY <2>6, <2>7
  <2> QED BY <2>8 DEF EventsOn
<1>9. chips["open"] = OPEN_ALERTS_BY_TENANT(q)
  BY <1>0, <1>2 DEF OPEN_ALERTS_BY_TENANT, ALERT_STATES
<1>10. \A row \in fleet(q) : row.open_alerts = chips["open"]
  BY <1>9 DEF fleet, FleetRow
<1>11. mirrored => TENANT(q).open_alerts = chips["open"]
  BY <1>9, HeaderIsTyped
<1> HIDE DEF In
<1> QED BY <1>0, <1>6, <1>7, <1>8, <1>10, <1>11

\* The slots an analysis ran for, and the latest of them.
RunSlots(a) == {p[2] : p \in RunsOf(a)}

LEMMA LatestRun ==
    ASSUME IInv, NEW a \in Analyses, RunsOf(a) # {}
    PROVE  /\ Max(RunSlots(a)) \in Slots /\ Max(RunSlots(a)) \in Int
           /\ <<a, Max(RunSlots(a))>> \in RunsOf(a)
           /\ \A p \in RunsOf(a) : p[2] \in Int /\ p[2] <= Max(RunSlots(a))
<1>1. \A p \in RunsOf(a) : p \in Pairs /\ p[1] = a /\ p[2] \in Slots /\ p = <<a, p[2]>>
  BY DEF RunsOf, Pairs
<1>2. RunSlots(a) \subseteq Slots /\ RunSlots(a) # {}
  BY <1>1 DEF RunSlots
<1>3. IsFiniteSet(RunSlots(a)) /\ RunSlots(a) \subseteq Int
  BY <1>2, PairsAreFinite, SlotsAreDates, FS_Subset
<1>4. Max(RunSlots(a)) \in RunSlots(a) /\ \A y \in RunSlots(a) : Max(RunSlots(a)) >= y
  BY <1>2, <1>3, FiniteMax
<1>5. PICK p \in RunsOf(a) : Max(RunSlots(a)) = p[2]
  BY <1>4 DEF RunSlots
<1>6. <<a, Max(RunSlots(a))>> \in RunsOf(a)
  BY <1>1, <1>5
<1>7. \A q \in RunsOf(a) : q[2] \in RunSlots(a)
  BY DEF RunSlots
<1>8. \A q \in RunsOf(a) : q[2] \in Int /\ q[2] <= Max(RunSlots(a))
  BY <1>3, <1>4, <1>7
<1> QED BY <1>2, <1>3, <1>4, <1>6, <1>8

\* An analysis on the tenant's page, without and with a run.
LEMMA StateOf ==
    ASSUME IInv, NEW a \in Active
    PROVE  /\ AnalysisState(a) \in AnalysisStates /\ AnalysisState(a).analysis_id = a
           /\ RunsOf(a) = {} => AnalysisState(a).last_outcome = Null
           /\ RunsOf(a) # {} =>
                /\ AnalysisState(a).last_slot = Max(RunSlots(a))
                /\ AnalysisState(a).last_outcome = run[<<a, Max(RunSlots(a))>>].outcome
                /\ AnalysisState(a).actions_proposed = run[<<a, Max(RunSlots(a))>>].proposed
<1>1. a \in Analyses /\ provision[a] \in Provision /\ run \in [Pairs -> RunRows \cup {Null}]
  BY DEF Active, IInv, ConsoleInv, ProvisionInv, SweepInv, RunInv
<1>2. provision[a].rung \in {"shadow", "suggest"} /\ provision[a].timezone \in Timezones
  BY <1>1 DEF Provision
<1>3. CASE RunsOf(a) = {}
  <2>1. AnalysisState(a) =
          [analysis_id |-> a, rung |-> provision[a].rung, timezone |-> provision[a].timezone,
           last_slot |-> Null, last_outcome |-> Null, actions_proposed |-> Null,
           actions_appended |-> Null, refusals |-> Null]
    BY <1>3 DEF AnalysisState
  <2> QED BY <1>1, <1>2, <1>3, <2>1 DEF AnalysisStates
<1>4. CASE RunsOf(a) # {}
  <2>1. PICK slot : slot = Max(RunSlots(a))
    OBVIOUS
  <2>2. slot \in Slots /\ <<a, slot>> \in RunsOf(a)
    BY <1>1, <1>4, <2>1, LatestRun
  <2>3. <<a, slot>> \in Pairs /\ run[<<a, slot>>] # Null /\ <<a, slot>> # Null
    BY <2>2, RunAssumption DEF RunsOf
  <2>4. run[<<a, slot>>] \in RunRows
    BY <1>1, <2>3
  <2>5. PICK row : row = run[<<a, slot>>]
    OBVIOUS
  <2>6. /\ row.outcome \in Outcomes \cup {Null} /\ row.proposed \in Nat /\ row.appended \in Nat
        /\ row.refusals \in Refusals
    BY <2>4, <2>5 DEF RunRows
  <2>7. {p[2] : p \in RunsOf(a)} = RunSlots(a)
    BY DEF RunSlots
  <2>8. AnalysisState(a) =
          [analysis_id |-> a, rung |-> provision[a].rung, timezone |-> provision[a].timezone,
           last_slot |-> slot, last_outcome |-> row.outcome, actions_proposed |-> row.proposed,
           actions_appended |-> row.appended, refusals |-> row.refusals]
    BY <1>4, <2>1, <2>3, <2>5, <2>7 DEF AnalysisState
  <2>9. AnalysisState(a) \in AnalysisStates
    BY <1>1, <1>2, <2>2, <2>6, <2>8 DEF AnalysisStates
  <2> QED BY <1>4, <2>1, <2>5, <2>8, <2>9
<1> QED BY <1>3, <1>4

LEMMA DetailOf ==
    ASSUME IInv, ReadsInv, mirrored, NEW q \in BOOLEAN, NEW gone
    PROVE  /\ tenant_detail(q, Disabled(gone)) # Null
           /\ tenant_detail(q, Disabled(gone)).analyses = TENANT_ANALYSES
           /\ tenant_detail(q, Disabled(gone)).disabled_analyses = TENANT_DISABLED_ANALYSES(Disabled(gone))
<1>0. PICK page, header, off : /\ page = tenant_detail(q, Disabled(gone))
                               /\ header = TENANT(q)
                               /\ off = TENANT_DISABLED_ANALYSES(Disabled(gone))
  OBVIOUS
<1>1. header \in Headers /\ header # Null
  BY <1>0, HeaderIsTyped
<1>2. TENANT_ANALYSES \subseteq AnalysisStates
  BY StateOf DEF TENANT_ANALYSES
<1>3. off \subseteq Analyses
  BY <1>0 DEF TENANT_DISABLED_ANALYSES, Disabled, IInv, ConsoleInv, ProvisionInv
<1>4. page = [header |-> header, analyses |-> TENANT_ANALYSES, disabled_analyses |-> off]
  BY <1>0, <1>1 DEF tenant_detail
<1>5. page \in [header : Headers, analyses : SUBSET AnalysisStates, disabled_analyses : SUBSET Analyses]
  BY <1>1, <1>2, <1>3, <1>4
<1> QED BY <1>0, <1>4, <1>5, DetailAssumption

LEMMA PageDoesComplete ==
    ASSUME IInv, ReadsInv
    PROVE  PageIsComplete
<1>1. ASSUME DOMAIN provision # {} \/ RUNS # {} \/ actions # {}
      PROVE  mirrored
  <2>1. CASE DOMAIN provision # {}
    BY <2>1 DEF ReadsInv, MirrorInv
  <2>2. CASE RUNS # {}
    <3>1. \E p \in Pairs : run[p] # Null
      BY <2>2 DEF RUNS
    <3> QED BY <3>1 DEF ReadsInv, MirrorInv
  <2>3. CASE actions # {}
    <3>1. \E p \in Pairs : run[p] # Null
      BY <2>3 DEF IInv, SweepInv, RunInv, ActionsAreClaimed
    <3> QED BY <3>1 DEF ReadsInv, MirrorInv
  <2> QED BY <1>1, <2>1, <2>2, <2>3
<1>2. ASSUME mirrored, NEW q \in BOOLEAN, NEW gone \in SUBSET DOMAIN provision
      PROVE  /\ fleet(q) # {} /\ tenant_detail(q, Disabled(gone)) # Null
             /\ {s.analysis_id : s \in tenant_detail(q, Disabled(gone)).analyses}
                  \cup tenant_detail(q, Disabled(gone)).disabled_analyses = DOMAIN provision
  <2>0. PICK page : page = tenant_detail(q, Disabled(gone))
    OBVIOUS
  <2>1. page # Null /\ page.analyses = TENANT_ANALYSES
        /\ page.disabled_analyses = TENANT_DISABLED_ANALYSES(Disabled(gone))
    BY <1>2, <2>0, DetailOf
  <2>2. {s.analysis_id : s \in page.analyses} = Active
    <3>1. \A a \in Active : AnalysisState(a).analysis_id = a
      BY StateOf
    <3> QED BY <2>1, <3>1 DEF TENANT_ANALYSES
  <2>3. \A a \in DOMAIN provision : provision[a] \in Provision
    BY DEF IInv, ConsoleInv, ProvisionInv
  <2>4. \A a \in DOMAIN provision : Disabled(gone)[a].disabled = (provision[a].disabled \/ a \in gone)
    BY <2>3 DEF Disabled, Provision
  <2>5. Active \cup TENANT_DISABLED_ANALYSES(Disabled(gone)) = DOMAIN provision
    <3>1. DOMAIN Disabled(gone) = DOMAIN provision
      BY DEF Disabled
    <3>2. \A a \in DOMAIN provision : a \in Active \/ provision[a].disabled
      BY DEF Active
    <3>3. Active \subseteq DOMAIN provision
      BY DEF Active
    <3> QED BY <2>4, <3>1, <3>2, <3>3 DEF TENANT_DISABLED_ANALYSES
  <2>6. fleet(q) # {}
    BY <1>2 DEF fleet
  <2> QED BY <2>0, <2>1, <2>2, <2>5, <2>6
<1> QED BY <1>1, <1>2 DEF PageIsComplete

\* The run log, cut to one row, begins with the latest slot of all.
LEMMA LogBegins ==
    ASSUME IInv, ReadsInv, NEW q \in BOOLEAN, NEW row \in fleet(q), row.last_run_slot # Null, NEW page \in tenant_runs(0)
    PROVE  \E r \in page : r.slot = row.last_run_slot
<1> DEFINE ran == {p \in Pairs : run[p] # Null}
           slots == {p[2] : p \in ran}
<1>1. slots # {} /\ row.last_run_slot = Max(slots)
  <2>1. row = FleetRow(q)
    BY DEF fleet
  <2>2. row.last_run_slot = IF slots = {} THEN Null ELSE Max(slots)
    BY <2>1 DEF FleetRow
  <2> QED BY <2>2
<1>2. \A p \in ran : p[2] \in Slots
  BY DEF Pairs
<1>3. slots \subseteq Slots /\ slots \subseteq Int
  BY <1>2, SlotsAreDates
<1>4. IsFiniteSet(slots) /\ IsFiniteSet(ran)
  BY <1>3, PairsAreFinite, FS_Subset
<1>5. RUNS = {RunRow(p) : p \in ran}
  BY DEF RUNS
<1>6. \A p \in ran : RunRow(p).slot = p[2]
  BY DEF RunRow
<1>7. IsFiniteSet(RUNS) /\ RUNS # {}
  <2>1. [p \in ran |-> RunRow(p)] \in Surjection(ran, RUNS)
    <3> HIDE DEF ran
    <3> QED BY <1>5 DEF Surjection
  <2>2. IsFiniteSet(RUNS)
    BY <1>4, <2>1, FS_Surjection
  <2> QED BY <1>1, <1>5, <2>2
<1>8. page \in Pages([r \in RUNS |-> r.slot], 1)
  BY Bounded DEF tenant_runs, runs
<1> HIDE DEF ran
<1>9. PICK date : date = [r \in RUNS |-> r.slot]
  OBVIOUS
<1>10. DOMAIN date = RUNS /\ \A r \in RUNS : date[r] = r.slot
  BY <1>9
<1>11. Cardinality(RUNS) \in Nat /\ Cardinality(RUNS) # 0
  BY <1>7, FS_CardinalityType, FS_EmptySet
<1>12. /\ page \subseteq RUNS /\ IsFiniteSet(page) /\ Cardinality(page) = 1
       /\ \A x \in page, y \in RUNS \ page : date[x] >= date[y]
  <2>1. page \in Pages(date, 1) /\ IsFiniteSet(DOMAIN date) /\ 1 \in Nat
    BY <1>7, <1>8, <1>9, <1>10
  <2>2. /\ page \subseteq DOMAIN date /\ IsFiniteSet(page)
        /\ Cardinality(page) = IF 1 <= Cardinality(DOMAIN date) THEN 1 ELSE Cardinality(DOMAIN date)
        /\ \A x \in page, y \in DOMAIN date \ page : date[x] >= date[y]
    BY <2>1, PageShape
  <2> QED BY <1>10, <1>11, <2>2
<1>13. PICK r \in page : page = {r}
  BY <1>12, FS_Singleton
<1>14. r.slot \in slots
  BY <1>5, <1>6, <1>12, <1>13
<1>15. \A s \in slots : r.slot >= s
  <2> TAKE s \in slots
  <2>1. PICK p \in ran : s = p[2]
    OBVIOUS
  <2>2. RunRow(p) \in RUNS /\ RunRow(p).slot = s
    BY <1>5, <1>6, <2>1
  <2>3. CASE RunRow(p) \in page
    BY <1>3, <1>13, <1>14, <2>2, <2>3
  <2>4. CASE RunRow(p) \notin page
    BY <1>10, <1>12, <1>13, <2>2, <2>4
  <2> QED BY <2>3, <2>4
<1> HIDE DEF slots
<1>16. Max(slots) \in slots /\ \A s \in slots : Max(slots) >= s
  BY <1>1, <1>3, <1>4, FiniteMax
<1>17. r.slot = Max(slots)
  <2>1. Max(slots) \in Int /\ r.slot \in Int
    BY <1>3, <1>14, <1>16
  <2>2. Max(slots) >= r.slot /\ r.slot >= Max(slots)
    BY <1>14, <1>15, <1>16
  <2> QED BY <2>1, <2>2
<1> QED BY <1>1, <1>13, <1>17

\* A satisfied slot has at least the alerts that it proposed: a plan names a SKU once, so
\* no two of its actions are one in the log.
LEMMA ProposedAreShown ==
    ASSUME IInv, ReadsInv, NEW a, NEW slot, <<a, slot>> \in Pairs, run[<<a, slot>>] # Null,
           run[<<a, slot>>].outcome = "satisfied"
    PROVE  Cardinality({x \in actions : x.analysis = a /\ x.as_of = slot}) >= run[<<a, slot>>].proposed
<1>1. PICK P \in attempted[<<a, slot>>] :
        (\A x \in P : Logged(x)) /\ Cardinality(P) = run[<<a, slot>>].proposed
  BY DEF IInv, SweepInv, RunInv, SatisfiedIsAppended
<1>2. /\ IsFiniteSet(P)
      /\ \A x \in P : x.analysis = a /\ x.as_of = slot
      /\ \A x, y \in P : x.sku = y.sku => x = y
  BY DEF ReadsInv, PlansInv, SoundPlan
<1>3. PICK T : T = {x \in actions : x.analysis = a /\ x.as_of = slot}
  OBVIOUS
<1>4. IsFiniteSet(T)
  <2>1. T \in SUBSET actions
    BY <1>3
  <2> QED BY <2>1, FS_Subset DEF ReadsInv
<1>5. \A x \in P : \E y \in T : y.sku = x.sku
  <2> TAKE x \in P
  <2>1. PICK y \in actions : IdempotencyKey(y) = IdempotencyKey(x)
    BY <1>1 DEF Logged
  <2>2. y.analysis = x.analysis /\ y.sku = x.sku /\ y.as_of = x.as_of
    BY <2>1 DEF IdempotencyKey
  <2> QED BY <1>2, <1>3, <2>1, <2>2
<1> DEFINE f == [x \in P |-> CHOOSE y \in T : y.sku = x.sku]
<1>6. \A x \in P : f[x] \in T /\ f[x].sku = x.sku
  BY <1>5
<1>7. f \in [P -> T]
  BY <1>6
<1> HIDE DEF f
<1>8. \A x, y \in P : f[x] = f[y] => x = y
  BY <1>2, <1>6
<1>9. f \in Injection(P, T)
  BY <1>7, <1>8 DEF Injection, IsInjective
<1>10. Cardinality(P) <= Cardinality(T)
  BY <1>4, <1>9, FS_Injection
<1>11. Cardinality(P) \in Nat /\ Cardinality(T) \in Nat
  BY <1>2, <1>4, FS_CardinalityType
<1> QED BY <1>1, <1>3, <1>10, <1>11

LEMMA LastRunHasBacking ==
    ASSUME IInv, ReadsInv
    PROVE  LastRunIsBacked
<1>1. \A q \in BOOLEAN : \A row \in fleet(q) : row.last_run_slot # Null =>
        \A page \in tenant_runs(0) : \E r \in page : r.slot = row.last_run_slot
  BY LogBegins
<1>2. ASSUME NEW a \in Active, NEW x \in actions, x.analysis = a
      PROVE  AnalysisState(a).last_slot # Null /\ x.as_of <= AnalysisState(a).last_slot
  <2>1. a \in Analyses
    BY DEF Active, IInv, ConsoleInv, ProvisionInv
  <2>2. <<a, x.as_of>> \in Pairs /\ run[<<a, x.as_of>>] # Null
    BY <1>2 DEF IInv, SweepInv, RunInv, ActionsAreClaimed
  <2>3. <<a, x.as_of>> \in RunsOf(a)
    BY <2>2 DEF RunsOf
  <2>4. Max(RunSlots(a)) \in Int /\ x.as_of <= Max(RunSlots(a))
    <3>1. \A p \in RunsOf(a) : p[2] <= Max(RunSlots(a))
      BY <2>1, <2>3, LatestRun
    <3>2. Max(RunSlots(a)) \in Int
      BY <2>1, <2>3, LatestRun
    <3>3. <<a, x.as_of>>[2] <= Max(RunSlots(a))
      BY <2>3, <3>1
    <3> QED BY <3>2, <3>3
  <2>5. AnalysisState(a).last_slot = Max(RunSlots(a))
    BY <2>3, StateOf
  <2> QED BY <2>4, <2>5, SynapseAssumption
<1>3. ASSUME NEW a \in Active, AnalysisState(a).last_outcome = "satisfied"
      PROVE  Cardinality({x \in actions : x.analysis = a /\ x.as_of = AnalysisState(a).last_slot})
               >= AnalysisState(a).actions_proposed
  <2>1. a \in Analyses
    BY DEF Active, IInv, ConsoleInv, ProvisionInv
  <2>2. RunsOf(a) # {}
    BY <1>3, StateOf, RunAssumption DEF Outcomes
  <2>3. PICK slot : slot = Max(RunSlots(a))
    OBVIOUS
  <2>4. <<a, slot>> \in Pairs /\ run[<<a, slot>>] # Null
    BY <2>1, <2>2, <2>3, LatestRun DEF RunsOf
  <2>5. /\ AnalysisState(a).last_slot = slot
        /\ run[<<a, slot>>].outcome = "satisfied"
        /\ AnalysisState(a).actions_proposed = run[<<a, slot>>].proposed
    BY <1>3, <2>2, <2>3, StateOf
  <2> QED BY <2>4, <2>5, ProposedAreShown
<1> QED BY <1>1, <1>2, <1>3 DEF LastRunIsBacked

\* A decision speaks for every alert on its target.
LEMMA SameStory ==
    ASSUME NEW x, NEW h, h.analysis = x.analysis, h.sku = x.sku
    PROVE  LifecycleState(h) = LifecycleState(x)
BY DEF LifecycleState

LEMMA HistoryTellsOneStory ==
    ASSUME IInv, ReadsInv
    PROVE  HistoryIsOneStory
<1> SUFFICES ASSUME NEW x \in actions, NEW detail \in alert_detail(x)
             PROVE  /\ x \in detail.history \/ (/\ Cardinality(detail.history) = HistoryLimit
                                                /\ \A h \in detail.history : h.as_of >= x.as_of)
                    /\ \A h \in detail.history : LifecycleState(h) = detail.alert.lifecycle_state
  BY DEF HistoryIsOneStory
<1>1. PICK all : all = ALERT_HISTORY(x)
  OBVIOUS
<1>2. all \in SUBSET actions /\ x \in all /\ \A h \in all : h.analysis = x.analysis /\ h.sku = x.sku
  BY <1>1 DEF ALERT_HISTORY
<1>3. PICK date : date = [h \in all |-> h.as_of]
  OBVIOUS
<1>4. DOMAIN date = all /\ \A h \in all : date[h] = h.as_of
  BY <1>3
<1>5. PICK page \in Pages(date, HistoryLimit) : detail = [alert |-> AlertRow(x), history |-> page]
  BY <1>1, <1>3 DEF alert_detail
<1>6. detail.history = page /\ detail.alert.lifecycle_state = LifecycleState(x)
  BY <1>5 DEF AlertRow
<1>7. IsFiniteSet(all) /\ HistoryLimit \in Nat
  BY <1>2, FS_Subset, PagesAssumption DEF ReadsInv
<1>8. /\ page \subseteq all /\ Cardinality(page) \in Nat /\ Cardinality(all) \in Nat
      /\ Cardinality(page) = IF HistoryLimit <= Cardinality(all) THEN HistoryLimit ELSE Cardinality(all)
      /\ \A h \in page, y \in all \ page : date[h] >= date[y]
  BY <1>4, <1>5, <1>7, PageShape
<1>9. ASSUME x \notin page
      PROVE  Cardinality(page) = HistoryLimit /\ \A h \in page : h.as_of >= x.as_of
  <2>1. Cardinality(page) # Cardinality(all)
    BY <1>2, <1>7, <1>8, <1>9, FS_Subset
  <2>2. \A h \in page : h.as_of >= x.as_of
    BY <1>2, <1>4, <1>8, <1>9
  <2> QED BY <1>8, <2>1, <2>2
<1>10. \A h \in page : LifecycleState(h) = LifecycleState(x)
  BY <1>2, <1>8, SameStory
<1> QED BY <1>6, <1>9, <1>10

LEMMA FeedStaysLive ==
    ASSUME IInv, ReadsInv
    PROVE  FeedWasLive
<1>1. lines \in Seq(SaleRows) /\ now \in StartNow..MaxNow
  BY DEF IInv, SweepInv, ConsoleInv
<1>2. PICK sale : sale = resolve_latest_sale_dates
  OBVIOUS
<1>3. ASSUME NEW x \in actions
      PROVE  sale # Null /\ sale \in Int /\ x.as_of \in Int /\ x.as_of - sale <= StaleBound(x.analysis)
  <2>1. PICK p \in Pairs : p = <<x.analysis, x.as_of>> /\ x \in UNION attempted[p]
    BY DEF IInv, SweepInv, RunInv, ActionsAreClaimed
  <2>2. Backed(x)
    BY <2>1 DEF ReadsInv, PlansInv, SoundPlan
  <2>3. PICK i \in DOMAIN lines : x.as_of - lines[i].day <= StaleBound(x.analysis)
    BY <2>2 DEF Backed
  <2>4. lines[i].day \in LineDays
    BY DEF LineDays
  <2>5. sale \in Int /\ lines[i].day \in Int /\ sale >= lines[i].day
    BY <1>1, <1>2, <2>4, LatestSale
  <2>6. x.as_of \in Int
    BY <2>1, SlotsAreDates DEF Pairs
  <2>7. StaleBound(x.analysis) \in Int
    BY AnalysesAssumption DEF StaleBound
  <2>8. x.as_of - sale <= StaleBound(x.analysis)
    BY <2>3, <2>5, <2>6, <2>7
  <2> QED BY <2>5, <2>6, <2>8, SynapseAssumption
<1>4. ASSUME tenant_freshness(now) # Null, stale(tenant_freshness(now)), NEW x \in actions
      PROVE  x.as_of < UtcDate(now)
  <2>1. sale # Null /\ sale \in Int /\ x.as_of \in Int /\ x.as_of - sale <= StaleBound(x.analysis)
    BY <1>3
  <2>2. tenant_freshness(now).age_days = UtcDate(now) - sale
    BY <1>2, <1>4, <2>1 DEF tenant_freshness
  <2>3. UtcDate(now) - sale > FeedStaleAfterDays
    BY <1>4, <2>2 DEF stale
  <2>4. UtcDate(now) \in Int
    BY <1>1, SynapseAssumption DEF UtcDate
  <2>5. StaleBound(x.analysis) \in Int /\ FeedStaleAfterDays \in Int /\ StaleBound(x.analysis) <= FeedStaleAfterDays
    BY AnalysesAssumption DEF StaleBound
  <2> QED BY <2>1, <2>3, <2>4, <2>5
<1>5. \A x \in actions :
        /\ resolve_latest_sale_dates # Null
        /\ x.as_of - resolve_latest_sale_dates <=
             IF x.analysis = "dead_stock" THEN FeedStaleAfterDays ELSE SeriesStaleAfterDays
  BY <1>2, <1>3 DEF StaleBound
<1> QED BY <1>4, <1>5 DEF FeedWasLive

LEMMA StockIsThere ==
    ASSUME IInv, ReadsInv
    PROVE  ActionsHaveStock
<1> SUFFICES ASSUME NEW x \in actions
             PROVE  x.quantity # Null /\ (x.analysis = "dead_stock" => x.quantity > 0) /\ Constructible(x)
  BY DEF ActionsHaveStock
<1>1. PICK p \in Pairs : x \in UNION attempted[p]
  BY DEF IInv, SweepInv, RunInv, ActionsAreClaimed
<1>2. Sound(x)
  BY <1>1 DEF ReadsInv, PlansInv, SoundPlan
<1> QED BY <1>2 DEF Sound

LEMMA FetchesStayBound ==
    ASSUME ReadsInv
    PROVE  FetchesAreBound
<1>1. \A j \in Jobs : job[j].pc \in {"universe", "plan", "append"} => BoundTo(job[j].analysis, job[j].fetches)
  BY DEF ReadsInv, FetchInv
<1> QED BY <1>1 DEF FetchesAreBound, BoundTo

\* What the run table, the action log, the exit codes and every screen tell is one story,
\* whatever crashes, is retried, runs twice or moves under a sweep: the proposals of a
\* satisfied slot are in the log, alerts have stock and a live feed behind them, plans
\* fetch what their declarations require, and the roster, the tenant's page, the run log,
\* the alert lists and their chips agree (runner.py, registry.py, run_postgres.py,
\* action_log_postgres.py, reads.py, freshness.py).
THEOREM RunsStaySound == Spec => []RunsAreSound
<1>1. Init => IInv /\ ReadsInv
  BY InitInv, ReadsInit
<1>2. IInv /\ ReadsInv /\ [Next]_vars => IInv' /\ ReadsInv'
  BY NextInv, ReadsKept
<1>3. IInv /\ ReadsInv =>
        /\ ActionsHaveStock /\ FetchesAreBound /\ CountsAgree /\ PageIsComplete /\ LastRunIsBacked
        /\ HistoryIsOneStory /\ FeedWasLive
  BY StockIsThere, FetchesStayBound, CountsDoAgree, PageDoesComplete, LastRunHasBacking,
     HistoryTellsOneStory, FeedStaysLive
<1>4. /\ TypeOK /\ SatisfiedIsAppended /\ ActionsAreClaimed /\ ActionsHaveStock /\ FetchesAreBound
      /\ EnablesAreHonest /\ GreenIsClean /\ DecisionsStand /\ CountsAgree /\ PageIsComplete
      /\ LastRunIsBacked /\ HistoryIsOneStory /\ FeedWasLive
      => RunsAreSound
  BY DEF RunsAreSound
<1> QED
  BY <1>1, <1>2, <1>3, <1>4, SynapseTypes, SatisfiedRunsAreLogged, ActionsStayClaimed, EnablesStayHonest,
     GreenStaysClean, DecisionsStayStanding, PTL DEF Spec
=============================================================================
