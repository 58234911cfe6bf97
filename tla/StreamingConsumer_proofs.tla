----------------------- MODULE StreamingConsumer_proofs -----------------------
(***************************************************************************)
(* Proofs about StreamingConsumer, for every set of chunks, instances,     *)
(* templates and versions, whatever the gates and the tables say of a      *)
(* chunk, every number of batches and every delivery limit.                *)
(***************************************************************************)
EXTENDS StreamingConsumer, FiniteSetTheorems, SequenceTheorems, TLAPS

(***************************************************************************)
(* The inductive invariant.  An acknowledgement is decided by one delivery *)
(* and applied later, after other deliveries, activations and onboardings; *)
(* what each instance carries in its locals and its lists is therefore     *)
(* part of the invariant, and so is the number of deliveries that can      *)
(* still write a hold or an audit row: HoldsAreDeterministic and the       *)
(* RETRIED rows count deliveries.                                          *)
(***************************************************************************)

\* What the property asks of a hold of m.
HoldIsJust(m, h) ==
    CASE h.code = "CONTRACT_VIOLATION" -> kind[m] = "unparsable"
      [] h.code = "VALIDATION_ROW_FAILED" ->
           /\ h.grain = "rows"
           /\ Verdict[m][h.version] = [gate |-> "rows", stage |-> h.stage, rows |-> h.rows]
      [] h.code = "GATE_FAILED" ->
           /\ h.grain = "chunk"
           /\ Verdict[m][h.version] = [gate |-> "shape", stage |-> h.stage, rows |-> {}]
      [] OTHER ->
           /\ h.code = "MAPPING_CONFIG_INVALID"
           /\ h.version # None => Verdict[m][h.version].gate = "config"

\* Neither the table nor the hot row refuses batch b of m under v.
BatchIsLegal(m, v, b) ==
    /\ b \notin Refusal[m][v].table
    /\ TargetOf[v] # "catalogue" => b \notin Refusal[m][v].hot

BatchIsIn(m, v, b) ==
    /\ <<v, b>> \in merged[m]
    /\ TargetOf[v] # "catalogue" => <<v, b>> \in landed[m]

\* The first n batches of m were written under v by one delivery.
WrittenUpTo(m, v, n) == \A b \in 1..n : BatchIsLegal(m, v, b) /\ BatchIsIn(m, v, b)

\* What may be acknowledged.
Concluded(m) == kind[m] = "malformed" \/ Held(m) \/ Written(m)

Delivered(m) == msg[m] # "absent"

\* The locals of an instance, by where it is in process.
LocalsInv(w) ==
    /\ pc[w] \in {"ready", "seen", "fetch", "lookup"} => ctx[w].version = None
    /\ pc[w] \in {"store", "gates", "write", "written"} => ctx[w].version \in Versions
    /\ pc[w] \in {"ready", "seen", "fetch", "lookup", "store", "gates"} => ctx[w].batch = 1
    /\ pc[w] \in {"ready", "seen"} => ~ctx[w].seen_before
    /\ pc[w] # "ready" /\ ctx[w].seen_before => attempts[cur[w]] > 1

\* What the locals say of the chunk in hand.
ChunkInv(w) ==
    /\ pc[w] \in {"write", "written"} => Verdict[cur[w]][ctx[w].version].gate = "pass"
    /\ pc[w] = "write" => WrittenUpTo(cur[w], ctx[w].version, ctx[w].batch - 1)
    /\ pc[w] = "written" => WrittenUpTo(cur[w], ctx[w].version, Batches)
    /\ pc[w] = "hold" => ctx[w].hold \in Hold /\ HoldIsJust(cur[w], ctx[w].hold)
    /\ pc[w] = "held" => Held(cur[w])

\* The lists of the pull loop.
LoopInv(w) ==
    /\ pc[w] = "ready" <=> cur[w] = None
    /\ cur[w] \notin batch[w]
    /\ cur[w] # None => Delivered(cur[w])
    /\ \A m \in batch[w] \cup acks[w] : Delivered(m)
    /\ \A m \in acks[w] : Concluded(m)

WorkerInv(w) == LocalsInv(w) /\ ChunkInv(w) /\ LoopInv(w)

\* Deliveries of m that have not yet held it, and those that have not yet audited it.
MayHold(m) == {w \in Workers : m \in batch[w] \/ (cur[w] = m /\ pc[w] # "held")}
MayReceive(m) == {w \in Workers : m \in batch[w] \/ (cur[w] = m /\ pc[w] \in {"seen", "fetch"})}
Received(m) == IF \E s \in {"RECEIVED", "RETRIED"} : <<m, s>> \in audit THEN 1 ELSE 0

AttemptsInv ==
    \A m \in Chunks :
        /\ msg[m] \in {"absent", "queued"} => attempts[m] < MaxDeliveryAttempts
        /\ msg[m] = "absent" => attempts[m] = 0

CountInv ==
    \A m \in Chunks :
        /\ IsFiniteSet(MayHold(m)) /\ Len(quarantine[m]) + Cardinality(MayHold(m)) <= attempts[m]
        /\ IsFiniteSet(MayReceive(m)) /\ Received(m) + Cardinality(MayReceive(m)) <= attempts[m]

HoldsInv == \A m \in Chunks : \A i \in 1..Len(quarantine[m]) : HoldIsJust(m, quarantine[m][i])

IInv ==
    /\ TypeOK
    /\ AttemptsInv
    /\ \A w \in Workers : WorkerInv(w)
    /\ CountInv
    /\ HoldsInv
    /\ RefusedIsNotWritten
    /\ NothingAckedAndLost
    /\ AuditIsEarned

-----------------------------------------------------------------------------
(* Counting deliveries. *)

\* A count that stays within a limit: the set loses members, or gains one as the limit
\* grows by one, or gives one up as the counter grows by one.
LEMMA Tally ==
    ASSUME NEW S, IsFiniteSet(S), NEW T, NEW w, NEW n \in Nat, NEW k \in Nat,
           NEW a \in Nat, NEW c \in Nat, n + Cardinality(S) <= a,
           \/ T \subseteq S /\ k = n /\ c >= a
           \/ T \subseteq S \cup {w} /\ k = n /\ c = a + 1
           \/ T \subseteq S \ {w} /\ w \in S /\ k <= n + 1 /\ c = a
    PROVE  IsFiniteSet(T) /\ k + Cardinality(T) <= c
<1>0. Cardinality(S) \in Nat
  BY FS_CardinalityType
<1>1. CASE T \subseteq S /\ k = n /\ c >= a
  <2>1. IsFiniteSet(T) /\ Cardinality(T) <= Cardinality(S)
    BY <1>1, FS_Subset
  <2>2. Cardinality(T) \in Nat
    BY <2>1, FS_CardinalityType
  <2> QED BY <1>0, <1>1, <2>1, <2>2
<1>2. CASE T \subseteq S \cup {w} /\ k = n /\ c = a + 1
  <2>1. IsFiniteSet(S \cup {w}) /\ Cardinality(S \cup {w}) <= Cardinality(S) + 1
    BY <1>0, FS_AddElement
  <2>2. IsFiniteSet(T) /\ Cardinality(T) <= Cardinality(S \cup {w})
    BY <1>2, <2>1, FS_Subset
  <2>3. Cardinality(T) \in Nat /\ Cardinality(S \cup {w}) \in Nat
    BY <2>1, <2>2, FS_CardinalityType
  <2> QED BY <1>0, <1>2, <2>1, <2>2, <2>3
<1>3. CASE T \subseteq S \ {w} /\ w \in S /\ k <= n + 1 /\ c = a
  <2>1. IsFiniteSet(S \ {w}) /\ Cardinality(S \ {w}) = Cardinality(S) - 1
    BY <1>3, FS_RemoveElement
  <2>2. IsFiniteSet(T) /\ Cardinality(T) <= Cardinality(S \ {w})
    BY <1>3, <2>1, FS_Subset
  <2>3. Cardinality(T) \in Nat /\ Cardinality(S \ {w}) \in Nat
    BY <2>1, <2>2, FS_CardinalityType
  <2> QED BY <1>0, <1>3, <2>1, <2>2, <2>3
<1> QED BY <1>1, <1>2, <1>3

LEMMA TallyLess ==
    ASSUME NEW S, IsFiniteSet(S), NEW T \in SUBSET S, NEW n \in Nat, NEW a \in Nat,
           n + Cardinality(S) <= a
    PROVE  IsFiniteSet(T) /\ n + Cardinality(T) <= a
<1>1. IsFiniteSet(T) /\ Cardinality(T) <= Cardinality(S)
  BY FS_Subset
<1>2. Cardinality(T) \in Nat /\ Cardinality(S) \in Nat
  BY <1>1, FS_CardinalityType
<1> QED BY <1>1, <1>2

-----------------------------------------------------------------------------

\* Nothing is published, held, written or audited.
LEMMA InitInv == Init => IInv
<1> SUFFICES ASSUME Init PROVE IInv
  OBVIOUS
<1> USE SubscriptionAssumption, StreamingConsumerAssumption DEF Init, SubInit, Chunks
<1>1. TypeOK
  <2>1. NoContext \in FlowContext
    BY DEF NoContext, FlowContext
  <2>2. <<>> \in Seq(Hold)
    OBVIOUS
  <2>3. SubTypeOK
    BY DEF SubTypeOK, MsgStatus
  <2> QED BY <2>1, <2>2, <2>3 DEF TypeOK, Steps
<1>2. AttemptsInv
  BY DEF AttemptsInv
<1>3. \A w \in Workers : WorkerInv(w)
  BY DEF WorkerInv, LocalsInv, ChunkInv, LoopInv, NoContext
<1>4. CountInv
  <2>1. ASSUME NEW m \in Chunks
        PROVE  /\ MayHold(m) = {} /\ MayReceive(m) = {}
               /\ Len(quarantine[m]) = 0 /\ Received(m) = 0 /\ attempts[m] = 0
    BY DEF MayHold, MayReceive, Received
  <2> QED BY <2>1, FS_EmptySet, 0 + 0 <= 0 DEF CountInv
<1>5. HoldsInv /\ RefusedIsNotWritten /\ NothingAckedAndLost /\ AuditIsEarned
  BY DEF HoldsInv, RefusedIsNotWritten, NothingAckedAndLost, AuditIsEarned
<1> QED BY <1>1, <1>2, <1>3, <1>4, <1>5 DEF IInv

-----------------------------------------------------------------------------
(* What a step does not undo. *)

\* Rows, holds and deliveries only accumulate, and a published kind is final.
Grows ==
    \A m \in Chunks :
        /\ Delivered(m) => Delivered(m)' /\ kind'[m] = kind[m]
        /\ landed[m] \subseteq landed'[m] /\ merged[m] \subseteq merged'[m]
        /\ attempts[m] <= attempts'[m]
        /\ Held(m) => Held(m)'

LEMMA GrowsKeeps ==
    ASSUME Grows, NEW m \in Chunks
    PROVE  /\ \A v, n : WrittenUpTo(m, v, n) => WrittenUpTo(m, v, n)'
           /\ Written(m) => Written(m)'
           /\ Delivered(m) => /\ Concluded(m) => Concluded(m)'
                              /\ \A h : HoldIsJust(m, h) <=> HoldIsJust(m, h)'
<1>1. \A v, b : BatchIsIn(m, v, b) => BatchIsIn(m, v, b)'
  BY DEF Grows, BatchIsIn
<1>2. \A v, n : WrittenUpTo(m, v, n) => WrittenUpTo(m, v, n)'
  BY <1>1 DEF WrittenUpTo, BatchIsLegal
<1>3. Written(m) => Written(m)'
  BY <1>1 DEF Written, BatchIsIn
<1>4. Delivered(m) => (Concluded(m) => Concluded(m)')
  BY <1>3 DEF Grows, Concluded
<1>5. Delivered(m) => \A h : HoldIsJust(m, h) <=> HoldIsJust(m, h)'
  BY DEF Grows, HoldIsJust
<1> QED BY <1>2, <1>3, <1>4, <1>5

\* The part of an instance that the invariant reads.
Unmoved(v) ==
    /\ pc'[v] = pc[v] /\ ctx'[v] = ctx[v] /\ cur'[v] = cur[v]
    /\ batch'[v] = batch[v] /\ acks'[v] = acks[v]

\* An instance that does not move keeps its invariant while the tables grow.
LEMMA OtherWorker ==
    ASSUME TypeOK, TypeOK', Grows, NEW v \in Workers, WorkerInv(v), Unmoved(v)
    PROVE  WorkerInv(v)'
<1>0. /\ cur[v] # None => cur[v] \in Chunks
      /\ batch[v] \subseteq Chunks /\ acks[v] \subseteq Chunks
      /\ attempts \in [Chunks -> Nat] /\ attempts' \in [Chunks -> Nat]
  BY SubscriptionAssumption DEF TypeOK, SubTypeOK, Chunks
<1>1. LocalsInv(v)'
  BY <1>0 DEF WorkerInv, LocalsInv, LoopInv, Unmoved, Grows
<1>2. ChunkInv(v)'
  <2>1. CASE cur[v] = None
    BY <2>1 DEF WorkerInv, ChunkInv, LoopInv, Unmoved
  <2>2. CASE cur[v] # None
    <3>1. PICK c \in Chunks : c = cur[v]
      BY <1>0, <2>2
    <3>2. Delivered(c)
      BY <2>2, <3>1 DEF WorkerInv, LoopInv
    <3>3. PICK x : x = ctx[v]
      OBVIOUS
    <3>4. /\ WrittenUpTo(c, x.version, x.batch - 1) => WrittenUpTo(c, x.version, x.batch - 1)'
          /\ WrittenUpTo(c, x.version, Batches) => WrittenUpTo(c, x.version, Batches)'
          /\ HoldIsJust(c, x.hold) => HoldIsJust(c, x.hold)'
          /\ Held(c) => Held(c)'
      BY <3>2, GrowsKeeps DEF Grows
    <3>5. cur'[v] = c /\ ctx'[v] = x /\ pc'[v] = pc[v]
      BY <3>1, <3>3 DEF Unmoved
    <3> QED BY <3>1, <3>3, <3>4, <3>5 DEF WorkerInv, ChunkInv
  <2> QED BY <2>1, <2>2
<1>3. LoopInv(v)'
  <2>1. \A m \in acks[v] : Concluded(m)'
    BY <1>0, GrowsKeeps DEF WorkerInv, LoopInv
  <2> QED BY <1>0, <2>1 DEF WorkerInv, LoopInv, Unmoved, Grows
<1> QED BY <1>1, <1>2, <1>3 DEF WorkerInv

\* Holds stay just, and acknowledged chunks concluded, when nothing was added to them.
LEMMA TablesKept ==
    ASSUME IInv, TypeOK', Grows, UNCHANGED <<quarantine, landed, merged, audit>>
    PROVE  HoldsInv' /\ RefusedIsNotWritten' /\ AuditIsEarned'
<1>0. attempts \in [Chunks -> Nat] /\ attempts' \in [Chunks -> Nat]
  BY SubscriptionAssumption DEF IInv, TypeOK, SubTypeOK, Chunks
<1>1. ASSUME NEW m \in Chunks, NEW i \in 1..Len(quarantine[m])
      PROVE  Delivered(m)
  <2>1. Len(quarantine[m]) \in Nat /\ Len(quarantine[m]) > 0
    BY DEF IInv, TypeOK
  <2>2. Cardinality(MayHold(m)) \in Nat
    BY FS_CardinalityType DEF IInv, CountInv
  <2>3. attempts[m] # 0
    BY <1>0, <2>1, <2>2 DEF IInv, CountInv
  <2> QED BY <2>3 DEF IInv, AttemptsInv, Delivered
<1>2. HoldsInv'
  <2> SUFFICES ASSUME NEW m \in Chunks, NEW i \in 1..Len(quarantine[m])
               PROVE  HoldIsJust(m, quarantine[m][i])'
    BY DEF HoldsInv
  <2>1. kind'[m] = kind[m] /\ quarantine' = quarantine
    BY <1>1 DEF Grows
  <2>2. HoldIsJust(m, quarantine[m][i])
    BY DEF IInv, HoldsInv
  <2> QED BY <2>1, <2>2 DEF HoldIsJust
<1>3. RefusedIsNotWritten'
  BY DEF IInv, RefusedIsNotWritten
<1>4. AuditIsEarned'
  <2> SUFFICES ASSUME NEW m \in Chunks
               PROVE  /\ <<m, "QUARANTINED">> \in audit => Held(m)'
                      /\ <<m, "WRITTEN">> \in audit => Written(m)'
                      /\ <<m, "RETRIED">> \in audit => attempts'[m] > 1
    BY DEF AuditIsEarned
  <2>1. (Held(m) => Held(m)') /\ (Written(m) => Written(m)') /\ attempts[m] <= attempts'[m]
    BY GrowsKeeps DEF Grows
  <2> QED BY <1>0, <2>1 DEF IInv, AuditIsEarned
<1> QED BY <1>2, <1>3, <1>4

\* The counts hold when every set loses members only and no count grows.
LEMMA CountKept ==
    ASSUME IInv, TypeOK', Grows,
           \A m \in Chunks : /\ Len(quarantine'[m]) = Len(quarantine[m])
                             /\ Received(m)' = Received(m)
                             /\ MayHold(m)' \subseteq MayHold(m)
                             /\ MayReceive(m)' \subseteq MayReceive(m)
    PROVE  CountInv'
<1> SUFFICES ASSUME NEW m \in Chunks
             PROVE  /\ IsFiniteSet(MayHold(m)') /\ Len(quarantine'[m]) + Cardinality(MayHold(m)') <= attempts'[m]
                    /\ IsFiniteSet(MayReceive(m)') /\ Received(m)' + Cardinality(MayReceive(m)') <= attempts'[m]
  BY DEF CountInv
<1>1. /\ attempts[m] \in Nat /\ attempts'[m] \in Nat /\ attempts'[m] >= attempts[m]
      /\ Len(quarantine[m]) \in Nat /\ Received(m) \in Nat
  BY SubscriptionAssumption DEF IInv, TypeOK, SubTypeOK, Chunks, Grows, Received
<1>2. /\ IsFiniteSet(MayHold(m)) /\ Len(quarantine[m]) + Cardinality(MayHold(m)) <= attempts[m]
      /\ IsFiniteSet(MayReceive(m)) /\ Received(m) + Cardinality(MayReceive(m)) <= attempts[m]
  BY DEF IInv, CountInv
<1>3. IsFiniteSet(MayHold(m)') /\ Len(quarantine[m]) + Cardinality(MayHold(m)') <= attempts'[m]
  BY <1>1, <1>2, Tally
<1>4. IsFiniteSet(MayReceive(m)') /\ Received(m) + Cardinality(MayReceive(m)') <= attempts'[m]
  BY <1>1, <1>2, Tally
<1> QED BY <1>3, <1>4

-----------------------------------------------------------------------------
(* Steps outside process. *)

outside == <<landed, merged, quarantine, audit, pc, ctx, batch, cur, acks, nacks>>

\* A message is published or its lease runs out; the store arrives; a version is activated.
LEMMA OutsideStep ==
    ASSUME IInv,
           \/ \E m \in Chunks : PublishIngressReady(m) \/ Expire(m)
           \/ StoreMirrored
           \/ \E v \in Versions : ActivateVersion(v)
    PROVE  IInv'
<1> USE SubscriptionAssumption, StreamingConsumerAssumption
<1>0. UNCHANGED outside
  BY DEF PublishIngressReady, Expire, StoreMirrored, ActivateVersion, outside, loopVars, subVars,
         pipelineVars, storeVars, configVars, LeaseExpires
<1>1. TypeOK' /\ AttemptsInv' /\ Grows /\ \A m \in Chunks : msg'[m] = "acked" => msg[m] = "acked"
  <2>1. CASE \E m \in Chunks : PublishIngressReady(m)
    <3>1. PICK m \in Chunks : PublishIngressReady(m)
      BY <2>1
    <3>2. PICK k \in KindsOf[m] : kind' = [kind EXCEPT ![m] = k]
      BY <3>1 DEF PublishIngressReady
    <3>3. /\ k \in Kinds /\ msg[m] = "absent" /\ msg' = [msg EXCEPT ![m] = "queued"]
          /\ UNCHANGED <<attempts, batch, cur, acks, nacks, active, mirrored, onboarded>>
      BY <3>1 DEF PublishIngressReady, Enqueue, loopVars
    <3>4. TypeOK'
      BY <1>0, <3>2, <3>3 DEF IInv, TypeOK, SubTypeOK, outside, MsgStatus, Chunks
    <3>5. AttemptsInv'
      BY <3>3 DEF IInv, TypeOK, SubTypeOK, AttemptsInv, Chunks
    <3>6. Grows /\ \A n \in Chunks : msg'[n] = "acked" => msg[n] = "acked"
      BY <1>0, <3>2, <3>3 DEF IInv, TypeOK, SubTypeOK, Grows, Delivered, Held, outside, Chunks
    <3> QED BY <3>4, <3>5, <3>6
  <2>2. CASE \E m \in Chunks : Expire(m)
    <3>1. PICK m \in Chunks : Expire(m)
      BY <2>2
    <3>2. /\ msg[m] = "leased" /\ msg' = [msg EXCEPT ![m] = AfterDelivery(m)]
          /\ UNCHANGED <<attempts, kind, active, mirrored, onboarded>>
      BY <3>1 DEF Expire, LeaseExpires, storeVars, configVars
    <3>3. AfterDelivery(m) = IF attempts[m] >= MaxDeliveryAttempts THEN "dead" ELSE "queued"
      BY DEF AfterDelivery
    <3>4. TypeOK'
      BY <1>0, <3>2, <3>3 DEF IInv, TypeOK, SubTypeOK, outside, MsgStatus, Chunks
    <3>5. AttemptsInv'
      BY <3>2, <3>3 DEF IInv, TypeOK, SubTypeOK, AttemptsInv, Chunks
    <3>6. Grows /\ \A n \in Chunks : msg'[n] = "acked" => msg[n] = "acked"
      BY <1>0, <3>2, <3>3 DEF IInv, TypeOK, SubTypeOK, Grows, Delivered, Held, outside, Chunks
    <3> QED BY <3>4, <3>5, <3>6
  <2>3. CASE StoreMirrored \/ \E v \in Versions : ActivateVersion(v)
    <3>1. /\ UNCHANGED <<subVars, kind, onboarded>>
          /\ mirrored' \in BOOLEAN /\ active' \in [Templates -> Versions \cup {None}]
      <4>1. CASE StoreMirrored
        BY <4>1 DEF StoreMirrored, IInv, TypeOK
      <4>2. CASE \E v \in Versions : ActivateVersion(v)
        BY <4>2 DEF ActivateVersion, IInv, TypeOK
      <4> QED BY <2>3, <4>1, <4>2
    <3>2. TypeOK' /\ AttemptsInv'
      BY <1>0, <3>1 DEF IInv, TypeOK, SubTypeOK, AttemptsInv, outside, subVars
    <3>3. Grows
      BY <1>0, <3>1 DEF IInv, TypeOK, SubTypeOK, Grows, Delivered, Held, outside, subVars, Chunks
    <3> QED BY <3>1, <3>2, <3>3 DEF subVars
  <2> QED BY <2>1, <2>2, <2>3
<1>2. \A w \in Workers : WorkerInv(w)'
  BY <1>0, <1>1, OtherWorker DEF IInv, Unmoved, outside
<1>3. HoldsInv' /\ RefusedIsNotWritten' /\ AuditIsEarned'
  BY <1>0, <1>1, TablesKept DEF outside
<1>4. NothingAckedAndLost'
  BY <1>1, GrowsKeeps DEF IInv, NothingAckedAndLost, Concluded, Delivered
<1>5. CountInv'
  <2>1. \A m \in Chunks : /\ MayHold(m)' = MayHold(m) /\ MayReceive(m)' = MayReceive(m)
                           /\ Received(m)' = Received(m) /\ quarantine'[m] = quarantine[m]
    BY <1>0 DEF outside, MayHold, MayReceive, Received
  <2> QED BY <1>1, <2>1, CountKept
<1> QED BY <1>1, <1>2, <1>3, <1>4, <1>5 DEF IInv

\* poll_once pulls, acknowledges or nacks a batch.
LEMMA LoopStep ==
    ASSUME IInv, NEW w \in Workers, PullBatch(w) \/ SettleBatch(w)
    PROVE  IInv'
<1> USE SubscriptionAssumption, StreamingConsumerAssumption
<1>0. UNCHANGED <<storeVars, pipelineVars, cur>>
  BY DEF PullBatch, SettleBatch, Pull, Acknowledge, ModifyAckDeadline
<1>1. TypeOK' /\ AttemptsInv'
  <2>1. CASE PullBatch(w)
    <3>1. PICK S \in SUBSET {m \in Messages : msg[m] = "queued"} :
            /\ msg' = [m \in Messages |-> IF m \in S THEN "leased" ELSE msg[m]]
            /\ attempts' = [m \in Messages |-> IF m \in S THEN attempts[m] + 1 ELSE attempts[m]]
            /\ batch' = [batch EXCEPT ![w] = S]
            /\ UNCHANGED <<cur, acks, nacks>>
      BY <2>1 DEF PullBatch, Pull
    <3>2. SubTypeOK'
      BY <3>1 DEF IInv, TypeOK, SubTypeOK, MsgStatus, AttemptsInv, Chunks
    <3>3. AttemptsInv'
      BY <3>1 DEF IInv, TypeOK, SubTypeOK, AttemptsInv, Chunks
    <3> QED BY <1>0, <3>2, <3>3 DEF IInv, TypeOK, storeVars, configVars, pipelineVars
  <2>2. CASE SettleBatch(w)
    <3>1. SubTypeOK' /\ AttemptsInv'
      <4>1. CASE Acknowledge(w)
        BY <4>1 DEF IInv, TypeOK, SubTypeOK, MsgStatus, AttemptsInv, Acknowledge, Chunks
      <4>2. CASE ModifyAckDeadline(w)
        BY <4>2 DEF IInv, TypeOK, SubTypeOK, MsgStatus, AttemptsInv, ModifyAckDeadline,
           AfterDelivery, Chunks
      <4> QED BY <2>2, <4>1, <4>2 DEF SettleBatch
    <3> QED BY <1>0, <3>1 DEF IInv, TypeOK, storeVars, configVars, pipelineVars
  <2> QED BY <2>1, <2>2
<1>2. /\ \A m \in Chunks : msg'[m] # "absent" <=> msg[m] # "absent"
      /\ \A m \in Chunks : msg'[m] = "acked" => msg[m] = "acked" \/ m \in acks[w]
      /\ \A m \in Chunks : attempts[m] <= attempts'[m]
      /\ \A v \in Workers : v # w => batch'[v] = batch[v] /\ acks'[v] = acks[v]
      /\ acks'[w] \subseteq acks[w]
      /\ \A m \in batch'[w] : m \in Chunks /\ msg[m] # "absent"
  <2>1. CASE PullBatch(w)
    BY <2>1 DEF IInv, TypeOK, SubTypeOK, MsgStatus, PullBatch, Pull, Chunks
  <2>2. CASE SettleBatch(w)
    <3>1. batch[w] = {} /\ UNCHANGED <<attempts, batch>>
      BY <2>2 DEF SettleBatch, Acknowledge, ModifyAckDeadline, BatchDone
    <3>2. CASE Acknowledge(w)
      BY <3>1, <3>2 DEF IInv, TypeOK, SubTypeOK, MsgStatus, Acknowledge, Chunks
    <3>3. CASE ModifyAckDeadline(w)
      BY <3>1, <3>3 DEF IInv, TypeOK, SubTypeOK, MsgStatus, ModifyAckDeadline, AfterDelivery, Chunks
    <3> QED BY <2>2, <3>2, <3>3 DEF SettleBatch
  <2> QED BY <2>1, <2>2
<1>3. Grows
  BY <1>0, <1>2 DEF Grows, Delivered, Held, storeVars, configVars
<1>4. cur[w] = None /\ pc[w] = "ready"
  BY DEF PullBatch, SettleBatch, Pull, Polling, Acknowledge, ModifyAckDeadline, BatchDone,
         IInv, WorkerInv, LoopInv
<1>5. ASSUME NEW v \in Workers PROVE WorkerInv(v)'
  <2>1. CASE v # w
    BY <1>0, <1>1, <1>2, <1>3, <2>1, OtherWorker DEF IInv, Unmoved, pipelineVars
  <2>2. CASE v = w
    <3>1. LocalsInv(w)' /\ ChunkInv(w)'
      BY <1>0, <1>4 DEF IInv, WorkerInv, LocalsInv, ChunkInv, pipelineVars
    <3>2. \A m \in acks'[w] : m \in Chunks /\ Delivered(m)' /\ Concluded(m)'
      BY <1>2, <1>3, GrowsKeeps DEF IInv, TypeOK, SubTypeOK, WorkerInv, LoopInv, Grows, Chunks
    <3>3. None \notin batch'[w]
      BY <1>2 DEF Chunks
    <3>4. LoopInv(w)'
      BY <1>0, <1>2, <1>4, <3>2, <3>3 DEF LoopInv, Delivered, pipelineVars
    <3> QED BY <2>2, <3>1, <3>4 DEF WorkerInv
  <2> QED BY <2>1, <2>2
<1>6. HoldsInv' /\ RefusedIsNotWritten' /\ AuditIsEarned'
  BY <1>0, <1>1, <1>3, TablesKept DEF storeVars
<1>7. NothingAckedAndLost'
  <2> SUFFICES ASSUME NEW m \in Chunks, msg'[m] = "acked" PROVE Concluded(m)'
    BY DEF NothingAckedAndLost, Concluded
  <2>1. Delivered(m) /\ Concluded(m)
    BY <1>2 DEF IInv, WorkerInv, LoopInv, NothingAckedAndLost, Concluded, Delivered
  <2> QED BY <1>3, <2>1, GrowsKeeps
<1>8. CountInv'
  <2>1. CASE PullBatch(w)
    <3>1. PICK S \in SUBSET {m \in Messages : msg[m] = "queued"} :
            /\ attempts' = [m \in Messages |-> IF m \in S THEN attempts[m] + 1 ELSE attempts[m]]
            /\ batch' = [batch EXCEPT ![w] = S]
      BY <2>1 DEF PullBatch, Pull
    <3> SUFFICES ASSUME NEW m \in Chunks
                 PROVE  /\ IsFiniteSet(MayHold(m)')
                        /\ Len(quarantine'[m]) + Cardinality(MayHold(m)') <= attempts'[m]
                        /\ IsFiniteSet(MayReceive(m)')
                        /\ Received(m)' + Cardinality(MayReceive(m)') <= attempts'[m]
      BY DEF CountInv
    <3>2. /\ attempts[m] \in Nat /\ attempts'[m] \in Nat
          /\ attempts'[m] = IF m \in S THEN attempts[m] + 1 ELSE attempts[m]
          /\ Len(quarantine[m]) \in Nat /\ Received(m) \in Nat
          /\ quarantine' = quarantine /\ Received(m)' = Received(m)
      BY <1>0, <1>1, <3>1 DEF IInv, TypeOK, SubTypeOK, Chunks, Received, storeVars
    <3>3. /\ MayHold(m)' \subseteq MayHold(m) \cup {w} /\ (m \notin S => MayHold(m)' \subseteq MayHold(m))
          /\ MayReceive(m)' \subseteq MayReceive(m) \cup {w}
          /\ m \notin S => MayReceive(m)' \subseteq MayReceive(m)
      BY <1>0, <3>1 DEF IInv, TypeOK, SubTypeOK, MayHold, MayReceive, pipelineVars
    <3>4. /\ IsFiniteSet(MayHold(m)) /\ Len(quarantine[m]) + Cardinality(MayHold(m)) <= attempts[m]
          /\ IsFiniteSet(MayReceive(m)) /\ Received(m) + Cardinality(MayReceive(m)) <= attempts[m]
      BY DEF IInv, CountInv
    <3>a. m \in S \/ attempts'[m] >= attempts[m]
      BY <3>2
    <3>5. IsFiniteSet(MayHold(m)') /\ Len(quarantine[m]) + Cardinality(MayHold(m)') <= attempts'[m]
      <4>1. CASE m \in S
        <5>1. MayHold(m)' \subseteq MayHold(m) \cup {w} /\ attempts'[m] = attempts[m] + 1
          BY <3>2, <3>3, <4>1
        <5> QED BY <3>2, <3>4, <5>1, Tally
      <4>2. CASE m \notin S
        <5>1. MayHold(m)' \subseteq MayHold(m)
          BY <3>3, <4>2
        <5> QED BY <3>a, <3>2, <3>4, <4>2, <5>1, Tally
      <4> QED BY <4>1, <4>2
    <3>6. IsFiniteSet(MayReceive(m)') /\ Received(m) + Cardinality(MayReceive(m)') <= attempts'[m]
      <4>1. CASE m \in S
        <5>1. MayReceive(m)' \subseteq MayReceive(m) \cup {w} /\ attempts'[m] = attempts[m] + 1
          BY <3>2, <3>3, <4>1
        <5> QED BY <3>2, <3>4, <5>1, Tally
      <4>2. CASE m \notin S
        <5>1. MayReceive(m)' \subseteq MayReceive(m)
          BY <3>3, <4>2
        <5> QED BY <3>a, <3>2, <3>4, <4>2, <5>1, Tally
      <4> QED BY <4>1, <4>2
    <3> QED BY <3>2, <3>5, <3>6
  <2>2. CASE SettleBatch(w)
    <3>1. batch' = batch
      BY <2>2 DEF SettleBatch, Acknowledge, ModifyAckDeadline
    <3>2. \A m \in Chunks : /\ MayHold(m)' = MayHold(m) /\ MayReceive(m)' = MayReceive(m)
                             /\ Received(m)' = Received(m) /\ quarantine'[m] = quarantine[m]
      BY <1>0, <3>1 DEF MayHold, MayReceive, Received, storeVars, pipelineVars
    <3> QED BY <1>1, <1>3, <3>2, CountKept
  <2> QED BY <2>1, <2>2
<1> QED BY <1>1, <1>5, <1>6, <1>7, <1>8 DEF IInv

-----------------------------------------------------------------------------
(* Steps of process. *)

\* What a step of w inside process leaves alone.
Inside(w) ==
    /\ UNCHANGED <<msg, attempts, kind>>
    /\ \A v \in Workers : v # w => Unmoved(v)
    /\ batch'[w] \subseteq batch[w]

\* What is held stays justly held.
LEMMA HoldsStay ==
    ASSUME HoldsInv, UNCHANGED <<kind, quarantine>>
    PROVE  HoldsInv'
<1> SUFFICES ASSUME NEW m \in Chunks, NEW i \in 1..Len(quarantine'[m])
             PROVE  HoldIsJust(m, quarantine[m][i])'
  BY DEF HoldsInv
<1>1. HoldIsJust(m, quarantine[m][i])
  BY DEF HoldsInv
<1>2. kind' = kind /\ quarantine' = quarantine
  OBVIOUS
<1> QED BY <1>1, <1>2 DEF HoldIsJust

\* A step inside the pipeline delivers nothing, so the tables are all that can grow.
LEMMA GrowsInside ==
    ASSUME IInv, NEW w \in Workers, Inside(w),
           \A m \in Chunks : /\ landed[m] \subseteq landed'[m] /\ merged[m] \subseteq merged'[m]
                             /\ Held(m) => Held(m)'
    PROVE  Grows
<1>1. UNCHANGED <<msg, attempts, kind>>
  BY DEF Inside
<1>2. \A m \in Chunks : attempts[m] \in Nat
  BY DEF IInv, TypeOK, SubTypeOK, Chunks
<1>3. \A m \in Chunks : (Delivered(m) => Delivered(m)') /\ kind'[m] = kind[m]
  BY <1>1 DEF Delivered
<1>4. \A m \in Chunks : attempts[m] <= attempts'[m]
  BY <1>1, <1>2
<1> QED BY <1>3, <1>4 DEF Grows

\* It is enough to show the invariant of the instance that moved and of the tables.
LEMMA InsideStep ==
    ASSUME IInv, NEW w \in Workers, Inside(w), TypeOK', Grows, WorkerInv(w)', CountInv',
           HoldsInv', RefusedIsNotWritten', AuditIsEarned'
    PROVE  IInv'
<1>1. AttemptsInv'
  BY DEF Inside, IInv, AttemptsInv
<1>2. \A v \in Workers : WorkerInv(v)'
  BY OtherWorker DEF IInv, Inside
<1>3. NothingAckedAndLost'
  BY GrowsKeeps DEF IInv, NothingAckedAndLost, Concluded, Delivered, Inside
<1> QED BY <1>1, <1>2, <1>3 DEF IInv

\* A step that writes nothing: the tables keep their invariant, and no delivery begins.
LEMMA QuietStep ==
    ASSUME IInv, NEW w \in Workers, Inside(w), TypeOK', WorkerInv(w)',
           UNCHANGED <<landed, merged, quarantine, audit>>,
           cur'[w] # None => \/ cur'[w] \in batch[w]
                             \/ /\ cur'[w] = cur[w]
                                /\ pc[w] # "held"
                                /\ pc'[w] \in {"seen", "fetch"} => pc[w] \in {"seen", "fetch"}
    PROVE  IInv'
<1>0. attempts \in [Chunks -> Nat]
  BY SubscriptionAssumption DEF IInv, TypeOK, SubTypeOK, Chunks
<1>1. Grows
  BY <1>0 DEF Grows, Inside, Delivered, Held
<1>2. HoldsInv' /\ RefusedIsNotWritten' /\ AuditIsEarned'
  BY <1>1, TablesKept
<1>3. CountInv'
  <2> SUFFICES ASSUME NEW m \in Chunks
               PROVE  /\ Len(quarantine'[m]) = Len(quarantine[m])
                      /\ Received(m)' = Received(m)
                      /\ MayHold(m)' \subseteq MayHold(m)
                      /\ MayReceive(m)' \subseteq MayReceive(m)
    BY <1>1, CountKept
  <2>1. m # None
    BY SubscriptionAssumption DEF Chunks
  <2>2. Len(quarantine'[m]) = Len(quarantine[m]) /\ Received(m)' = Received(m)
    BY DEF Received
  <2>3. MayHold(m)' \subseteq MayHold(m)
    BY <2>1 DEF MayHold, Inside, Unmoved
  <2>4. MayReceive(m)' \subseteq MayReceive(m)
    BY <2>1 DEF MayReceive, Inside, Unmoved
  <2> QED BY <2>2, <2>3, <2>4
<1> QED BY <1>1, <1>2, <1>3, InsideStep

LEMMA NoContextType == NoContext \in FlowContext
  BY StreamingConsumerAssumption DEF NoContext, FlowContext

\* process_message returned, or the pass died: the instance holds no message.
Ended(w) ==
    /\ UNCHANGED <<msg, attempts>>
    /\ pc' = [pc EXCEPT ![w] = "ready"]
    /\ ctx' = [ctx EXCEPT ![w] = NoContext]
    /\ cur' = [cur EXCEPT ![w] = None]
    /\ \/ batch' = batch
       \/ batch' = [batch EXCEPT ![w] = {}]
    /\ \/ acks' = acks
       \/ acks' = [acks EXCEPT ![w] = {}]
       \/ acks' = [acks EXCEPT ![w] = @ \cup {cur[w]}] /\ cur[w] # None /\ Concluded(cur[w])
    /\ nacks' \in [Workers -> SUBSET Messages]

\* Of an instance, only Unmoved parts and what Ended says have changed.
LEMMA EndedFrame ==
    ASSUME IInv, NEW w \in Workers, Ended(w)
    PROVE  /\ SubTypeOK' /\ pc' \in [Workers -> Steps] /\ ctx' \in [Workers -> FlowContext]
           /\ \A v \in Workers : v # w => Unmoved(v)
           /\ batch'[w] \subseteq batch[w] /\ pc'[w] = "ready" /\ cur'[w] = None
<1> USE DEF IInv, TypeOK
<1>1. SubTypeOK'
  <2>1. acks' \in [Workers -> SUBSET Messages]
    <3>1. CASE cur[w] # None /\ acks' = [acks EXCEPT ![w] = @ \cup {cur[w]}]
      <4>1. acks[w] \cup {cur[w]} \in SUBSET Messages
        BY <3>1 DEF SubTypeOK
      <4> QED BY <3>1, <4>1 DEF SubTypeOK
    <3>2. CASE acks' = acks \/ acks' = [acks EXCEPT ![w] = {}]
      BY <3>2 DEF SubTypeOK
    <3> QED BY <3>1, <3>2 DEF Ended
  <2>2. batch' \in [Workers -> SUBSET Messages] /\ cur' \in [Workers -> Messages \cup {None}]
    BY DEF Ended, SubTypeOK
  <2> QED BY <2>1, <2>2 DEF Ended, SubTypeOK
<1>2. pc' \in [Workers -> Steps] /\ ctx' \in [Workers -> FlowContext]
  BY NoContextType DEF Ended, Steps
<1>3. batch'[w] \subseteq batch[w] /\ pc'[w] = "ready" /\ cur'[w] = None
  BY DEF Ended, SubTypeOK
<1>4. ASSUME NEW v \in Workers, v # w PROVE Unmoved(v)
  BY <1>4 DEF Ended, Unmoved, SubTypeOK
<1> QED BY <1>1, <1>2, <1>3, <1>4

LEMMA EndedInv ==
    ASSUME IInv, NEW w \in Workers, Ended(w), TypeOK', Grows
    PROVE  WorkerInv(w)'
<1> USE SubscriptionAssumption
<1>1. pc'[w] = "ready" /\ cur'[w] = None /\ ctx'[w] = NoContext /\ batch'[w] \subseteq batch[w]
  <2>1. ctx'[w] = NoContext
    BY DEF Ended, IInv, TypeOK
  <2> QED BY <2>1, EndedFrame
<1>2. LocalsInv(w)' /\ ChunkInv(w)'
  BY <1>1 DEF LocalsInv, ChunkInv, NoContext
<1>3. \A m \in acks'[w] : m \in Chunks /\ Delivered(m) /\ Concluded(m)
  BY DEF Ended, IInv, TypeOK, SubTypeOK, WorkerInv, LoopInv, Chunks
<1>4. \A m \in acks'[w] : Delivered(m)' /\ Concluded(m)'
  BY <1>3, GrowsKeeps DEF Grows
<1>5. \A m \in batch'[w] : m \in Chunks /\ Delivered(m)'
  BY <1>1 DEF IInv, TypeOK, SubTypeOK, WorkerInv, LoopInv, Grows, Chunks
<1>6. LoopInv(w)'
  BY <1>1, <1>4, <1>5 DEF LoopInv, Chunks
<1> QED BY <1>2, <1>6 DEF WorkerInv

\* A delivery ends and nothing is written: a nack, a crash, or the ack of a malformed
\* message.
LEMMA EndsQuietly ==
    ASSUME IInv, NEW w \in Workers, Ended(w), UNCHANGED storeVars
    PROVE  IInv'
<1>1. TypeOK'
  BY EndedFrame DEF IInv, TypeOK, storeVars, configVars
<1>2. Inside(w) /\ UNCHANGED <<landed, merged, quarantine, audit>>
  BY EndedFrame DEF Inside, Ended, storeVars, configVars
<1>3. Grows
  BY <1>2, SubscriptionAssumption
  DEF Grows, Inside, Delivered, Held, IInv, TypeOK, SubTypeOK, Chunks
<1>4. WorkerInv(w)'
  BY <1>1, <1>3, EndedInv
<1> QED BY <1>1, <1>2, <1>4, EndedFrame, QuietStep

LEMMA NackEnds ==
    ASSUME IInv, NEW w \in Workers, pc[w] # "ready", ReturnNack(w), Finish(w)
    PROVE  Ended(w)
<1>1. cur[w] \in Messages
  BY DEF IInv, WorkerInv, LoopInv, TypeOK, SubTypeOK
<1> QED BY <1>1 DEF ReturnNack, Finish, ReturnTo, Ended, brokerVars, IInv, TypeOK, SubTypeOK

LEMMA AckEnds ==
    ASSUME IInv, NEW w \in Workers, pc[w] # "ready", Concluded(cur[w]), ReturnAck(w), Finish(w)
    PROVE  Ended(w)
<1>1. cur[w] # None
  BY DEF IInv, WorkerInv, LoopInv
<1> QED BY <1>1 DEF ReturnAck, Finish, ReturnTo, Ended, brokerVars, IInv, TypeOK, SubTypeOK

\* An exception that is not quarantinable, a failure of the infrastructure, a crash, and
\* the ack of a malformed message.
LEMMA EndStep ==
    ASSUME IInv, NEW w \in Workers,
           \/ FetchUnbacked(w) \/ StoreMissing(w) \/ WriteRefused(w) \/ StepRaises(w)
           \/ RejectEnvelope(w) \/ Crash(w)
    PROVE  IInv'
<1>1. CASE FetchUnbacked(w) \/ StoreMissing(w) \/ WriteRefused(w) \/ StepRaises(w)
  <2>1. pc[w] # "ready" /\ ReturnNack(w) /\ Finish(w) /\ UNCHANGED storeVars
    BY <1>1 DEF FetchUnbacked, StoreMissing, WriteRefused, StepRaises, Raise, Quarantinable
  <2> QED BY <2>1, NackEnds, EndsQuietly
<1>2. CASE RejectEnvelope(w)
  <2>1. pc[w] # "ready" /\ Concluded(cur[w]) /\ ReturnAck(w) /\ Finish(w) /\ UNCHANGED storeVars
    BY <1>2 DEF RejectEnvelope, Concluded
  <2> QED BY <2>1, AckEnds, EndsQuietly
<1>3. CASE Crash(w)
  <2>1. nacks' \in [Workers -> SUBSET Messages]
    BY <1>3 DEF Crash, PassAborted, IInv, TypeOK, SubTypeOK
  <2>2. Ended(w) /\ UNCHANGED storeVars
    BY <1>3, <2>1 DEF Crash, PassAborted, Finish, ReturnTo, Ended, brokerVars
  <2> QED BY <2>2, EndsQuietly
<1> QED BY <1>1, <1>2, <1>3

\* The delivery goes on with other locals and nothing is written.
LEMMA StayStep ==
    ASSUME IInv, NEW w \in Workers, NEW p \in Steps \ {"ready", "seen"}, NEW x \in FlowContext,
           UNCHANGED <<subVars, storeVars>>,
           pc' = [pc EXCEPT ![w] = p], ctx' = [ctx EXCEPT ![w] = x],
           pc[w] \notin {"ready", "held"}, p = "fetch" => pc[w] = "seen",
           LocalsInv(w)', ChunkInv(w)'
    PROVE  IInv'
<1>1. TypeOK'
  BY DEF IInv, TypeOK, SubTypeOK, subVars, storeVars, configVars
<1>2. pc'[w] = p /\ \A v \in Workers : v # w => Unmoved(v)
  BY DEF IInv, TypeOK, Unmoved, subVars
<1>3. Inside(w) /\ UNCHANGED <<landed, merged, quarantine, audit>>
  BY <1>2 DEF Inside, subVars, storeVars, configVars
<1>4. Grows
  BY <1>3, SubscriptionAssumption
  DEF Grows, Inside, Delivered, Held, IInv, TypeOK, SubTypeOK, Chunks
<1>5. \A m \in acks[w] : m \in Chunks /\ Concluded(m)'
  BY <1>4, GrowsKeeps DEF IInv, TypeOK, SubTypeOK, WorkerInv, LoopInv, Chunks
<1>6. LoopInv(w)'
  BY <1>2, <1>5 DEF IInv, WorkerInv, LoopInv, Delivered, subVars
<1>7. cur'[w] = cur[w] /\ pc[w] # "held" /\ (pc'[w] \in {"seen", "fetch"} => pc[w] \in {"seen", "fetch"})
  BY <1>2 DEF subVars
<1> QED BY <1>1, <1>3, <1>6, <1>7, QuietStep DEF WorkerInv

\* The facts about the chunk in hand that the stages of _process use.
LEMMA HandFacts ==
    ASSUME IInv, NEW w \in Workers
    PROVE  /\ pc[w] # "ready" => cur[w] \in Chunks
           /\ ctx[w] \in FlowContext /\ pc[w] \in Steps
           /\ ctx[w].batch \in 1..Batches /\ ctx[w].version \in Versions \cup {None}
  BY DEF IInv, TypeOK, SubTypeOK, WorkerInv, LoopInv, Chunks, FlowContext

\* _seen_before and the stages that pass.
LEMMA PassStep ==
    ASSUME IInv, NEW w \in Workers,
           SeenBefore(w) \/ LoadActiveMapping(w) \/ ReadStoreFacts(w) \/ GatesPass(w)
    PROVE  IInv'
<1> USE StreamingConsumerAssumption, HandFacts
<1>1. CASE SeenBefore(w)
  <2>1. PICK seen \in {FALSE, \E s \in {"RECEIVED", "RETRIED"} : <<cur[w], s>> \in audit} :
          ctx' = [ctx EXCEPT ![w].seen_before = seen]
    BY <1>1 DEF SeenBefore
  <2> DEFINE x == [ctx[w] EXCEPT !.seen_before = seen]
  <2>2. /\ pc[w] = "seen" /\ pc' = [pc EXCEPT ![w] = "fetch"] /\ UNCHANGED <<subVars, storeVars>>
        /\ ctx' = [ctx EXCEPT ![w] = x] /\ x \in FlowContext /\ x.seen_before = seen
        /\ x.version = ctx[w].version /\ x.batch = ctx[w].batch
    BY <1>1, <2>1 DEF SeenBefore, ReturnTo, FlowContext
  <2>3. PICK c \in Chunks : c = cur[w]
    BY <2>2
  <2>4. seen => attempts[c] > 1
    <3> SUFFICES ASSUME \E s \in {"RECEIVED", "RETRIED"} : <<c, s>> \in audit PROVE attempts[c] > 1
      BY <2>3
    <3>1. Received(c) = 1 /\ w \in MayReceive(c)
      BY <2>2, <2>3 DEF Received, MayReceive
    <3>2. Cardinality(MayReceive(c)) \in Nat /\ Cardinality(MayReceive(c)) # 0
      BY <3>1, FS_CardinalityType, FS_EmptySet DEF IInv, CountInv
    <3>3. attempts[c] \in Nat
      BY SubscriptionAssumption DEF IInv, TypeOK, SubTypeOK, Chunks
    <3>4. Received(c) + Cardinality(MayReceive(c)) <= attempts[c]
      BY DEF IInv, CountInv
    <3> QED BY <3>1, <3>2, <3>3, <3>4
  <2> HIDE DEF x
  <2>5. pc'[w] = "fetch" /\ ctx'[w] = x /\ cur'[w] = c /\ attempts' = attempts
    BY <2>2, <2>3 DEF IInv, TypeOK, subVars
  <2>6. LocalsInv(w)' /\ ChunkInv(w)'
    BY <2>2, <2>4, <2>5 DEF LocalsInv, ChunkInv, IInv, WorkerInv
  <2> QED BY <2>2, <2>6, StayStep DEF Steps
<1>2. CASE LoadActiveMapping(w)
  <2> DEFINE x == [ctx[w] EXCEPT !.version = ActiveVersion(w)]
             p == IF TargetOf[ActiveVersion(w)] = "change" THEN "gates" ELSE "store"
  <2>1. /\ pc[w] = "lookup" /\ ActiveVersion(w) \in Versions
        /\ UNCHANGED <<subVars, storeVars>>
    BY <1>2 DEF LoadActiveMapping, ActiveVersion, IInv, TypeOK, Chunks
  <2>2. /\ pc' = [pc EXCEPT ![w] = p] /\ p \in {"gates", "store"}
        /\ ctx' = [ctx EXCEPT ![w] = x] /\ x \in FlowContext /\ x.version \in Versions
        /\ x.seen_before = ctx[w].seen_before /\ x.batch = ctx[w].batch
    BY <1>2, <2>1 DEF LoadActiveMapping, ReturnTo, FlowContext
  <2> HIDE DEF x, p
  <2>3. pc'[w] = p /\ ctx'[w] = x /\ cur'[w] = cur[w] /\ attempts' = attempts
    BY <2>1, <2>2 DEF IInv, TypeOK, subVars
  <2>4. LocalsInv(w)' /\ ChunkInv(w)'
    BY <2>1, <2>2, <2>3 DEF LocalsInv, ChunkInv, IInv, WorkerInv
  <2> QED BY <2>1, <2>2, <2>4, StayStep DEF Steps
<1>3. CASE ReadStoreFacts(w)
  <2>1. /\ pc[w] = "store" /\ pc' = [pc EXCEPT ![w] = "gates"] /\ UNCHANGED <<subVars, storeVars>>
        /\ ctx' = [ctx EXCEPT ![w] = ctx[w]]
    BY <1>3 DEF ReadStoreFacts, ReturnTo, IInv, TypeOK
  <2>2. pc'[w] = "gates" /\ ctx'[w] = ctx[w] /\ cur'[w] = cur[w] /\ attempts' = attempts
    BY <2>1 DEF IInv, TypeOK, subVars
  <2>3. LocalsInv(w)' /\ ChunkInv(w)'
    BY <2>1, <2>2 DEF LocalsInv, ChunkInv, IInv, WorkerInv
  <2> QED BY <2>1, <2>3, StayStep DEF Steps
<1>4. CASE GatesPass(w)
  <2>1. /\ pc[w] = "gates" /\ pc' = [pc EXCEPT ![w] = "write"] /\ UNCHANGED <<subVars, storeVars>>
        /\ ctx' = [ctx EXCEPT ![w] = ctx[w]] /\ Verdict[cur[w]][ctx[w].version].gate = "pass"
    BY <1>4 DEF GatesPass, GateVerdict, ReturnTo, IInv, TypeOK
  <2>2. pc'[w] = "write" /\ ctx'[w] = ctx[w] /\ cur'[w] = cur[w] /\ attempts' = attempts
    BY <2>1 DEF IInv, TypeOK, subVars
  <2>3. LocalsInv(w)'
    BY <2>1, <2>2 DEF LocalsInv, IInv, WorkerInv
  <2>4. ctx[w].batch - 1 = 0
    BY <2>1 DEF LocalsInv, IInv, WorkerInv
  <2>5. WrittenUpTo(cur[w], ctx[w].version, ctx[w].batch - 1)'
    BY <2>2, <2>4 DEF WrittenUpTo
  <2>6. ChunkInv(w)'
    BY <2>1, <2>2, <2>5 DEF ChunkInv
  <2> QED BY <2>1, <2>3, <2>6, StayStep DEF Steps
<1> QED BY <1>1, <1>2, <1>3, <1>4

\* A deterministic failure is about to be held: the hold it describes is just.
LEMMA HoldStep ==
    ASSUME IInv, NEW w \in Workers,
           FetchUnparsable(w) \/ LookupFails(w) \/ MappingRefused(w) \/ GateFailure(w)
    PROVE  IInv'
<1> USE StreamingConsumerAssumption, HandFacts
<1>1. PICK h : /\ ctx' = [ctx EXCEPT ![w].hold = h] /\ pc' = [pc EXCEPT ![w] = "hold"]
               /\ h \in Hold /\ HoldIsJust(cur[w], h)
               /\ pc[w] \in {"fetch", "lookup", "gates"} /\ UNCHANGED <<subVars, storeVars>>
  <2>1. CASE FetchUnparsable(w)
    <3> DEFINE h == [grain |-> "chunk", stage |-> FailedStage(pc[w]), code |-> "CONTRACT_VIOLATION",
                     version |-> ctx[w].version, rows |-> {}]
    <3>1. /\ ctx' = [ctx EXCEPT ![w].hold = h] /\ pc' = [pc EXCEPT ![w] = "hold"]
          /\ pc[w] = "fetch" /\ kind[cur[w]] = "unparsable" /\ UNCHANGED <<subVars, storeVars>>
      BY <2>1 DEF FetchUnparsable, Raise, Quarantinable, ReturnTo
    <3>2. FailedStage(pc[w]) \in Stage
      BY <3>1 DEF FailedStage, Stage
    <3>3. h \in Hold
      BY <3>2 DEF Hold, FailureCode
    <3>4. HoldIsJust(cur[w], h)
      BY <3>1 DEF HoldIsJust
    <3> QED BY <3>1, <3>3, <3>4
  <2>2. CASE LookupFails(w)
    <3> DEFINE h == [grain |-> "chunk", stage |-> FailedStage(pc[w]), code |-> "MAPPING_CONFIG_INVALID",
                     version |-> ctx[w].version, rows |-> {}]
    <3>1. /\ ctx' = [ctx EXCEPT ![w].hold = h] /\ pc' = [pc EXCEPT ![w] = "hold"]
          /\ pc[w] = "lookup" /\ UNCHANGED <<subVars, storeVars>>
      BY <2>2 DEF LookupFails, Raise, Quarantinable, ReturnTo
    <3>2. FailedStage(pc[w]) \in Stage
      BY <3>1 DEF FailedStage, Stage
    <3>3. h \in Hold
      BY <3>2 DEF Hold, FailureCode
    <3>4. ctx[w].version = None
      BY <3>1 DEF IInv, WorkerInv, LocalsInv
    <3>5. HoldIsJust(cur[w], h)
      BY <3>4 DEF HoldIsJust
    <3> QED BY <3>1, <3>3, <3>5
  <2>3. CASE MappingRefused(w)
    <3> DEFINE h == [grain |-> "chunk", stage |-> FailedStage(pc[w]), code |-> "MAPPING_CONFIG_INVALID",
                     version |-> ctx[w].version, rows |-> {}]
    <3>1. /\ ctx' = [ctx EXCEPT ![w].hold = h] /\ pc' = [pc EXCEPT ![w] = "hold"]
          /\ pc[w] = "gates" /\ UNCHANGED <<subVars, storeVars>>
          /\ Verdict[cur[w]][ctx[w].version].gate = "config"
      BY <2>3 DEF MappingRefused, GateVerdict, Raise, Quarantinable, ReturnTo
    <3>2. FailedStage(pc[w]) \in Stage
      BY <3>1 DEF FailedStage, Stage
    <3>3. h \in Hold
      BY <3>2 DEF Hold, FailureCode
    <3>4. HoldIsJust(cur[w], h)
      BY <3>1 DEF HoldIsJust
    <3> QED BY <3>1, <3>3, <3>4
  <2>4. CASE GateFailure(w)
    <3> DEFINE g == GateVerdict(w)
               byRow == g.gate = "rows"
               h == [grain |-> IF byRow THEN "rows" ELSE "chunk", stage |-> g.stage,
                     code |-> IF byRow THEN "VALIDATION_ROW_FAILED" ELSE "GATE_FAILED",
                     version |-> ctx[w].version, rows |-> g.rows]
    <3>1. /\ ctx' = [ctx EXCEPT ![w].hold = h] /\ pc' = [pc EXCEPT ![w] = "hold"]
          /\ pc[w] = "gates" /\ UNCHANGED <<subVars, storeVars>> /\ g.gate \in {"rows", "shape"}
      BY <2>4 DEF GateFailure, HeldRows, ReturnTo
    <3>2. PICK c \in Chunks, v \in Versions : c = cur[w] /\ v = ctx[w].version
      BY <3>1 DEF IInv, WorkerInv, LocalsInv
    <3>3. g = Verdict[c][v] /\ g \in Verdicts /\ (g.gate # "rows" => g.rows = {})
      BY <3>2 DEF GateVerdict
    <3> HIDE DEF g
    <3>4. g = [gate |-> g.gate, stage |-> g.stage, rows |-> g.rows]
          /\ g.stage \in Stage /\ g.rows \in SUBSET (1..Batches)
      BY <3>3 DEF Verdicts
    <3>5. h \in Hold
      BY <3>2, <3>4 DEF Hold, FailureCode
    <3>6. HoldIsJust(cur[w], h)
      BY <3>1, <3>2, <3>3, <3>4 DEF HoldIsJust
    <3> QED BY <3>1, <3>5, <3>6
  <2> QED BY <2>1, <2>2, <2>3, <2>4
<1> DEFINE x == [ctx[w] EXCEPT !.hold = h]
<1>2. /\ ctx' = [ctx EXCEPT ![w] = x] /\ x \in FlowContext /\ x.hold = h
      /\ x.seen_before = ctx[w].seen_before
  BY <1>1 DEF FlowContext
<1> HIDE DEF x
<1>3. pc'[w] = "hold" /\ ctx'[w] = x /\ cur'[w] = cur[w] /\ UNCHANGED <<attempts, kind>>
  BY <1>1, <1>2 DEF IInv, TypeOK, subVars, storeVars, configVars
<1>4. LocalsInv(w)'
  BY <1>1, <1>2, <1>3 DEF LocalsInv, IInv, WorkerInv
<1>5. ChunkInv(w)'
  BY <1>1, <1>2, <1>3 DEF ChunkInv, HoldIsJust
<1> QED BY <1>1, <1>2, <1>4, <1>5, StayStep DEF Steps

\* The next message of the batch is taken up.
LEMMA BeginStep ==
    ASSUME IInv, NEW w \in Workers, BeginMessage(w)
    PROVE  IInv'
<1> USE SubscriptionAssumption, StreamingConsumerAssumption
<1>1. PICK m \in batch[w] : /\ cur' = [cur EXCEPT ![w] = m]
                            /\ batch' = [batch EXCEPT ![w] = @ \ {m}]
  BY DEF BeginMessage, NextMessage
<1>2. /\ pc' = [pc EXCEPT ![w] = "seen"] /\ UNCHANGED <<storeVars, ctx, msg, attempts, acks, nacks>>
      /\ cur[w] = None /\ pc[w] = "ready" /\ m \in Chunks
  BY DEF BeginMessage, NextMessage, ReturnTo, brokerVars, IInv, WorkerInv, LoopInv, TypeOK, SubTypeOK,
         Chunks
<1>3. TypeOK'
  <2>1. SubTypeOK'
    BY <1>1, <1>2 DEF IInv, TypeOK, SubTypeOK
  <2> QED BY <1>2, <2>1 DEF IInv, TypeOK, storeVars, configVars, Steps
<1>4. /\ pc'[w] = "seen" /\ ctx'[w] = ctx[w] /\ cur'[w] = m /\ acks'[w] = acks[w]
      /\ batch'[w] = batch[w] \ {m}
      /\ \A v \in Workers : v # w => Unmoved(v)
  BY <1>1, <1>2 DEF IInv, TypeOK, SubTypeOK, Unmoved
<1>5. Inside(w) /\ UNCHANGED <<landed, merged, quarantine, audit>>
  BY <1>2, <1>4 DEF Inside, storeVars, configVars
<1>6. Grows
  BY <1>5 DEF Grows, Inside, Delivered, Held, IInv, TypeOK, SubTypeOK, Chunks
<1>7. LocalsInv(w)' /\ ChunkInv(w)'
  BY <1>2, <1>4 DEF IInv, WorkerInv, LocalsInv, ChunkInv
<1>8. LoopInv(w)'
  <2>1. \A n \in acks[w] : n \in Chunks /\ Concluded(n)'
    BY <1>6, GrowsKeeps DEF IInv, TypeOK, SubTypeOK, WorkerInv, LoopInv, Chunks
  <2> QED BY <1>1, <1>2, <1>4, <2>1 DEF IInv, WorkerInv, LoopInv, Delivered, Chunks
<1> QED BY <1>3, <1>4, <1>5, <1>7, <1>8, QuietStep DEF WorkerInv

-----------------------------------------------------------------------------
(* Steps of process that write. *)

\* fetch_chunk succeeded: RECEIVED, or RETRIED when an earlier delivery was audited.
LEMMA FetchStep ==
    ASSUME IInv, NEW w \in Workers, FetchChunk(w)
    PROVE  IInv'
<1> USE SubscriptionAssumption, StreamingConsumerAssumption, HandFacts
<1> DEFINE s == IF ctx[w].seen_before THEN "RETRIED" ELSE "RECEIVED"
<1>1. /\ pc[w] = "fetch" /\ audit' \in {audit, audit \cup {<<cur[w], s>>}}
      /\ pc' = [pc EXCEPT ![w] = "lookup"]
      /\ UNCHANGED <<subVars, configVars, onboarded, landed, merged, quarantine, ctx>>
  BY DEF FetchChunk, Emit, ReturnTo
<1>2. PICK c \in Chunks : c = cur[w]
  BY <1>1
<1>3. s \in {"RECEIVED", "RETRIED"} /\ (s = "RETRIED" => attempts[c] > 1)
  BY <1>1, <1>2 DEF IInv, WorkerInv, LocalsInv
<1> HIDE DEF s
<1>4. TypeOK'
  BY <1>1, <1>2, <1>3 DEF IInv, TypeOK, SubTypeOK, subVars, configVars, Steps, AuditStage
<1>5. pc'[w] = "lookup" /\ \A v \in Workers : v # w => Unmoved(v)
  BY <1>1 DEF IInv, TypeOK, Unmoved, subVars
<1>6. Inside(w)
  BY <1>1, <1>5 DEF Inside, subVars, configVars
<1>7. Grows
  BY <1>1, <1>6 DEF Grows, Inside, Delivered, Held, IInv, TypeOK, SubTypeOK, Chunks
<1>8. WorkerInv(w)'
  <2>1. LocalsInv(w)' /\ ChunkInv(w)'
    BY <1>1, <1>5 DEF IInv, WorkerInv, LocalsInv, ChunkInv, subVars
  <2>2. \A n \in acks[w] : n \in Chunks /\ Concluded(n)'
    BY <1>7, GrowsKeeps DEF IInv, TypeOK, SubTypeOK, WorkerInv, LoopInv, Chunks
  <2>3. LoopInv(w)'
    BY <1>1, <1>5, <2>2 DEF IInv, WorkerInv, LoopInv, Delivered, subVars
  <2> QED BY <2>1, <2>3 DEF WorkerInv
<1>9. HoldsInv' /\ RefusedIsNotWritten'
  BY <1>1, HoldsStay DEF IInv, RefusedIsNotWritten, configVars
<1>10. AuditIsEarned'
  <2> SUFFICES ASSUME NEW m \in Chunks
               PROVE  /\ <<m, "QUARANTINED">> \in audit' => Held(m)'
                      /\ <<m, "WRITTEN">> \in audit' => Written(m)'
                      /\ <<m, "RETRIED">> \in audit' => attempts'[m] > 1
    BY DEF AuditIsEarned
  <2>1. /\ <<m, "QUARANTINED">> \in audit' => <<m, "QUARANTINED">> \in audit
        /\ <<m, "WRITTEN">> \in audit' => <<m, "WRITTEN">> \in audit
        /\ <<m, "RETRIED">> \in audit' => <<m, "RETRIED">> \in audit \/ attempts[m] > 1
    BY <1>1, <1>2, <1>3
  <2>2. (Held(m) => Held(m)') /\ (Written(m) => Written(m)') /\ attempts'[m] = attempts[m]
    BY <1>1, <1>7, GrowsKeeps DEF Grows, subVars
  <2> QED BY <2>1, <2>2 DEF IInv, AuditIsEarned
<1>11. CountInv'
  <2> SUFFICES ASSUME NEW m \in Chunks
               PROVE  /\ IsFiniteSet(MayHold(m)')
                      /\ Len(quarantine'[m]) + Cardinality(MayHold(m)') <= attempts'[m]
                      /\ IsFiniteSet(MayReceive(m)')
                      /\ Received(m)' + Cardinality(MayReceive(m)') <= attempts'[m]
    BY DEF CountInv
  <2>1. /\ attempts'[m] = attempts[m] /\ attempts[m] \in Nat /\ quarantine'[m] = quarantine[m]
        /\ Len(quarantine[m]) \in Nat /\ Received(m) \in {0, 1} /\ Received(m)' \in {0, 1}
    BY <1>1 DEF IInv, TypeOK, SubTypeOK, Chunks, subVars, Received
  <2>2. /\ IsFiniteSet(MayHold(m)) /\ Len(quarantine[m]) + Cardinality(MayHold(m)) <= attempts[m]
        /\ IsFiniteSet(MayReceive(m)) /\ Received(m) + Cardinality(MayReceive(m)) <= attempts[m]
    BY DEF IInv, CountInv
  <2>3. MayHold(m)' \subseteq MayHold(m)
    BY <1>1, <1>5 DEF MayHold, Unmoved, subVars
  <2>4. IsFiniteSet(MayHold(m)') /\ Len(quarantine[m]) + Cardinality(MayHold(m)') <= attempts[m]
    BY <2>1, <2>2, <2>3, TallyLess
  <2>5. IsFiniteSet(MayReceive(m)') /\ Received(m)' + Cardinality(MayReceive(m)') <= attempts[m]
    <3>1. CASE m = c
      <4>1. MayReceive(m)' \subseteq MayReceive(m) \ {w} /\ w \in MayReceive(m)
        BY <1>1, <1>2, <1>5, <3>1 DEF MayReceive, Unmoved, subVars, IInv, WorkerInv, LoopInv
      <4>2. Received(m)' <= Received(m) + 1
        BY <2>1
      <4> QED BY <2>1, <2>2, <4>1, <4>2, Tally
    <3>2. CASE m # c
      <4>1. MayReceive(m)' \subseteq MayReceive(m)
        BY <1>1, <1>2, <1>5, <3>2 DEF MayReceive, Unmoved, subVars
      <4>2. Received(m)' = Received(m)
        BY <1>1, <1>2, <3>2 DEF Received
      <4> QED BY <2>1, <2>2, <4>1, <4>2, TallyLess
    <3> QED BY <3>1, <3>2
  <2> QED BY <2>1, <2>4, <2>5
<1> QED BY <1>4, <1>6, <1>7, <1>8, <1>9, <1>10, <1>11, InsideStep

\* ReturnWritten and ReturnQuarantined: what is audited and acknowledged has happened.
LEMMA ReturnStep ==
    ASSUME IInv, NEW w \in Workers, ReturnWritten(w) \/ ReturnQuarantined(w)
    PROVE  IInv'
<1> USE SubscriptionAssumption, StreamingConsumerAssumption, HandFacts
<1> DEFINE s == IF pc[w] = "written" THEN "WRITTEN" ELSE "QUARANTINED"
<1>1. /\ pc[w] \in {"written", "held"} /\ audit' \in {audit, audit \cup {<<cur[w], s>>}}
      /\ ReturnAck(w) /\ Finish(w)
      /\ UNCHANGED <<configVars, onboarded, landed, merged, quarantine>>
  BY DEF ReturnWritten, ReturnQuarantined, Emit
<1>2. PICK c \in Chunks : c = cur[w]
  BY <1>1
<1>3. s \in {"WRITTEN", "QUARANTINED"} /\ (s = "WRITTEN" => Written(c)) /\ (s = "QUARANTINED" => Held(c))
  <2>1. CASE pc[w] = "written"
    <3>1. ctx[w].version \in Versions /\ WrittenUpTo(c, ctx[w].version, Batches)
      BY <1>2, <2>1 DEF IInv, WorkerInv, LocalsInv, ChunkInv
    <3>2. Written(c)
      BY <3>1 DEF WrittenUpTo, BatchIsIn, Written
    <3> QED BY <2>1, <3>2
  <2>2. CASE pc[w] = "held"
    BY <1>2, <2>2 DEF IInv, WorkerInv, ChunkInv
  <2> QED BY <1>1, <2>1, <2>2
<1> HIDE DEF s
<1>4. Ended(w)
  BY <1>1, <1>2, <1>3, AckEnds DEF Concluded
<1>5. TypeOK'
  <2>1. audit' \subseteq Chunks \X AuditStage
    BY <1>1, <1>2, <1>3 DEF IInv, TypeOK, AuditStage
  <2> QED BY <1>1, <1>4, <2>1, EndedFrame DEF IInv, TypeOK, configVars
<1>6. Inside(w)
  BY <1>1, <1>4, EndedFrame DEF Inside, Ended, configVars
<1>7. Grows
  BY <1>1, <1>6 DEF Grows, Inside, Delivered, Held, IInv, TypeOK, SubTypeOK, Chunks
<1>8. WorkerInv(w)'
  BY <1>4, <1>5, <1>7, EndedInv
<1>9. HoldsInv' /\ RefusedIsNotWritten'
  BY <1>1, HoldsStay DEF IInv, RefusedIsNotWritten, configVars
<1>10. AuditIsEarned'
  <2> SUFFICES ASSUME NEW m \in Chunks
               PROVE  /\ <<m, "QUARANTINED">> \in audit' => Held(m)'
                      /\ <<m, "WRITTEN">> \in audit' => Written(m)'
                      /\ <<m, "RETRIED">> \in audit' => attempts'[m] > 1
    BY DEF AuditIsEarned
  <2>1. /\ <<m, "QUARANTINED">> \in audit' => <<m, "QUARANTINED">> \in audit \/ Held(m)
        /\ <<m, "WRITTEN">> \in audit' => <<m, "WRITTEN">> \in audit \/ Written(m)
        /\ <<m, "RETRIED">> \in audit' => <<m, "RETRIED">> \in audit
    BY <1>1, <1>2, <1>3
  <2>2. (Held(m) => Held(m)') /\ (Written(m) => Written(m)') /\ attempts'[m] = attempts[m]
    BY <1>4, <1>7, GrowsKeeps DEF Grows, Ended
  <2> QED BY <2>1, <2>2 DEF IInv, AuditIsEarned
<1>11. CountInv'
  <2> SUFFICES ASSUME NEW m \in Chunks
               PROVE  /\ Len(quarantine'[m]) = Len(quarantine[m])
                      /\ Received(m)' = Received(m)
                      /\ MayHold(m)' \subseteq MayHold(m)
                      /\ MayReceive(m)' \subseteq MayReceive(m)
    BY <1>5, <1>7, CountKept
  <2>1. Received(m)' = Received(m)
    BY <1>1, <1>3 DEF Received
  <2>2. MayHold(m)' \subseteq MayHold(m) /\ MayReceive(m)' \subseteq MayReceive(m)
    BY <1>4, EndedFrame DEF MayHold, MayReceive, Unmoved, Chunks
  <2> QED BY <1>1, <2>1, <2>2
<1> QED BY <1>5, <1>6, <1>7, <1>8, <1>9, <1>10, <1>11, InsideStep

\* The hold of the chunk in hand is inserted, and its caller hears of it or not.
LEMMA HoldCommitStep ==
    ASSUME IInv, NEW w \in Workers, pc[w] = "hold", HoldCommits(w),
           UNCHANGED <<configVars, onboarded, landed, merged, audit>>,
           \/ UNCHANGED <<subVars, ctx>> /\ pc' = [pc EXCEPT ![w] = "held"]
           \/ Ended(w)
    PROVE  IInv'
<1> USE SubscriptionAssumption, StreamingConsumerAssumption, HandFacts
<1>1. PICK c \in Chunks : c = cur[w]
  OBVIOUS
<1>2. PICK h \in Hold : h = ctx[w].hold /\ HoldIsJust(c, h)
  BY <1>1 DEF IInv, WorkerInv, ChunkInv
<1>3. quarantine' = [quarantine EXCEPT ![c] = Append(@, h)]
  BY <1>1, <1>2 DEF HoldCommits
<1>4. /\ quarantine[c] \in Seq(Hold) /\ Append(quarantine[c], h) \in Seq(Hold)
      /\ Append(quarantine[c], h) # <<>>
      /\ Len(Append(quarantine[c], h)) = Len(quarantine[c]) + 1
      /\ \A i \in 1..Len(quarantine[c]) : Append(quarantine[c], h)[i] = quarantine[c][i]
      /\ Append(quarantine[c], h)[Len(quarantine[c]) + 1] = h
  <2>1. quarantine[c] \in Seq(Hold)
    BY DEF IInv, TypeOK
  <2> QED BY <1>2, <2>1, AppendProperties
<1>5. /\ quarantine' \in [Chunks -> Seq(Hold)]
      /\ quarantine'[c] = Append(quarantine[c], h)
      /\ \A m \in Chunks : m # c => quarantine'[m] = quarantine[m]
  BY <1>3, <1>4 DEF IInv, TypeOK
<1>6. Len(quarantine'[c]) = Len(quarantine[c]) + 1
  BY <1>4, <1>5
<1>7. TypeOK'
  <2>1. CASE Ended(w)
    BY <1>5, <2>1, EndedFrame DEF IInv, TypeOK, configVars
  <2>2. CASE UNCHANGED <<subVars, ctx>> /\ pc' = [pc EXCEPT ![w] = "held"]
    BY <1>5, <2>2 DEF IInv, TypeOK, SubTypeOK, subVars, configVars, Steps
  <2> QED BY <2>1, <2>2
<1>8. Inside(w)
  <2>1. CASE Ended(w)
    BY <2>1, EndedFrame DEF Inside, Ended, configVars
  <2>2. CASE UNCHANGED <<subVars, ctx>> /\ pc' = [pc EXCEPT ![w] = "held"]
    BY <2>2 DEF IInv, TypeOK, Inside, Unmoved, subVars, configVars
  <2> QED BY <2>1, <2>2
<1>9. \A m \in Chunks : Held(m) => Held(m)'
  BY <1>4, <1>5 DEF Held
<1>10. Held(c)'
  BY <1>4, <1>5 DEF Held
<1>11. Grows
  BY <1>8, <1>9, GrowsInside
<1>12. WorkerInv(w)'
  <2>1. CASE Ended(w)
    BY <1>7, <1>11, <2>1, EndedInv
  <2>2. CASE UNCHANGED <<subVars, ctx>> /\ pc' = [pc EXCEPT ![w] = "held"]
    <3>1. pc'[w] = "held" /\ cur'[w] = c /\ UNCHANGED <<ctx, cur, batch, acks, msg, attempts>>
      BY <1>1, <2>2 DEF IInv, TypeOK, subVars
    <3>2. LocalsInv(w)' /\ ChunkInv(w)'
      BY <1>10, <3>1 DEF IInv, WorkerInv, LocalsInv, ChunkInv, Held
    <3>3. \A n \in acks[w] : n \in Chunks /\ Concluded(n)'
      BY <1>11, GrowsKeeps DEF IInv, TypeOK, SubTypeOK, WorkerInv, LoopInv, Chunks
    <3>4. LoopInv(w)'
      BY <3>1, <3>3 DEF IInv, WorkerInv, LoopInv, Delivered
    <3> QED BY <3>2, <3>4 DEF WorkerInv
  <2> QED BY <2>1, <2>2
<1>13. HoldsInv'
  <2> SUFFICES ASSUME NEW m \in Chunks, NEW i \in 1..Len(quarantine'[m])
               PROVE  HoldIsJust(m, quarantine[m][i])'
    BY DEF HoldsInv
  <2>0. kind' = kind
    BY DEF configVars
  <2>1. CASE m # c
    <3>1. quarantine'[m] = quarantine[m]
      BY <1>5, <2>1
    <3>2. HoldIsJust(m, quarantine[m][i])
      BY <3>1 DEF IInv, HoldsInv
    <3> QED BY <2>0, <3>1, <3>2 DEF HoldIsJust
  <2>2. CASE m = c /\ i \in 1..Len(quarantine[c])
    <3>1. quarantine'[m][i] = quarantine[m][i]
      BY <1>4, <1>5, <2>2
    <3>2. HoldIsJust(m, quarantine[m][i])
      BY <2>2 DEF IInv, HoldsInv
    <3> QED BY <2>0, <3>1, <3>2 DEF HoldIsJust
  <2>3. CASE m = c /\ i = Len(quarantine[c]) + 1
    <3>1. quarantine'[m][i] = h
      BY <1>4, <1>5, <2>3
    <3> QED BY <1>2, <2>0, <2>3, <3>1 DEF HoldIsJust
  <2> QED BY <1>4, <1>6, <2>1, <2>2, <2>3
<1>14. RefusedIsNotWritten'
  BY DEF IInv, RefusedIsNotWritten
<1>15. AuditIsEarned'
  <2> SUFFICES ASSUME NEW m \in Chunks
               PROVE  /\ <<m, "QUARANTINED">> \in audit => Held(m)'
                      /\ <<m, "WRITTEN">> \in audit => Written(m)'
                      /\ <<m, "RETRIED">> \in audit => attempts'[m] > 1
    BY DEF AuditIsEarned
  <2>1. (Held(m) => Held(m)') /\ (Written(m) => Written(m)') /\ attempts'[m] = attempts[m]
    BY <1>8, <1>11, GrowsKeeps DEF Grows, Inside
  <2> QED BY <2>1 DEF IInv, AuditIsEarned
<1>16. CountInv'
  <2> SUFFICES ASSUME NEW m \in Chunks
               PROVE  /\ IsFiniteSet(MayHold(m)')
                      /\ Len(quarantine'[m]) + Cardinality(MayHold(m)') <= attempts'[m]
                      /\ IsFiniteSet(MayReceive(m)')
                      /\ Received(m)' + Cardinality(MayReceive(m)') <= attempts'[m]
    BY DEF CountInv
  <2>1. /\ attempts'[m] = attempts[m] /\ attempts[m] \in Nat
        /\ Len(quarantine[m]) \in Nat /\ Len(quarantine'[m]) \in Nat
        /\ Received(m) \in Nat /\ Received(m)' = Received(m)
    BY <1>5, <1>8 DEF IInv, TypeOK, SubTypeOK, Chunks, Inside, Received
  <2>2. /\ IsFiniteSet(MayHold(m)) /\ Len(quarantine[m]) + Cardinality(MayHold(m)) <= attempts[m]
        /\ IsFiniteSet(MayReceive(m)) /\ Received(m) + Cardinality(MayReceive(m)) <= attempts[m]
    BY DEF IInv, CountInv
  <2>3. \/ cur'[w] = None /\ batch'[w] \subseteq batch[w]
        \/ cur'[w] = cur[w] /\ batch'[w] = batch[w] /\ pc'[w] = "held"
    <3>1. CASE Ended(w)
      BY <3>1, EndedFrame
    <3>2. CASE UNCHANGED <<subVars, ctx>> /\ pc' = [pc EXCEPT ![w] = "held"]
      BY <3>2 DEF IInv, TypeOK, subVars
    <3> QED BY <3>1, <3>2
  <2>4. m # None
    BY DEF Chunks
  <2>5. IsFiniteSet(MayReceive(m)') /\ Received(m) + Cardinality(MayReceive(m)') <= attempts[m]
    <3>1. MayReceive(m)' \subseteq MayReceive(m)
      BY <1>8, <2>3, <2>4 DEF MayReceive, Inside, Unmoved
    <3> QED BY <2>1, <2>2, <3>1, TallyLess
  <2>6. IsFiniteSet(MayHold(m)') /\ Len(quarantine'[m]) + Cardinality(MayHold(m)') <= attempts[m]
    <3>1. CASE m = c
      <4>1. MayHold(m)' \subseteq MayHold(m) \ {w} /\ w \in MayHold(m)
        BY <1>1, <1>8, <2>3, <2>4, <3>1 DEF MayHold, Inside, Unmoved, IInv, WorkerInv, LoopInv
      <4>2. Len(quarantine'[m]) <= Len(quarantine[m]) + 1
        BY <1>6, <2>1, <3>1
      <4> QED BY <2>1, <2>2, <4>1, <4>2, Tally
    <3>2. CASE m # c
      <4>1. MayHold(m)' \subseteq MayHold(m)
        BY <1>1, <1>8, <2>3, <2>4, <3>2 DEF MayHold, Inside, Unmoved
      <4>2. Len(quarantine'[m]) = Len(quarantine[m])
        BY <1>5, <3>2
      <4> QED BY <2>1, <2>2, <4>1, <4>2, TallyLess
    <3> QED BY <3>1, <3>2
  <2> QED BY <2>1, <2>5, <2>6
<1> QED BY <1>7, <1>8, <1>11, <1>12, <1>13, <1>14, <1>15, <1>16, InsideStep

LEMMA UpTo ==
    ASSUME NEW b \in Nat, 1 <= b
    PROVE  \A k \in 1..b : k \in 1..(b - 1) \/ k = b
  OBVIOUS

\* A batch of the chunk in hand commits; the delivery goes on with the next one, ends
\* with a hot position miss, or does not hear of the commit.
LEMMA BatchCommitStep ==
    ASSUME IInv, NEW w \in Workers, pc[w] = "write", BatchCommits(w),
           UNCHANGED <<configVars, quarantine, audit>>,
           \/ /\ UNCHANGED subVars /\ onboarded'
              /\ ctx' = [ctx EXCEPT ![w].batch = IF @ < Batches THEN @ + 1 ELSE @]
              /\ pc' = [pc EXCEPT ![w] = IF ctx[w].batch < Batches THEN "write" ELSE "written"]
           \/ Ended(w)
    PROVE  IInv'
<1> USE SubscriptionAssumption, StreamingConsumerAssumption, HandFacts
<1>1. PICK c \in Chunks, v \in Versions, b \in 1..Batches :
        c = cur[w] /\ v = ctx[w].version /\ b = ctx[w].batch
  BY DEF IInv, WorkerInv, LocalsInv
<1>a. /\ Batches \in Nat /\ b \in Nat /\ 1 <= b /\ b <= Batches
      /\ \A k \in 1..b : k \in 1..(b - 1) \/ k = b
  <2>1. Batches \in Nat /\ b \in Nat /\ 1 <= b /\ b <= Batches
    BY <1>1
  <2> QED BY <2>1, UpTo
<1>2. /\ b \notin Refusal[c][v].table /\ (onboarded => b \notin Refusal[c][v].hot)
      /\ onboarded' = (onboarded \/ TargetOf[v] = "catalogue")
      /\ landed' = IF TargetOf[v] = "catalogue" THEN landed
                   ELSE [landed EXCEPT ![c] = @ \cup {<<v, b>>}]
      /\ merged' = IF TargetOf[v] = "catalogue" \/ onboarded
                   THEN [merged EXCEPT ![c] = @ \cup {<<v, b>>}] ELSE merged
  BY <1>1 DEF BatchCommits, BatchRefused
<1>3. /\ Verdict[c][v].gate = "pass" /\ WrittenUpTo(c, v, b - 1)
  BY <1>1 DEF IInv, WorkerInv, ChunkInv
<1>4. /\ landed' \in [Chunks -> SUBSET Parts] /\ merged' \in [Chunks -> SUBSET Parts]
      /\ onboarded' \in BOOLEAN
  <2>1. <<v, b>> \in Parts
    BY DEF Parts
  <2>2. landed' \in [Chunks -> SUBSET Parts]
    BY <1>2, <2>1 DEF IInv, TypeOK
  <2>3. merged' \in [Chunks -> SUBSET Parts]
    BY <1>2, <2>1 DEF IInv, TypeOK
  <2> QED BY <1>2, <2>2, <2>3
<1>5. \A m \in Chunks :
        /\ landed[m] \subseteq landed'[m] /\ merged[m] \subseteq merged'[m]
        /\ \A p \in landed'[m] : p \in landed[m] \/ (m = c /\ p = <<v, b>>)
        /\ \A p \in merged'[m] : \/ p \in merged[m]
                                 \/ m = c /\ p = <<v, b>> /\ (TargetOf[v] # "catalogue" => onboarded)
  BY <1>2 DEF IInv, TypeOK
<1> DEFINE x == [ctx[w] EXCEPT !.batch = IF b < Batches THEN b + 1 ELSE b]
           q == IF b < Batches THEN "write" ELSE "written"
           Goes == /\ UNCHANGED subVars /\ onboarded'
                   /\ ctx' = [ctx EXCEPT ![w] = x] /\ pc' = [pc EXCEPT ![w] = q]
<1>6. Goes \/ Ended(w)
  BY <1>1
<1>7. /\ x \in FlowContext /\ x.version = v /\ x.seen_before = ctx[w].seen_before
      /\ b < Batches => q = "write" /\ x.batch = b + 1
      /\ ~(b < Batches) => q = "written" /\ b = Batches
      /\ q \in {"write", "written"}
  <2>1. (IF b < Batches THEN b + 1 ELSE b) \in 1..Batches
    BY <1>a
  <2>2. /\ x \in FlowContext /\ x.version = v /\ x.seen_before = ctx[w].seen_before
        /\ x.batch = IF b < Batches THEN b + 1 ELSE b
    BY <1>1, <2>1 DEF FlowContext
  <2> HIDE DEF x
  <2> QED BY <1>a, <2>2
<1> HIDE DEF x, q
<1>8. TypeOK'
  <2>1. CASE Ended(w)
    BY <1>4, <2>1, EndedFrame DEF IInv, TypeOK, configVars
  <2>2. CASE Goes
    BY <1>4, <1>7, <2>2 DEF IInv, TypeOK, SubTypeOK, subVars, configVars, Steps
  <2> QED BY <1>6, <2>1, <2>2
<1>9. Inside(w)
  <2>1. CASE Ended(w)
    BY <2>1, EndedFrame DEF Inside, Ended, configVars
  <2>2. CASE Goes
    BY <2>2 DEF IInv, TypeOK, Inside, Unmoved, subVars, configVars
  <2> QED BY <1>6, <2>1, <2>2
<1>10. Grows
  <2>1. \A m \in Chunks : Held(m) => Held(m)'
    BY DEF Held
  <2> QED BY <1>5, <1>9, <2>1, GrowsInside
<1>11. WorkerInv(w)'
  <2>1. CASE Ended(w)
    BY <1>8, <1>10, <2>1, EndedInv
  <2>2. CASE Goes
    <3>1. /\ pc'[w] = q /\ cur'[w] = c /\ ctx'[w] = x
          /\ UNCHANGED <<cur, batch, acks, msg, attempts>> /\ onboarded'
      BY <1>1, <2>2 DEF IInv, TypeOK, subVars
    <3>2. LocalsInv(w)'
      BY <1>1, <1>7, <3>1 DEF IInv, WorkerInv, LocalsInv
    <3>3. WrittenUpTo(c, v, b)'
      <4>1. WrittenUpTo(c, v, b - 1)'
        BY <1>3, <1>10, GrowsKeeps
      <4>2. BatchIsLegal(c, v, b)'
        BY <1>2, <3>1 DEF BatchIsLegal
      <4>3. BatchIsIn(c, v, b)'
        BY <1>2, <3>1 DEF BatchIsIn, IInv, TypeOK
      <4> QED BY <1>a, <4>1, <4>2, <4>3 DEF WrittenUpTo
    <3>4. ChunkInv(w)'
      <4>1. CASE b < Batches
        <5>1. pc'[w] = "write" /\ ctx'[w].batch - 1 = b /\ ctx'[w].version = v
          BY <1>a, <1>7, <3>1, <4>1
        <5>2. WrittenUpTo(cur[w], ctx[w].version, ctx[w].batch - 1)'
          BY <3>1, <3>3, <5>1 DEF WrittenUpTo, BatchIsLegal, BatchIsIn
        <5> QED BY <1>3, <3>1, <5>1, <5>2 DEF ChunkInv
      <4>2. CASE ~(b < Batches)
        <5>1. pc'[w] = "written" /\ Batches = b /\ ctx'[w].version = v
          BY <1>7, <3>1, <4>2
        <5>2. WrittenUpTo(cur[w], ctx[w].version, Batches)'
          BY <3>1, <3>3, <5>1 DEF WrittenUpTo, BatchIsLegal, BatchIsIn
        <5> QED BY <1>3, <3>1, <5>1, <5>2 DEF ChunkInv
      <4> QED BY <4>1, <4>2
    <3>5. \A n \in acks[w] : n \in Chunks /\ Concluded(n)'
      BY <1>10, GrowsKeeps DEF IInv, TypeOK, SubTypeOK, WorkerInv, LoopInv, Chunks
    <3>6. LoopInv(w)'
      BY <1>7, <3>1, <3>5 DEF IInv, WorkerInv, LoopInv, Delivered
    <3> QED BY <3>2, <3>4, <3>6 DEF WorkerInv
  <2> QED BY <1>6, <2>1, <2>2
<1>12. HoldsInv'
  BY HoldsStay DEF IInv, configVars
<1>13. RefusedIsNotWritten'
  <2> SUFFICES ASSUME NEW m \in Chunks, NEW p \in landed'[m] \cup merged'[m]
               PROVE  /\ Verdict[m][p[1]].gate = "pass"
                      /\ \A k \in 1..p[2] : k \notin Refusal[m][p[1]].table
                      /\ p \in merged'[m] /\ TargetOf[p[1]] # "catalogue" =>
                           \A k \in 1..p[2] : k \notin Refusal[m][p[1]].hot
    BY DEF RefusedIsNotWritten
  <2>1. CASE p \in landed[m] \cup merged[m] /\ (p \in merged'[m] => p \in merged[m])
    BY <2>1 DEF IInv, RefusedIsNotWritten
  <2>2. CASE m = c /\ p = <<v, b>>
    <3>2. \A k \in 1..b : k \notin Refusal[c][v].table
      BY <1>a, <1>2, <1>3 DEF WrittenUpTo, BatchIsLegal
    <3>3. p \in merged'[m] /\ TargetOf[v] # "catalogue" => \A k \in 1..b : k \notin Refusal[c][v].hot
      <4>1. CASE p \in merged[m]
        BY <2>2, <4>1 DEF IInv, RefusedIsNotWritten
      <4>2. CASE p \notin merged[m]
        BY <1>a, <1>2, <1>3, <1>5, <2>2, <4>2 DEF WrittenUpTo, BatchIsLegal
      <4> QED BY <4>1, <4>2
    <3> QED BY <1>3, <2>2, <3>2, <3>3
  <2> QED BY <1>5, <2>1, <2>2
<1>14. AuditIsEarned'
  <2> SUFFICES ASSUME NEW m \in Chunks
               PROVE  /\ <<m, "QUARANTINED">> \in audit => Held(m)'
                      /\ <<m, "WRITTEN">> \in audit => Written(m)'
                      /\ <<m, "RETRIED">> \in audit => attempts'[m] > 1
    BY DEF AuditIsEarned
  <2>1. (Held(m) => Held(m)') /\ (Written(m) => Written(m)') /\ attempts'[m] = attempts[m]
    BY <1>9, <1>10, GrowsKeeps DEF Grows, Inside
  <2> QED BY <2>1 DEF IInv, AuditIsEarned
<1>15. CountInv'
  <2> SUFFICES ASSUME NEW m \in Chunks
               PROVE  /\ Len(quarantine'[m]) = Len(quarantine[m])
                      /\ Received(m)' = Received(m)
                      /\ MayHold(m)' \subseteq MayHold(m)
                      /\ MayReceive(m)' \subseteq MayReceive(m)
    BY <1>8, <1>10, CountKept
  <2>1. \/ cur'[w] = None /\ batch'[w] \subseteq batch[w]
        \/ cur'[w] = cur[w] /\ batch'[w] = batch[w] /\ pc'[w] \in {"write", "written"}
    <3>1. CASE Ended(w)
      BY <3>1, EndedFrame
    <3>2. CASE Goes
      BY <1>7, <3>2 DEF IInv, TypeOK, subVars
    <3> QED BY <1>6, <3>1, <3>2
  <2>2. m # None
    BY DEF Chunks
  <2>3. MayHold(m)' \subseteq MayHold(m)
    BY <1>9, <2>1, <2>2 DEF MayHold, Inside, Unmoved
  <2>4. MayReceive(m)' \subseteq MayReceive(m)
    BY <1>9, <2>1, <2>2 DEF MayReceive, Inside, Unmoved
  <2>5. Received(m)' = Received(m) /\ Len(quarantine'[m]) = Len(quarantine[m])
    BY DEF Received
  <2> QED BY <2>3, <2>4, <2>5
<1> QED BY <1>8, <1>9, <1>10, <1>11, <1>12, <1>13, <1>14, <1>15, InsideStep

LEMMA CommitStep ==
    ASSUME IInv, NEW w \in Workers,
           WriteBatch(w) \/ HotPositionMissing(w) \/ WriteHold(w) \/ CommitRaises(w)
    PROVE  IInv'
<1>1. CASE WriteBatch(w)
  BY <1>1, BatchCommitStep DEF WriteBatch, ReturnTo
<1>2. CASE HotPositionMissing(w)
  <2>1. pc[w] # "ready" /\ ReturnNack(w) /\ Finish(w)
    BY <1>2 DEF HotPositionMissing, Raise, Quarantinable
  <2> QED BY <1>2, <2>1, NackEnds, BatchCommitStep DEF HotPositionMissing
<1>3. CASE WriteHold(w)
  BY <1>3, HoldCommitStep DEF WriteHold, ReturnTo
<1>4. CASE CommitRaises(w)
  <2>1. Ended(w)
    BY <1>4, NackEnds DEF CommitRaises
  <2> QED BY <1>4, <2>1, BatchCommitStep, HoldCommitStep DEF CommitRaises
<1> QED BY <1>1, <1>2, <1>3, <1>4

-----------------------------------------------------------------------------

LEMMA NextInv == IInv /\ [Next]_vars => IInv'
<1> SUFFICES ASSUME IInv, [Next]_vars PROVE IInv'
  OBVIOUS
<1>1. CASE Next
  <2>1. CASE \/ \E m \in Chunks : PublishIngressReady(m) \/ Expire(m)
             \/ StoreMirrored
             \/ \E v \in Versions : ActivateVersion(v)
    BY <2>1, OutsideStep
  <2>2. ASSUME NEW w \in Workers, WorkerStep(w) \/ WorkerFailure(w)
        PROVE  IInv'
    <3>1. CASE PullBatch(w) \/ SettleBatch(w)
      BY <3>1, LoopStep
    <3>2. CASE BeginMessage(w)
      BY <3>2, BeginStep
    <3>3. CASE Process(w)
      BY <3>3, EndStep, PassStep, HoldStep, FetchStep, ReturnStep, CommitStep DEF Process
    <3>4. CASE WorkerFailure(w)
      BY <3>4, EndStep, CommitStep DEF WorkerFailure
    <3> QED BY <2>2, <3>1, <3>2, <3>3, <3>4 DEF WorkerStep
  <2> QED BY <1>1, <2>1, <2>2 DEF Next
<1>2. CASE UNCHANGED vars
  <2>1. UNCHANGED <<subVars, storeVars, pipelineVars>>
    BY <1>2 DEF vars
  <2> USE <2>1 DEF IInv, subVars, storeVars, configVars, pipelineVars
  <2>2. TypeOK' /\ AttemptsInv'
    BY DEF TypeOK, SubTypeOK, AttemptsInv
  <2>3. \A w \in Workers : WorkerInv(w)'
    BY DEF WorkerInv, LocalsInv, ChunkInv, LoopInv, WrittenUpTo, BatchIsLegal, BatchIsIn, HoldIsJust,
           Held, Concluded, Written, Delivered
  <2>4. CountInv'
    BY DEF CountInv, MayHold, MayReceive, Received
  <2>5. HoldsInv' /\ RefusedIsNotWritten' /\ NothingAckedAndLost' /\ AuditIsEarned'
    BY DEF HoldsInv, HoldIsJust, RefusedIsNotWritten, NothingAckedAndLost, AuditIsEarned, Held, Written
  <2> QED BY <2>2, <2>3, <2>4, <2>5
<1> QED BY <1>1, <1>2

LEMMA Invariance == Spec => []IInv
  BY InitInv, NextInv, PTL DEF Spec

\* The consumer's state stays well typed: no batch past the last is written, no instance
\* is ever without its context.
THEOREM ConsumerTypes == Spec => []TypeOK
<1>1. IInv => TypeOK
  BY DEF IInv
<1> QED BY <1>1, Invariance, PTL

\* Never ack-and-lose: process returns an acknowledgement only for a chunk that is
\* malformed, held, or completely written under one version, and it stays so while the
\* acknowledgement travels to the broker.
THEOREM ConsumerLosesNothing == Spec => []NothingAckedAndLost
<1>1. IInv => NothingAckedAndLost
  BY DEF IInv
<1> QED BY <1>1, Invariance, PTL

\* Validation precedes the write, whatever version is activated or SKU onboarded between
\* the gates and the batches, or between two deliveries.
THEOREM RefusedStaysOut == Spec => []RefusedIsNotWritten
<1>1. IInv => RefusedIsNotWritten
  BY DEF IInv
<1> QED BY <1>1, Invariance, PTL

\* A quarantine row is deterministic and belongs to a delivery of its own.
THEOREM HoldsAreJust == Spec => []HoldsAreDeterministic
<1>1. IInv => HoldsAreDeterministic
  <2> SUFFICES ASSUME IInv, NEW m \in Chunks
               PROVE  Len(quarantine[m]) <= attempts[m]
    BY DEF IInv, HoldsInv, HoldIsJust, HoldsAreDeterministic
  <2>1. Cardinality(MayHold(m)) \in Nat /\ Len(quarantine[m]) + Cardinality(MayHold(m)) <= attempts[m]
    BY FS_CardinalityType DEF IInv, CountInv
  <2>2. Len(quarantine[m]) \in Nat /\ attempts[m] \in Nat
    BY SubscriptionAssumption DEF IInv, TypeOK, SubTypeOK, Chunks
  <2> QED BY <2>1, <2>2
<1> QED BY <1>1, Invariance, PTL

\* The audit rows of the consumer are earned: what process emits after a hold, a write or
\* a second delivery is true when it is emitted and stays true.
THEOREM AuditRowsAreEarned == Spec => []AuditIsEarned
<1>1. IInv => AuditIsEarned
  BY DEF IInv
<1> QED BY <1>1, Invariance, PTL
=============================================================================
