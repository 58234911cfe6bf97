-------------------------- MODULE CsvIngest_proofs --------------------------
(***************************************************************************)
(* Proofs about CsvIngest, for every set of workers, files, traces and     *)
(* bronze ids, every batch size, delivery limit and dedup window.          *)
(***************************************************************************)
EXTENDS CsvIngest, TLAPS

(***************************************************************************)
(* The inductive invariant.  The properties are not inductive by           *)
(* themselves: an acknowledgement travels from process_message through the *)
(* worker's ack list to the broker, and the publish and the mark work on a *)
(* target chosen some steps earlier, so what each of those places holds    *)
(* must be part of the invariant.                                          *)
(***************************************************************************)

\* A message is in hand exactly while process runs.
InHand == \A w \in Workers : pc[w] = "ready" <=> cur[w] = None

\* A message that is somewhere in a worker was delivered, and every delivered
\* message that is not malformed has its object.
Arrived(t) == msg[t] # "absent" /\ (t \in Malformed \/ objects[t] \in Files)

ArrivedInv ==
    /\ \A t \in Traces : msg[t] # "absent" => Arrived(t)
    /\ \A w \in Workers : \A t \in batch[w] \cup acks[w] : Arrived(t)
    /\ \A w \in Workers : cur[w] # None => Arrived(cur[w])

\* A message that may still be delivered is below the delivery limit.
AttemptsInv ==
    \A t \in Traces : msg[t] \in {"absent", "queued"} => attempts[t] < MaxDeliveryAttempts

WellFormedInv ==
    \A w \in Workers :
        pc[w] \in {"insert", "publish", "mark", "seen", "error"}
        => cur[w] \notin Malformed

\* A row that exists has its columns.
RowInv == \A b \in BronzeIds : IsRow(b) => bronze[b] \in BronzeRow

\* The row a worker is about to publish or to mark is one of its message's file.
TargetInv ==
    \A w \in Workers : pc[w] \in {"publish", "mark"} =>
        /\ target[w] \in BronzeIds
        /\ status[target[w]] \in {"RECEIVED", "PUBLISHED"}
        /\ bronze[target[w]].file = objects[cur[w]]

\* It is marked only after its envelope is out.
SentInv ==
    \A w \in Workers :
        pc[w] = "mark" => \E e \in ready : e.bronze_ref = target[w]

\* What is on its way to an acknowledgement is concluded.
ConcludedInv ==
    \A w \in Workers :
        /\ pc[w] \in {"seen", "error"} => Concluded(cur[w])
        /\ \A t \in acks[w] : Concluded(t)

IInv ==
    /\ TypeOK
    /\ AttemptsInv
    /\ InHand
    /\ ArrivedInv
    /\ WellFormedInv
    /\ RowInv
    /\ TargetInv
    /\ SentInv
    /\ ConcludedInv
    /\ WriteThenPublish
    /\ PublishedWasSent
    /\ AckedIsConcluded

\* The part that is about the tables and the published envelopes only.
TableInv == RowInv /\ WriteThenPublish /\ PublishedWasSent

tables == <<objects, bronze, status, ready>>

\* What the invariant says of the tables reads nothing but the tables.
LEMMA TablesFrame ==
    ASSUME UNCHANGED tables
    PROVE  /\ TableInv => TableInv'
           /\ \A t : Concluded(t) <=> Concluded(t)'
           /\ \A t : objects[t] = objects'[t]
  BY DEF tables, TableInv, RowInv, WriteThenPublish, PublishedWasSent, Concluded,
         IsRow, IsConcluded, is_published

-----------------------------------------------------------------------------

\* Nothing has been uploaded, delivered or written: the invariant holds vacuously.
LEMMA InitInv == Init => IInv
<1> SUFFICES ASSUME Init PROVE IInv
  OBVIOUS
<1> USE SubscriptionAssumption, CsvIngestAssumption DEF Init, SubInit, Traces
<1>1. TypeOK /\ AttemptsInv
  BY DEF TypeOK, SubTypeOK, MsgStatus, Steps, RowStatus, AttemptsInv
<1>2. InHand /\ ArrivedInv /\ WellFormedInv /\ TargetInv /\ SentInv
  BY DEF InHand, ArrivedInv, WellFormedInv, TargetInv, SentInv
<1>3. RowInv /\ ConcludedInv
  BY DEF RowInv, ConcludedInv, IsRow
<1>4. WriteThenPublish /\ PublishedWasSent /\ AckedIsConcluded
  BY DEF WriteThenPublish, PublishedWasSent, AckedIsConcluded, IsRow
<1> QED BY <1>1, <1>2, <1>3, <1>4 DEF IInv

-----------------------------------------------------------------------------
(* Steps that leave objects, bronze, status and ready alone. *)

\* A message is enqueued or its lease runs out: only the broker's view changes.
LEMMA QueueStep ==
    ASSUME IInv, NEW t \in Traces,
           PublishCsvReceived(t) \/ PublishMalformed(t) \/ Expire(t)
    PROVE  IInv'
<1> USE SubscriptionAssumption, CsvIngestAssumption DEF Traces
<1>0. UNCHANGED tables
  BY DEF PublishCsvReceived, PublishMalformed, Expire, tables
<1>1. TypeOK' /\ AttemptsInv'
  BY DEF IInv, TypeOK, SubTypeOK, MsgStatus, AttemptsInv, PublishCsvReceived, PublishMalformed,
         Expire, Enqueue, LeaseExpires, AfterDelivery, loopVars, pipelineVars
<1>2. /\ UNCHANGED <<batch, cur, acks, nacks, pc, target, tables>>
      /\ msg' \in [Messages -> MsgStatus]
      /\ \A u \in Traces : msg'[u] # "absent" => Arrived(u)'
      /\ \A u \in Traces : msg[u] # "absent" => msg'[u] # "absent"
      /\ \A u \in Traces : msg'[u] = "acked" => msg[u] = "acked"
  BY <1>0 DEF IInv, TypeOK, SubTypeOK, MsgStatus, ArrivedInv, Arrived,
     PublishCsvReceived, PublishMalformed, Expire, Enqueue, LeaseExpires,
     AfterDelivery, loopVars, pipelineVars, tables
<1>3. ArrivedInv'
  BY <1>2 DEF IInv, TypeOK, SubTypeOK, ArrivedInv, Arrived, tables
<1>4. InHand' /\ WellFormedInv' /\ TargetInv' /\ SentInv'
  BY <1>2 DEF IInv, InHand, WellFormedInv, TargetInv, SentInv, tables
<1>5. ConcludedInv' /\ AckedIsConcluded'
  BY <1>2, TablesFrame DEF IInv, ConcludedInv, AckedIsConcluded
<1>6. TableInv'
  BY <1>0, TablesFrame DEF IInv, TableInv
<1> QED BY <1>1, <1>3, <1>4, <1>5, <1>6 DEF IInv, TableInv

\* A batch is pulled, acknowledged, nacked or dropped by a crash (poll_once).
LEMMA LoopStep ==
    ASSUME IInv, NEW w \in Workers, PullBatch(w) \/ SettleBatch(w)
    PROVE  IInv'
<1> USE SubscriptionAssumption, CsvIngestAssumption DEF Traces
<1>0. UNCHANGED <<tables, pc, target, cur>>
  BY DEF PullBatch, SettleBatch, Pull, Acknowledge, ModifyAckDeadline, tables,
         pipelineVars
<1>1. TypeOK' /\ AttemptsInv'
  <2>1. CASE PullBatch(w)
    BY <2>1 DEF IInv, TypeOK, SubTypeOK, MsgStatus, AttemptsInv, PullBatch, Pull,
       pipelineVars
  <2>2. CASE SettleBatch(w)
    BY <2>2 DEF IInv, TypeOK, SubTypeOK, MsgStatus, AttemptsInv, SettleBatch,
       Acknowledge, ModifyAckDeadline, AfterDelivery, pipelineVars
  <2> QED BY <2>1, <2>2
<1>2. /\ \A u \in Traces : msg'[u] # "absent" <=> msg[u] # "absent"
      /\ \A u \in Traces : msg'[u] = "acked" =>
            msg[u] = "acked" \/ u \in acks[w]
      /\ \A v \in Workers : acks'[v] \subseteq acks[v]
      /\ \A v \in Workers : \A u \in batch'[v] :
            u \in batch[v] \/ (u \in Traces /\ msg[u] # "absent")
  BY DEF IInv, TypeOK, SubTypeOK, MsgStatus, PullBatch, SettleBatch, Pull,
         Acknowledge, ModifyAckDeadline, AfterDelivery
<1>3. ArrivedInv'
  BY <1>0, <1>1, <1>2 DEF IInv, TypeOK, SubTypeOK, ArrivedInv, Arrived, tables
<1>4. InHand' /\ WellFormedInv' /\ TargetInv' /\ SentInv'
  BY <1>0 DEF IInv, InHand, WellFormedInv, TargetInv, SentInv, tables
<1>5. ConcludedInv' /\ AckedIsConcluded'
  BY <1>0, <1>2, TablesFrame DEF IInv, ConcludedInv, AckedIsConcluded
<1>6. TableInv'
  BY <1>0, TablesFrame DEF IInv, TableInv
<1> QED BY <1>1, <1>3, <1>4, <1>5, <1>6 DEF IInv, TableInv

\* The worker drops or takes up a message without deciding to acknowledge it.
LEMMA HandStep ==
    ASSUME IInv, NEW w \in Workers, BeginMessage(w) \/ StepRaises(w) \/ Crash(w)
    PROVE  IInv'
<1> USE SubscriptionAssumption, CsvIngestAssumption DEF Traces
<1>0. UNCHANGED <<tables, msg, target>>
  BY DEF BeginMessage, StepRaises, Crash, NextMessage, ReturnNack, PassAborted,
         brokerVars, tables
<1>1. TypeOK' /\ AttemptsInv'
  BY DEF IInv, TypeOK, SubTypeOK, Steps, InHand, AttemptsInv, BeginMessage,
         StepRaises, Crash, NextMessage, ReturnNack, PassAborted, brokerVars
<1>2. /\ pc' \in [Workers -> Steps] /\ pc'[w] \in {"ready", "read"}
      /\ \A v \in Workers : v # w => pc'[v] = pc[v] /\ cur'[v] = cur[v]
      /\ pc'[w] = "ready" <=> cur'[w] = None
      /\ cur'[w] # None => cur'[w] \in batch[w]
      /\ \A v \in Workers : acks'[v] \subseteq acks[v] /\ batch'[v] \subseteq batch[v]
  BY DEF IInv, TypeOK, SubTypeOK, Steps, BeginMessage, StepRaises, Crash,
         NextMessage, ReturnNack, PassAborted, brokerVars
<1>3. ArrivedInv'
  BY <1>0, <1>1, <1>2 DEF IInv, TypeOK, SubTypeOK, ArrivedInv, Arrived, tables
<1>4. InHand' /\ WellFormedInv' /\ TargetInv' /\ SentInv'
  BY <1>0, <1>2 DEF IInv, InHand, WellFormedInv, TargetInv, SentInv, tables
<1>5. ConcludedInv' /\ AckedIsConcluded'
  BY <1>0, <1>2, TablesFrame DEF IInv, ConcludedInv, AckedIsConcluded
<1>6. TableInv'
  BY <1>0, TablesFrame DEF IInv, TableInv
<1> QED BY <1>1, <1>3, <1>4, <1>5, <1>6 DEF IInv, TableInv

\* process decides what to do with the message, without a write.
LEMMA DecideStep ==
    ASSUME IInv, NEW w \in Workers,
           DuplicateNoop(w) \/ DuplicateResume(w) \/ FreshFile(w)
    PROVE  IInv'
<1> USE SubscriptionAssumption, CsvIngestAssumption DEF Traces
<1>0. UNCHANGED <<tables, subVars>>
  BY DEF DuplicateNoop, DuplicateResume, FreshFile, tables
<1>1. TypeOK' /\ AttemptsInv'
  BY DEF IInv, TypeOK, SubTypeOK, Steps, AttemptsInv, DuplicateNoop, DuplicateResume,
         FreshFile, find_prior, subVars
<1>2. /\ pc[w] = "read" /\ cur[w] \notin Malformed
      /\ pc' \in [Workers -> Steps] /\ pc'[w] \in {"seen", "publish", "insert"}
      /\ \A v \in Workers : v # w => pc'[v] = pc[v] /\ target'[v] = target[v]
  BY DEF IInv, TypeOK, SubTypeOK, Steps, DuplicateNoop, DuplicateResume, FreshFile
<1>3. InHand' /\ ArrivedInv' /\ WellFormedInv' /\ SentInv'
  BY <1>0, <1>2 DEF IInv, InHand, ArrivedInv, Arrived, WellFormedInv, SentInv,
     subVars, tables
<1>4. TargetInv'
  <2>1. CASE DuplicateNoop(w) \/ FreshFile(w)
    BY <2>1, <1>0, <1>2 DEF IInv, TypeOK, DuplicateNoop, FreshFile, TargetInv,
       subVars, tables
  <2>2. CASE DuplicateResume(w)
    <3>1. PICK b \in find_prior(objects[cur[w]]) :
            ~IsConcluded(b) /\ target' = [target EXCEPT ![w] = b]
      BY <2>2 DEF DuplicateResume
    <3>2. b \in BronzeIds /\ status[b] = "RECEIVED" /\ bronze[b].file = objects[cur[w]]
      BY <3>1 DEF IInv, TypeOK, RowStatus, find_prior, InDedupWindow, IsRow,
         IsConcluded, is_published
    <3> QED BY <3>1, <3>2, <1>0, <1>2 DEF IInv, TypeOK, TargetInv, subVars, tables
  <2> QED BY <2>1, <2>2
<1>5. pc'[w] = "seen" => Concluded(cur[w])
  <2>1. CASE DuplicateNoop(w)
    <3>1. PICK b \in find_prior(objects[cur[w]]) : IsConcluded(b)
      BY <2>1 DEF DuplicateNoop
    <3> QED BY <3>1 DEF find_prior, InDedupWindow, Concluded
  <2>2. CASE DuplicateResume(w) \/ FreshFile(w)
    BY <2>2 DEF IInv, TypeOK, DuplicateResume, FreshFile
  <2> QED BY <2>1, <2>2
<1>6. ConcludedInv' /\ AckedIsConcluded'
  BY <1>0, <1>2, <1>5, TablesFrame DEF IInv, ConcludedInv, AckedIsConcluded, subVars
<1>7. TableInv'
  BY <1>0, TablesFrame DEF IInv, TableInv
<1> QED BY <1>1, <1>3, <1>4, <1>6, <1>7 DEF IInv, TableInv

\* process_message returns "ack": the message is concluded before it enters acks.
LEMMA AckStep ==
    ASSUME IInv, NEW w \in Workers,
           RejectEvent(w) \/ PiiRejected(w) \/ EmitHealthSeen(w) \/ EmitHealthError(w)
    PROVE  IInv'
<1> USE SubscriptionAssumption, CsvIngestAssumption DEF Traces
<1>0. UNCHANGED <<tables, msg, batch, target>> /\ ReturnAck(w)
  BY DEF RejectEvent, PiiRejected, EmitHealthSeen, EmitHealthError, ReturnAck,
         brokerVars, tables
<1>1. TypeOK' /\ AttemptsInv'
  <2>1. health' \in [status : {"absent", "healthy", "stale"}, last_error : {"null", "set"}]
    <3>1. CASE RejectEvent(w) \/ PiiRejected(w)
      BY <3>1 DEF IInv, TypeOK, RejectEvent, PiiRejected
    <3>2. health.last_error \in {"null", "set"}
      BY DEF IInv, TypeOK
    <3>3. CASE EmitHealthSeen(w)
      BY <3>2, <3>3 DEF IInv, TypeOK, EmitHealthSeen
    <3>4. CASE EmitHealthError(w)
      BY <3>4 DEF IInv, TypeOK, EmitHealthError
    <3> QED BY <3>1, <3>3, <3>4
  <2> QED
    BY <2>1, <1>0 DEF IInv, TypeOK, SubTypeOK, Steps, InHand, AttemptsInv, RejectEvent,
       PiiRejected, EmitHealthSeen, EmitHealthError, ReturnAck, brokerVars, tables
<1>2. /\ pc[w] # "ready" /\ cur[w] # None
      /\ pc' = [pc EXCEPT ![w] = "ready"]
      /\ cur' = [cur EXCEPT ![w] = None]
      /\ acks' = [acks EXCEPT ![w] = @ \cup {cur[w]}]
  BY DEF IInv, InHand, RejectEvent, PiiRejected, EmitHealthSeen, EmitHealthError,
         ReturnAck
<1>3. Concluded(cur[w])
  BY DEF IInv, ConcludedInv, Concluded, RejectEvent, PiiRejected, EmitHealthSeen,
         EmitHealthError, PreflightFails, PiiGateRaises
<1>4. InHand' /\ ArrivedInv' /\ WellFormedInv' /\ TargetInv' /\ SentInv'
  BY <1>0, <1>2 DEF IInv, TypeOK, SubTypeOK, Steps, InHand, ArrivedInv, Arrived,
     WellFormedInv, TargetInv, SentInv, tables
<1>5. ConcludedInv' /\ AckedIsConcluded'
  BY <1>0, <1>2, <1>3, TablesFrame
  DEF IInv, TypeOK, SubTypeOK, ConcludedInv, AckedIsConcluded
<1>6. TableInv'
  BY <1>0, TablesFrame DEF IInv, TableInv
<1> QED BY <1>1, <1>4, <1>5, <1>6 DEF IInv, TableInv

-----------------------------------------------------------------------------
(* Steps that write an object, a bronze row or an envelope. *)

\* A new object belongs to a trace that no message, row or envelope uses yet.
LEMMA UploadStep ==
    ASSUME IInv, NEW t \in Traces, NEW f \in Files, UploadObject(t, f)
    PROVE  IInv'
<1> USE SubscriptionAssumption, CsvIngestAssumption DEF Traces
<1>0. /\ UNCHANGED <<msg, attempts, batch, cur, acks, nacks, bronze, status, ready,
                     health, now, pc, target>>
      /\ t \notin Malformed /\ objects[t] = None
      /\ objects' = [objects EXCEPT ![t] = f]
  BY DEF UploadObject, subVars, pipelineVars
<1>1. TypeOK' /\ AttemptsInv'
  BY <1>0 DEF IInv, TypeOK, SubTypeOK, AttemptsInv
<1>2. \A u \in Traces : u # t => objects'[u] = objects[u]
  BY <1>0 DEF IInv, TypeOK
<1>3. ~Arrived(t) /\ msg[t] = "absent"
  BY <1>0 DEF IInv, ArrivedInv, Arrived
<1>4. \A u \in Traces : Arrived(u) => u # t /\ Arrived(u)'
  BY <1>0, <1>2, <1>3 DEF Arrived
<1>5. \A u \in Traces : u # t /\ Concluded(u) => Concluded(u)'
  BY <1>0, <1>2 DEF Concluded, IsRow, IsConcluded, is_published
<1>6. InHand' /\ WellFormedInv' /\ SentInv'
  BY <1>0 DEF IInv, InHand, WellFormedInv, SentInv
<1>7. ArrivedInv'
  BY <1>0, <1>4 DEF IInv, TypeOK, SubTypeOK, ArrivedInv
<1>8. \A w \in Workers : pc[w] # "ready" => cur[w] \in Traces /\ cur[w] # t
  BY <1>4 DEF IInv, TypeOK, SubTypeOK, InHand, ArrivedInv
<1>9. TargetInv'
  BY <1>0, <1>2, <1>8 DEF IInv, TargetInv
<1>10. ConcludedInv' /\ AckedIsConcluded'
  <2>1. \A w \in Workers : \A u \in acks[w] : u \in Traces /\ u # t
    BY <1>4 DEF IInv, TypeOK, SubTypeOK, ArrivedInv
  <2> QED BY <1>0, <1>3, <1>5, <1>8, <2>1 DEF IInv, ConcludedInv, AckedIsConcluded
<1>11. RowInv' /\ PublishedWasSent'
  BY <1>0 DEF IInv, RowInv, PublishedWasSent, IsRow, is_published
<1>12. WriteThenPublish'
  <2> SUFFICES ASSUME NEW e \in ready
               PROVE  bronze[e.bronze_ref].file = objects'[e.gcs_uri]
    BY <1>0 DEF IInv, WriteThenPublish, IsRow
  <2>1. e.gcs_uri \in Traces /\ e.bronze_ref \in BronzeIds
    BY DEF IInv, TypeOK, IngressReadyEnvelope
  <2>2. /\ bronze[e.bronze_ref].file \in Files
        /\ bronze[e.bronze_ref].file = objects[e.gcs_uri]
    BY <2>1 DEF IInv, RowInv, BronzeRow, WriteThenPublish
  <2> QED BY <1>0, <1>2, <2>1, <2>2
<1> QED BY <1>1, <1>6, <1>7, <1>9, <1>10, <1>11, <1>12 DEF IInv

\* The row a worker writes is of its message's file and takes no other row's place.
LEMMA RowWritten ==
    ASSUME IInv, NEW w \in Workers, NEW b \in BronzeIds, WriteRow(w, b),
           UNCHANGED <<objects, ready>>
    PROVE  /\ bronze' \in [BronzeIds -> BronzeRow \cup {NoRow}]
           /\ status' \in [BronzeIds -> RowStatus]
           /\ TableInv'
           /\ \A c \in BronzeIds : IsRow(c) =>
                c # b /\ bronze'[c] = bronze[c] /\ status'[c] = status[c]
           /\ \A t : Concluded(t) => Concluded(t)'
           /\ bronze'[b].file = objects[cur[w]]
           /\ status'[b] = IF PreflightFails(objects[cur[w]]) THEN "FAILED" ELSE "RECEIVED"
<1> USE SubscriptionAssumption, CsvIngestAssumption DEF Traces
<1> DEFINE st == IF PreflightFails(objects[cur[w]]) THEN "FAILED" ELSE "RECEIVED"
           row == [trace_id |-> cur[w], gcs_uri |-> cur[w],
                   file |-> objects[cur[w]], received_at |-> now]
<1>1. /\ pc[w] = "insert" /\ ~IsRow(b)
      /\ bronze' = [bronze EXCEPT ![b] = row]
      /\ status' = [status EXCEPT ![b] = st]
  BY DEF WriteRow, insert_row
<1>2. cur[w] \in Traces /\ objects[cur[w]] \in Files /\ now \in Nat
  BY <1>1 DEF IInv, TypeOK, SubTypeOK, InHand, ArrivedInv, Arrived, WellFormedInv
<1>3. row \in BronzeRow
  BY <1>2 DEF BronzeRow
<1> HIDE DEF row
<1>4. bronze' \in [BronzeIds -> BronzeRow \cup {NoRow}] /\ status' \in [BronzeIds -> RowStatus]
  BY <1>1, <1>3 DEF IInv, TypeOK, RowStatus
<1>5. /\ bronze'[b] = row /\ status'[b] = st
      /\ \A c \in BronzeIds : c # b => bronze'[c] = bronze[c] /\ status'[c] = status[c]
  BY <1>1 DEF IInv, TypeOK
<1>6. \A c \in BronzeIds : IsRow(c) =>
        c # b /\ bronze'[c] = bronze[c] /\ status'[c] = status[c]
  BY <1>1, <1>5
<1>7. RowInv'
  BY <1>3, <1>5 DEF IInv, RowInv, IsRow
<1>8. WriteThenPublish'
  BY <1>6 DEF IInv, TypeOK, IngressReadyEnvelope, WriteThenPublish, IsRow
<1>9. PublishedWasSent'
  BY <1>5 DEF IInv, PublishedWasSent, IsRow, is_published
<1>10. \A t : Concluded(t) => Concluded(t)'
  BY <1>6 DEF Concluded, IsRow, IsConcluded, is_published
<1>11. bronze'[b].file = objects[cur[w]]
  BY <1>5 DEF row
<1> QED BY <1>4, <1>5, <1>6, <1>7, <1>8, <1>9, <1>10, <1>11 DEF TableInv

\* insert_row of process and of _handle_preflight_failure.
LEMMA InsertStep ==
    ASSUME IInv, NEW w \in Workers, InsertRow(w)
    PROVE  IInv'
<1> USE SubscriptionAssumption, CsvIngestAssumption DEF Traces
<1>1. PICK b \in BronzeIds :
        /\ WriteRow(w, b)
        /\ target' = [target EXCEPT ![w] = b]
        /\ pc' = [pc EXCEPT ![w] =
                    IF PreflightFails(objects[cur[w]]) THEN "error" ELSE "publish"]
        /\ UNCHANGED <<subVars, objects, ready, health, now>>
  BY DEF InsertRow
<1>2. /\ bronze' \in [BronzeIds -> BronzeRow \cup {NoRow}]
      /\ status' \in [BronzeIds -> RowStatus]
      /\ TableInv'
      /\ \A c \in BronzeIds : IsRow(c) =>
           c # b /\ bronze'[c] = bronze[c] /\ status'[c] = status[c]
      /\ \A t : Concluded(t) => Concluded(t)'
      /\ bronze'[b].file = objects[cur[w]]
      /\ status'[b] = IF PreflightFails(objects[cur[w]]) THEN "FAILED" ELSE "RECEIVED"
  BY <1>1, RowWritten
<1>3. TypeOK' /\ AttemptsInv'
  BY <1>1, <1>2 DEF IInv, TypeOK, SubTypeOK, Steps, AttemptsInv, subVars
<1>4. /\ pc[w] = "insert" /\ pc'[w] \in {"error", "publish"} /\ target'[w] = b
      /\ pc'[w] = "error" => status'[b] = "FAILED"
      /\ pc'[w] = "publish" => status'[b] = "RECEIVED"
      /\ \A v \in Workers : v # w => pc'[v] = pc[v] /\ target'[v] = target[v]
  BY <1>1, <1>2 DEF IInv, TypeOK, WriteRow
<1>5. InHand' /\ ArrivedInv' /\ WellFormedInv' /\ SentInv'
  BY <1>1, <1>4 DEF IInv, InHand, ArrivedInv, Arrived, WellFormedInv, SentInv, subVars
<1>6. TargetInv'
  BY <1>1, <1>2, <1>4 DEF IInv, TargetInv, IsRow, subVars
<1>7. pc'[w] = "error" => Concluded(cur[w])'
  BY <1>1, <1>2, <1>4 DEF Concluded, IsRow, IsConcluded, subVars
<1>8. ConcludedInv' /\ AckedIsConcluded'
  BY <1>1, <1>2, <1>4, <1>7 DEF IInv, ConcludedInv, AckedIsConcluded, subVars
<1> QED BY <1>2, <1>3, <1>5, <1>6, <1>8 DEF IInv, TableInv

\* The publish of ingress.ready, of a new row or of a prior one (resume path).
LEMMA PublishStep ==
    ASSUME IInv, NEW w \in Workers, PublishIngressReady(w)
    PROVE  IInv'
<1> USE SubscriptionAssumption, CsvIngestAssumption DEF Traces
<1> DEFINE b == target[w]
           e == build_ingress_ready(b, cur[w])
<1>0. /\ UNCHANGED <<subVars, objects, bronze, status, health, now, target>>
      /\ pc[w] = "publish" /\ pc' = [pc EXCEPT ![w] = "mark"]
      /\ ready' = ready \cup {e}
  BY DEF PublishIngressReady
<1>1. /\ b \in BronzeIds /\ IsRow(b) /\ status[b] # "FAILED"
      /\ bronze[b].file = objects[cur[w]] /\ bronze[b] \in BronzeRow
      /\ cur[w] \in Traces
  BY <1>0 DEF IInv, TypeOK, SubTypeOK, InHand, TargetInv, RowInv, IsRow
<1>2. /\ e \in IngressReadyEnvelope /\ e.bronze_ref = b
      /\ e.trace_id = bronze[b].trace_id /\ e.gcs_uri = cur[w]
  BY <1>1 DEF build_ingress_ready, IngressReadyEnvelope, BronzeRow
<1> HIDE DEF b, e
<1>3. TypeOK' /\ AttemptsInv'
  BY <1>0, <1>2 DEF IInv, TypeOK, SubTypeOK, Steps, AttemptsInv, subVars
<1>4. InHand' /\ ArrivedInv' /\ WellFormedInv' /\ TargetInv'
  BY <1>0 DEF IInv, TypeOK, InHand, ArrivedInv, Arrived, WellFormedInv, TargetInv,
     subVars
<1>5. SentInv'
  BY <1>0, <1>2 DEF IInv, TypeOK, SentInv, b
<1>6. \A t : Concluded(t) <=> Concluded(t)'
  BY <1>0 DEF Concluded, IsRow, IsConcluded, is_published
<1>7. ConcludedInv' /\ AckedIsConcluded'
  BY <1>0, <1>6 DEF IInv, TypeOK, ConcludedInv, AckedIsConcluded, subVars
<1>8. RowInv' /\ PublishedWasSent'
  BY <1>0 DEF IInv, RowInv, PublishedWasSent, IsRow, is_published
<1>9. WriteThenPublish'
  BY <1>0, <1>1, <1>2 DEF IInv, WriteThenPublish, IsRow
<1> QED BY <1>3, <1>4, <1>5, <1>7, <1>8, <1>9 DEF IInv

\* mark_published overwrites RECEIVED or PUBLISHED, after the envelope is out.
LEMMA RowMarked ==
    ASSUME IInv, NEW w \in Workers, pc[w] = "mark", mark_published(target[w]),
           UNCHANGED <<objects, ready>>
    PROVE  /\ target[w] \in BronzeIds
           /\ status' \in [BronzeIds -> RowStatus]
           /\ bronze' = bronze
           /\ \A c \in BronzeIds : IsRow(c) => status'[c] = status[c]
                \/ (status[c] \in {"RECEIVED", "PUBLISHED"} /\ status'[c] = "PUBLISHED")
           /\ \A c \in BronzeIds : ~IsRow(c) => status'[c] = "absent"
           /\ TableInv'
           /\ \A t : Concluded(t) => Concluded(t)'
           /\ \A t : t = cur[w] => Concluded(t)'
<1> USE SubscriptionAssumption, CsvIngestAssumption DEF Traces
<1> DEFINE b == target[w]
<1>1. /\ b \in BronzeIds /\ status[b] \in {"RECEIVED", "PUBLISHED"}
      /\ bronze[b].file = objects[cur[w]]
      /\ \E e \in ready : e.bronze_ref = b
  BY DEF IInv, TargetInv, SentInv
<1> HIDE DEF b
<1>2. bronze' = bronze /\ status' = [status EXCEPT ![b] = "PUBLISHED"]
  BY DEF mark_published, b
<1>3. /\ status' \in [BronzeIds -> RowStatus] /\ status'[b] = "PUBLISHED"
      /\ \A c \in BronzeIds : c # b => status'[c] = status[c]
  BY <1>1, <1>2 DEF IInv, TypeOK, RowStatus
<1>4. \A c \in BronzeIds : IsRow(c) => status'[c] = status[c]
         \/ (status[c] \in {"RECEIVED", "PUBLISHED"} /\ status'[c] = "PUBLISHED")
  BY <1>1, <1>3
<1>5. \A c \in BronzeIds : ~IsRow(c) => status'[c] = "absent"
  BY <1>1, <1>3 DEF IsRow
<1>6. RowInv'
  BY <1>1, <1>2, <1>3 DEF IInv, RowInv, IsRow
<1>7. WriteThenPublish'
  <2>1. \A e \in ready : e.bronze_ref \in BronzeIds
    BY DEF IInv, TypeOK, IngressReadyEnvelope
  <2> QED BY <2>1, <1>2, <1>4 DEF IInv, WriteThenPublish, IsRow
<1>8. PublishedWasSent'
  BY <1>1, <1>3 DEF IInv, PublishedWasSent, IsRow, is_published
<1>9. \A t : Concluded(t) => Concluded(t)'
  BY <1>2, <1>4 DEF Concluded, IsRow, IsConcluded, is_published
<1>10. \A t : t = cur[w] => Concluded(t)'
  BY <1>1, <1>2, <1>3 DEF Concluded, IsRow, IsConcluded, is_published
<1> QED BY <1>1, <1>2, <1>3, <1>4, <1>5, <1>6, <1>7, <1>8, <1>9, <1>10 DEF TableInv, b

\* mark_published, whose target was chosen before the publish.
LEMMA MarkStep ==
    ASSUME IInv, NEW w \in Workers, MarkPublished(w)
    PROVE  IInv'
<1> USE SubscriptionAssumption, CsvIngestAssumption DEF Traces
<1>0. /\ UNCHANGED <<subVars, objects, ready, health, now, target>>
      /\ pc[w] = "mark" /\ mark_published(target[w])
      /\ pc' = [pc EXCEPT ![w] = "seen"]
  BY DEF MarkPublished
<1>1. /\ status' \in [BronzeIds -> RowStatus]
      /\ bronze' = bronze
      /\ \A c \in BronzeIds : IsRow(c) => status'[c] = status[c]
           \/ (status[c] \in {"RECEIVED", "PUBLISHED"} /\ status'[c] = "PUBLISHED")
      /\ TableInv'
      /\ \A t : Concluded(t) => Concluded(t)'
      /\ \A t : t = cur[w] => Concluded(t)'
  BY <1>0, RowMarked
<1>2. TypeOK' /\ AttemptsInv'
  BY <1>0, <1>1 DEF IInv, TypeOK, SubTypeOK, Steps, AttemptsInv, subVars
<1>3. pc'[w] = "seen" /\ \A v \in Workers : v # w => pc'[v] = pc[v]
  BY <1>0 DEF IInv, TypeOK
<1>4. InHand' /\ ArrivedInv' /\ WellFormedInv' /\ SentInv'
  BY <1>0, <1>3 DEF IInv, InHand, ArrivedInv, Arrived, WellFormedInv, SentInv, subVars
<1>5. TargetInv'
  BY <1>0, <1>1, <1>3 DEF IInv, TargetInv, IsRow, subVars
<1>6. ConcludedInv' /\ AckedIsConcluded'
  BY <1>0, <1>1, <1>3 DEF IInv, ConcludedInv, AckedIsConcluded, subVars
<1> QED BY <1>1, <1>2, <1>4, <1>5, <1>6 DEF IInv, TableInv

\* A write that commits although its caller saw an exception.
LEMMA CommitRaisesStep ==
    ASSUME IInv, NEW w \in Workers, CommitRaises(w)
    PROVE  IInv'
<1> USE SubscriptionAssumption, CsvIngestAssumption DEF Traces
<1>0. /\ UNCHANGED <<msg, attempts, batch, acks, objects, ready, health, now, target>>
      /\ pc' = [pc EXCEPT ![w] = "ready"]
      /\ cur' = [cur EXCEPT ![w] = None]
      /\ nacks' = [nacks EXCEPT ![w] = @ \cup {cur[w]}]
      /\ pc[w] # "ready"
  BY DEF CommitRaises, WriteRow, ReturnNack, brokerVars
<1>1. /\ bronze' \in [BronzeIds -> BronzeRow \cup {NoRow}]
      /\ status' \in [BronzeIds -> RowStatus]
      /\ TableInv'
      /\ \A t : Concluded(t) => Concluded(t)'
      /\ \A c \in BronzeIds : status[c] \in {"RECEIVED", "PUBLISHED"} =>
           status'[c] \in {"RECEIVED", "PUBLISHED"} /\ bronze'[c] = bronze[c]
  <2>1. ASSUME NEW b \in BronzeIds, WriteRow(w, b)
        PROVE  <1>1!:
    BY <2>1, <1>0, RowWritten DEF IsRow
  <2>2. CASE pc[w] = "mark" /\ mark_published(target[w])
    BY <2>2, <1>0, RowMarked DEF IInv, TypeOK, IsRow
  <2> QED BY <2>1, <2>2 DEF CommitRaises
<1>2. TypeOK' /\ AttemptsInv'
  BY <1>0, <1>1 DEF IInv, TypeOK, SubTypeOK, Steps, InHand, AttemptsInv
<1>3. /\ pc'[w] = "ready" /\ cur'[w] = None
      /\ \A v \in Workers : v # w => pc'[v] = pc[v] /\ cur'[v] = cur[v]
  BY <1>0 DEF IInv, TypeOK, SubTypeOK
<1>4. InHand' /\ ArrivedInv' /\ WellFormedInv' /\ SentInv'
  BY <1>0, <1>3 DEF IInv, InHand, ArrivedInv, Arrived, WellFormedInv, SentInv
<1>5. TargetInv'
  BY <1>0, <1>1, <1>3 DEF IInv, TargetInv
<1>6. ConcludedInv' /\ AckedIsConcluded'
  BY <1>0, <1>1, <1>3 DEF IInv, ConcludedInv, AckedIsConcluded
<1> QED BY <1>1, <1>2, <1>4, <1>5, <1>6 DEF IInv, TableInv

\* The clock advances, or nothing happens.
LEMMA IdleStep ==
    ASSUME IInv, Tick \/ UNCHANGED vars
    PROVE  IInv'
<1>0. UNCHANGED <<tables, subVars, pc, target, health>>
  BY DEF Tick, vars, pipelineVars, tables
<1>1. now' \in Nat
  BY DEF IInv, TypeOK, Tick, vars
<1>2. TypeOK' /\ AttemptsInv'
  BY <1>0, <1>1 DEF IInv, TypeOK, SubTypeOK, AttemptsInv, subVars, tables
<1>3. InHand' /\ ArrivedInv' /\ WellFormedInv' /\ TargetInv' /\ SentInv'
  BY <1>0 DEF IInv, InHand, ArrivedInv, Arrived, WellFormedInv, TargetInv, SentInv,
     subVars, tables
<1>4. ConcludedInv' /\ AckedIsConcluded'
  BY <1>0, TablesFrame DEF IInv, ConcludedInv, AckedIsConcluded, subVars
<1>5. TableInv'
  BY <1>0, TablesFrame DEF IInv, TableInv
<1> QED BY <1>2, <1>3, <1>4, <1>5 DEF IInv, TableInv

-----------------------------------------------------------------------------

\* Every step of the lane preserves the inductive invariant.
LEMMA NextInv == IInv /\ [Next]_vars => IInv'
<1> SUFFICES ASSUME IInv, [Next]_vars PROVE IInv'
  OBVIOUS
<1>1. ASSUME NEW t \in Traces, Environment(t) PROVE IInv'
  BY <1>1, UploadStep, QueueStep DEF Environment
<1>2. ASSUME NEW w \in Workers, WorkerStep(w) PROVE IInv'
  BY <1>2, LoopStep, HandStep, DecideStep, AckStep, InsertStep, PublishStep, MarkStep
  DEF WorkerStep, Process
<1>3. ASSUME NEW w \in Workers, WorkerFailure(w) PROVE IInv'
  BY <1>3, HandStep, CommitRaisesStep DEF WorkerFailure
<1>4. CASE Tick \/ UNCHANGED vars
  BY <1>4, IdleStep
<1> QED BY <1>1, <1>2, <1>3, <1>4 DEF Next

\* The inductive invariant holds in every reachable state of the lane.
LEMMA Invariance == Spec => []IInv
  BY InitInv, NextInv, PTL DEF Spec

\* Every reachable state of the lane is well typed; in particular the broker never
\* delivers a message more often than the dead-letter policy allows.
THEOREM TypeCorrect == Spec => []TypeOK
<1>1. IInv => TypeOK
  BY DEF IInv
<1> QED BY <1>1, Invariance, PTL

\* Write-then-publish holds for any number of workers, crashes and redeliveries:
\* an ingress.ready envelope always has its bronze row and its bytes behind it.
THEOREM PublishIsBacked == Spec => []WriteThenPublish
<1>1. IInv => WriteThenPublish
  BY DEF IInv
<1> QED BY <1>1, Invariance, PTL

\* A bronze row marked PUBLISHED has had its envelope published.
THEOREM MarkFollowsPublish == Spec => []PublishedWasSent
<1>1. IInv => PublishedWasSent
  BY DEF IInv
<1> QED BY <1>1, Invariance, PTL

\* No csv.received message is acknowledged before its upload is concluded.
THEOREM NothingLost == Spec => []AckedIsConcluded
<1>1. IInv => AckedIsConcluded
  BY DEF IInv
<1> QED BY <1>1, Invariance, PTL

-----------------------------------------------------------------------------
(* What a step may do to a bronze row, and what follows from it. *)

\* Only the INSERT and mark_published touch the table; both respect the rows in it.
LEMMA StepAdvances ==
    ASSUME IInv, [Next]_vars
    PROVE  \A b \in BronzeIds : IsRow(b) => RowAdvances(b)
<1> SUFFICES ASSUME NEW b \in BronzeIds, IsRow(b) PROVE RowAdvances(b)
  OBVIOUS
<1>1. CASE UNCHANGED <<bronze, status>>
  BY <1>1 DEF RowAdvances
<1>2. ASSUME NEW w \in Workers, NEW c \in BronzeIds, WriteRow(w, c),
             UNCHANGED <<objects, ready>>
      PROVE  RowAdvances(b)
  BY <1>2, RowWritten DEF RowAdvances
<1>3. ASSUME NEW w \in Workers, pc[w] = "mark", mark_published(target[w]),
             UNCHANGED <<objects, ready>>
      PROVE  RowAdvances(b)
  BY <1>3, RowMarked DEF RowAdvances
<1>4. ASSUME NEW t \in Traces, Environment(t) PROVE UNCHANGED <<bronze, status>>
  BY <1>4 DEF Environment, UploadObject, PublishCsvReceived, PublishMalformed, Expire
<1>5. ASSUME NEW w \in Workers, WorkerStep(w) PROVE RowAdvances(b)
  <2>1. CASE InsertRow(w)
    BY <2>1, <1>2 DEF InsertRow
  <2>2. CASE MarkPublished(w)
    BY <2>2, <1>3 DEF MarkPublished
  <2>3. CASE ~InsertRow(w) /\ ~MarkPublished(w)
    BY <2>3, <1>1, <1>5 DEF WorkerStep, Process, PullBatch, BeginMessage, SettleBatch,
       RejectEvent, DuplicateNoop, DuplicateResume, PiiRejected, FreshFile,
       PublishIngressReady, EmitHealthSeen, EmitHealthError
  <2> QED BY <2>1, <2>2, <2>3
<1>6. ASSUME NEW w \in Workers, WorkerFailure(w) PROVE RowAdvances(b)
  <2>1. CASE CommitRaises(w)
    BY <2>1, <1>2, <1>3 DEF CommitRaises
  <2>2. CASE StepRaises(w) \/ Crash(w)
    BY <2>2, <1>1 DEF StepRaises, Crash
  <2> QED BY <2>1, <2>2, <1>6 DEF WorkerFailure
<1>7. CASE Tick \/ UNCHANGED vars
  BY <1>7, <1>1 DEF Tick, vars
<1> QED BY <1>1, <1>4, <1>5, <1>6, <1>7 DEF Next

\* No behaviour of the lane deletes or rewrites a bronze row, or reopens one that is
\* FAILED or PUBLISHED.
THEOREM BronzeAdvances == Spec => RowsOnlyAdvance
<1>1. IInv /\ [Next]_vars
      => [\A b \in BronzeIds : IsRow(b) => RowAdvances(b)]_<<bronze, status>>
  BY StepAdvances
<1> QED BY <1>1, Invariance, PTL DEF Spec, RowsOnlyAdvance

\* A worker that is about to report a failure has left its FAILED row.
ErrorInv ==
    \A w \in Workers : pc[w] = "error" => \E b \in BronzeIds : status[b] = "FAILED"

\* connector_health never shows an error that no FAILED row explains.
THEOREM ErrorsAreDurable == Spec => []HealthErrorBacked
<1> DEFINE J == HealthErrorBacked /\ ErrorInv
<1>1. Init => J
  BY DEF Init, HealthErrorBacked, ErrorInv
<1>2. IInv /\ J /\ [Next]_vars => J'
  <2> SUFFICES ASSUME IInv, HealthErrorBacked, ErrorInv, [Next]_vars PROVE J'
    OBVIOUS
  <2>1. \A b \in BronzeIds : status[b] = "FAILED" => status'[b] = "FAILED"
    BY StepAdvances DEF RowAdvances, IsRow
  <2>2. CASE UNCHANGED <<health, pc>>
    BY <2>1, <2>2 DEF HealthErrorBacked, ErrorInv
  <2>3. ASSUME NEW w \in Workers, NEW s \in Steps \ {"error"},
               pc' = [pc EXCEPT ![w] = s], UNCHANGED health
        PROVE  J'
    BY <2>1, <2>3 DEF IInv, TypeOK, HealthErrorBacked, ErrorInv
  <2>4. ASSUME NEW w \in Workers, InsertRow(w) PROVE J'
    <3>1. PICK b \in BronzeIds :
            /\ WriteRow(w, b) /\ UNCHANGED <<objects, ready, health>>
            /\ pc' = [pc EXCEPT ![w] =
                 IF PreflightFails(objects[cur[w]]) THEN "error" ELSE "publish"]
      BY <2>4 DEF InsertRow
    <3>2. pc'[w] = "error" => status'[b] = "FAILED"
      BY <3>1, RowWritten DEF IInv, TypeOK
    <3> QED BY <2>1, <3>1, <3>2 DEF IInv, TypeOK, HealthErrorBacked, ErrorInv
  <2>5. ASSUME NEW w \in Workers, EmitHealthSeen(w) \/ EmitHealthError(w) PROVE J'
    <3>1. pc' = [pc EXCEPT ![w] = "ready"]
      BY <2>5 DEF EmitHealthSeen, EmitHealthError
    <3>2. ErrorInv'
      BY <2>1, <3>1 DEF IInv, TypeOK, ErrorInv
    <3>3. HealthErrorBacked'
      BY <2>1, <2>5 DEF HealthErrorBacked, ErrorInv, EmitHealthSeen, EmitHealthError
    <3> QED BY <3>2, <3>3
  <2>6. ASSUME NEW t \in Traces, Environment(t) PROVE UNCHANGED <<health, pc>>
    BY <2>6 DEF Environment, UploadObject, PublishCsvReceived, PublishMalformed,
       Expire, pipelineVars
  <2>7. ASSUME NEW w \in Workers, WorkerStep(w) PROVE J'
    <3>1. CASE PullBatch(w) \/ SettleBatch(w)
      BY <3>1, <2>2 DEF PullBatch, SettleBatch, pipelineVars
    <3>2. CASE InsertRow(w) \/ EmitHealthSeen(w) \/ EmitHealthError(w)
      BY <3>2, <2>4, <2>5
    <3>3. CASE BeginMessage(w) \/ RejectEvent(w) \/ DuplicateNoop(w)
               \/ DuplicateResume(w) \/ PiiRejected(w) \/ FreshFile(w)
               \/ PublishIngressReady(w) \/ MarkPublished(w)
      BY <3>3, <2>3 DEF BeginMessage, RejectEvent, DuplicateNoop, DuplicateResume,
         PiiRejected, FreshFile, PublishIngressReady, MarkPublished, Steps
    <3> QED BY <3>1, <3>2, <3>3, <2>7 DEF WorkerStep, Process
  <2>8. ASSUME NEW w \in Workers, WorkerFailure(w) PROVE J'
    BY <2>8, <2>3 DEF WorkerFailure, StepRaises, CommitRaises, Crash, Steps
  <2>9. CASE Tick \/ UNCHANGED vars
    BY <2>9, <2>2 DEF Tick, vars, pipelineVars
  <2> QED BY <2>2, <2>6, <2>7, <2>8, <2>9 DEF Next
<1>3. J => HealthErrorBacked
  OBVIOUS
<1> QED BY <1>1, <1>2, <1>3, Invariance, PTL DEF Spec

-----------------------------------------------------------------------------
(* The dedup window, for the one worker the deployment pins. *)

\* Between find_prior and the INSERT no row of the same file enters the window.
GapInv ==
    \A w \in Workers : pc[w] = "insert" =>
        \A b \in BronzeIds :
            IsRow(b) /\ bronze[b].file = objects[cur[w]]
            => bronze[b].received_at + DedupWindow < now

\* With a single worker, one upload never has two bronze rows within the dedup
\* window, however often its message is redelivered or its client retries.
THEOREM NoDuplicateRow ==
    ASSUME \A v, w \in Workers : v = w
    PROVE  Spec => []OneRowPerWindow
<1> USE CsvIngestAssumption
<1> DEFINE J == OneRowPerWindow /\ GapInv
<1>1. Init => J
  BY DEF Init, OneRowPerWindow, GapInv, IsRow
<1>2. IInv /\ J /\ [Next]_vars => J'
  <2> SUFFICES ASSUME IInv, OneRowPerWindow, GapInv, [Next]_vars PROVE J'
    OBVIOUS
  <2>1. \A b \in BronzeIds : IsRow(b) => bronze'[b] = bronze[b] /\ IsRow(b)'
    BY StepAdvances DEF RowAdvances, IsRow
  <2>2. \A b \in BronzeIds : IsRow(b) =>
          bronze[b].received_at \in Nat /\ bronze[b].file \in Files
    BY DEF IInv, RowInv, BronzeRow
  <2>3. now \in Nat /\ now' \in Nat /\ now <= now'
    <3>1. now' = now \/ now' = now + 1
      BY DEF Next, Environment, WorkerStep, WorkerFailure, Process, UploadObject,
         PublishCsvReceived, PublishMalformed, Expire, PullBatch, BeginMessage,
         SettleBatch, RejectEvent, DuplicateNoop, DuplicateResume, PiiRejected,
         FreshFile, InsertRow, PublishIngressReady, MarkPublished, EmitHealthSeen,
         EmitHealthError, StepRaises, CommitRaises, Crash, Tick, vars
    <3> QED BY <3>1 DEF IInv, TypeOK
  <2>4. ASSUME NEW w \in Workers, NEW b \in BronzeIds, WriteRow(w, b), pc'[w] # "insert"
        PROVE  J'
    <3>1. /\ pc[w] = "insert" /\ ~IsRow(b)
          /\ bronze'[b].received_at = now /\ bronze'[b].file = objects[cur[w]]
          /\ \A c \in BronzeIds : c # b => bronze'[c] = bronze[c] /\ status'[c] = status[c]
      BY <2>4 DEF WriteRow, insert_row, IInv, TypeOK
    <3>2. GapInv'
      BY <2>4 DEF GapInv
    <3>3. \A c \in BronzeIds : c # b /\ IsRow(c)' /\ bronze'[c].file = objects[cur[w]]
            => bronze'[c].received_at + DedupWindow < now
      BY <3>1 DEF GapInv, IsRow
    <3>4. OneRowPerWindow'
      BY <3>1, <3>3, <2>2, <2>3 DEF OneRowPerWindow, IsRow
    <3> QED BY <3>2, <3>4
  <2>5. ASSUME \A b \in BronzeIds : IsRow(b)' => IsRow(b),
               \A w \in Workers : pc'[w] = "insert" =>
                 /\ \A b \in BronzeIds : IsRow(b) /\ bronze[b].file = objects[cur[w]]
                      => bronze[b].received_at + DedupWindow < now
                 /\ cur'[w] = cur[w] /\ objects'[cur[w]] = objects[cur[w]]
        PROVE  J'
    BY <2>1, <2>2, <2>3, <2>5 DEF OneRowPerWindow, GapInv
  <2>6. ASSUME UNCHANGED <<bronze, status, pc, cur, objects>> PROVE J'
    BY <2>5, <2>6 DEF GapInv, IsRow
  <2>7. ASSUME NEW w \in Workers, \A b \in BronzeIds : IsRow(b)' => IsRow(b),
               pc'[w] # "insert"
        PROVE  J'
    BY <2>5, <2>7
  <2>8. ASSUME NEW t \in Traces, Environment(t) PROVE J'
    <3>1. CASE PublishCsvReceived(t) \/ PublishMalformed(t) \/ Expire(t)
      BY <3>1, <2>6 DEF PublishCsvReceived, PublishMalformed, Expire, LeaseExpires,
         loopVars, pipelineVars
    <3>2. ASSUME NEW f \in Files, UploadObject(t, f) PROVE J'
      <4>1. \A w \in Workers : pc[w] = "insert" => cur[w] # t
        BY <3>2 DEF UploadObject, IInv, InHand, ArrivedInv, Arrived, WellFormedInv
      <4> QED BY <4>1, <3>2, <2>5 DEF UploadObject, IInv, TypeOK, SubTypeOK, InHand, Traces,
              GapInv, IsRow, subVars, pipelineVars
    <3> QED BY <3>1, <3>2, <2>8 DEF Environment
  <2>9. ASSUME NEW w \in Workers, WorkerStep(w) PROVE J'
    <3>1. CASE PullBatch(w) \/ SettleBatch(w)
      BY <3>1, <2>6 DEF PullBatch, SettleBatch, Pull, Acknowledge, ModifyAckDeadline,
         pipelineVars
    <3>2. CASE InsertRow(w)
      BY <3>2, <2>4 DEF InsertRow, IInv, TypeOK
    <3>3. CASE FreshFile(w)
      <4>1. \A b \in BronzeIds : IsRow(b) /\ bronze[b].file = objects[cur[w]]
              => bronze[b].received_at + DedupWindow < now
        BY <3>3, <2>2, <2>3 DEF FreshFile, NoPrior, InDedupWindow
      <4> QED BY <4>1, <3>3, <2>5 DEF FreshFile, IsRow, subVars
    <3>4. CASE BeginMessage(w) \/ RejectEvent(w) \/ DuplicateNoop(w)
               \/ DuplicateResume(w) \/ PiiRejected(w) \/ PublishIngressReady(w)
               \/ EmitHealthSeen(w) \/ EmitHealthError(w)
      BY <3>4, <2>7 DEF BeginMessage, RejectEvent, DuplicateNoop, DuplicateResume,
         PiiRejected, PublishIngressReady, EmitHealthSeen, EmitHealthError, IInv,
         TypeOK, IsRow
    <3>5. CASE MarkPublished(w)
      BY <3>5, <2>7, RowMarked DEF MarkPublished, IInv, TypeOK, IsRow
    <3> QED BY <3>1, <3>2, <3>3, <3>4, <3>5, <2>9 DEF WorkerStep, Process
  <2>10. ASSUME NEW w \in Workers, WorkerFailure(w) PROVE J'
    <3>1. pc'[w] = "ready"
      BY <2>10 DEF WorkerFailure, StepRaises, CommitRaises, Crash, IInv, TypeOK
    <3>2. CASE StepRaises(w) \/ Crash(w)
      BY <3>1, <3>2, <2>7 DEF StepRaises, Crash, IsRow
    <3>3. CASE \E b \in BronzeIds : WriteRow(w, b)
      BY <3>1, <3>3, <2>4
    <3>4. CASE CommitRaises(w) /\ pc[w] = "mark" /\ mark_published(target[w])
      BY <3>1, <3>4, <2>7, RowMarked DEF CommitRaises, IsRow
    <3> QED BY <3>2, <3>3, <3>4, <2>10 DEF WorkerFailure, CommitRaises
  <2>11. CASE Tick \/ UNCHANGED vars
    BY <2>11, <2>6 DEF Tick, vars, subVars, pipelineVars
  <2> QED BY <2>8, <2>9, <2>10, <2>11 DEF Next
<1>3. J => OneRowPerWindow
  OBVIOUS
<1> QED BY <1>1, <1>2, <1>3, Invariance, PTL DEF Spec
=============================================================================
