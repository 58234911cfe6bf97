---------------------------- MODULE Subscription ----------------------------
(***************************************************************************)
(* A Pub/Sub subscription and the pull loop that every queue consumer of   *)
(* the repository runs over it.  The loop is the same code three times:    *)
(* csv_ingest_worker/subscriber.py, streaming_consumer/clients/pubsub.py   *)
(* and axon_sender/subscriber.py.  One pass of poll_once pulls a batch,    *)
(* routes its messages one after the other, and only then acknowledges     *)
(* them all and nacks the rest, so a crash in the middle of a pass loses   *)
(* every decision of that pass.                                            *)
(*                                                                         *)
(* The subscription itself (delivery, leases, redelivery, dead-lettering)  *)
(* is an external service: at-least-once, unordered, an acknowledgement    *)
(* is best effort, and a message delivered MaxDeliveryAttempts times       *)
(* without an acknowledgement goes to the dead-letter topic.               *)
(***************************************************************************)
EXTENDS Naturals, FiniteSets

CONSTANTS
    Messages,             \* messages that may be put on the topic
    Workers,              \* running consumer processes
    MaxMessages,          \* Subscriber.max_messages
    MaxDeliveryAttempts,  \* dead_letter_policy.max_delivery_attempts
    None                  \* "no message in hand"

ASSUME SubscriptionAssumption ==
    /\ MaxMessages \in Nat \ {0}
    /\ MaxDeliveryAttempts \in Nat \ {0}
    /\ None \notin Messages

VARIABLES
    msg,       \* broker's view of each message
    attempts,  \* how often the broker has delivered each message
    batch,     \* pulled by the worker and not yet routed
    cur,       \* the message process_message is working on
    acks,      \* ack_ids collected by the current pass
    nacks      \* nack_ids collected by the current pass

subVars == <<msg, attempts, batch, cur, acks, nacks>>
loopVars == <<batch, cur, acks, nacks>>
brokerVars == <<msg, attempts>>

MsgStatus == {"absent", "queued", "leased", "acked", "dead"}

SubTypeOK ==
    /\ msg \in [Messages -> MsgStatus]
    /\ attempts \in [Messages -> 0..MaxDeliveryAttempts]
    /\ batch \in [Workers -> SUBSET Messages]
    /\ cur \in [Workers -> Messages \cup {None}]
    /\ acks \in [Workers -> SUBSET Messages]
    /\ nacks \in [Workers -> SUBSET Messages]

SubInit ==
    /\ msg = [m \in Messages |-> "absent"]
    /\ attempts = [m \in Messages |-> 0]
    /\ batch = [w \in Workers |-> {}]
    /\ cur = [w \in Workers |-> None]
    /\ acks = [w \in Workers |-> {}]
    /\ nacks = [w \in Workers |-> {}]

-----------------------------------------------------------------------------
(* The broker. *)

\* A message lands on the topic.
Enqueue(m) ==
    /\ msg[m] = "absent"
    /\ msg' = [msg EXCEPT ![m] = "queued"]
    /\ UNCHANGED attempts

\* Mutant: the delivery limit is compared one too late.
AfterDelivery_OffByOne(m) ==
    IF attempts[m] > MaxDeliveryAttempts THEN "dead" ELSE "queued"

\* What becomes of a delivery that ends without an acknowledgement.
AfterDelivery(m) ==
    IF attempts[m] >= MaxDeliveryAttempts THEN "dead" ELSE "queued"

\* The ack deadline passes; the worker that holds the message is not told.
LeaseExpires(m) ==
    /\ msg[m] = "leased"
    /\ msg' = [msg EXCEPT ![m] = AfterDelivery(m)]
    /\ UNCHANGED <<attempts, loopVars>>

-----------------------------------------------------------------------------
(* The pull loop: poll_once between two iterations of run_forever. *)

Polling(w) ==
    batch[w] = {} /\ cur[w] = None /\ acks[w] = {} /\ nacks[w] = {}

\* self._client.pull: at most max_messages, in no particular order.
Pull(w) ==
    /\ Polling(w)
    /\ \E S \in SUBSET {m \in Messages : msg[m] = "queued"} :
         /\ S # {}
         /\ Cardinality(S) <= MaxMessages
         /\ msg' = [m \in Messages |-> IF m \in S THEN "leased" ELSE msg[m]]
         /\ attempts' = [m \in Messages |->
                           IF m \in S THEN attempts[m] + 1 ELSE attempts[m]]
         /\ batch' = [batch EXCEPT ![w] = S]
    /\ UNCHANGED <<cur, acks, nacks>>

\* The head of the for loop: the next message of the batch is routed.
NextMessage(w) ==
    /\ cur[w] = None
    /\ \E m \in batch[w] :
         /\ cur' = [cur EXCEPT ![w] = m]
         /\ batch' = [batch EXCEPT ![w] = @ \ {m}]
    /\ UNCHANGED <<brokerVars, acks, nacks>>

\* process_message returned "ack" ...
ReturnAck(w) ==
    /\ acks' = [acks EXCEPT ![w] = @ \cup {cur[w]}]
    /\ cur' = [cur EXCEPT ![w] = None]
    /\ UNCHANGED <<brokerVars, batch, nacks>>

\* ... or "nack".  Neither reaches the broker before the batch is done.
ReturnNack(w) ==
    /\ nacks' = [nacks EXCEPT ![w] = @ \cup {cur[w]}]
    /\ cur' = [cur EXCEPT ![w] = None]
    /\ UNCHANGED <<brokerVars, batch, acks>>

BatchDone(w) == batch[w] = {} /\ cur[w] = None

\* self._client.acknowledge.  The broker may lose any of the acknowledgements,
\* and an acknowledgement after the lease has expired may still be honoured.
Acknowledge(w) ==
    /\ BatchDone(w)
    /\ acks[w] # {}
    /\ \E honoured \in SUBSET acks[w] :
         msg' = [m \in Messages |->
                   IF m \in honoured /\ msg[m] \in {"queued", "leased"}
                   THEN "acked" ELSE msg[m]]
    /\ acks' = [acks EXCEPT ![w] = {}]
    /\ UNCHANGED <<attempts, batch, cur, nacks>>

\* Mutant: the nack list of the pass is never cleared.
ModifyAckDeadline_KeepsList(w) ==
    /\ BatchDone(w)
    /\ acks[w] = {}
    /\ nacks[w] # {}
    /\ msg' = [m \in Messages |->
                 IF m \in nacks[w] /\ msg[m] = "leased"
                 THEN AfterDelivery(m) ELSE msg[m]]
    /\ UNCHANGED <<attempts, batch, cur, acks, nacks>>

\* self._client.modify_ack_deadline(0), after the acknowledgements.
ModifyAckDeadline(w) ==
    /\ BatchDone(w)
    /\ acks[w] = {}
    /\ nacks[w] # {}
    /\ msg' = [m \in Messages |->
                 IF m \in nacks[w] /\ msg[m] = "leased"
                 THEN AfterDelivery(m) ELSE msg[m]]
    /\ nacks' = [nacks EXCEPT ![w] = {}]
    /\ UNCHANGED <<attempts, batch, cur, acks>>

\* The pass ends before its decisions reach the broker: the process dies, or
\* acknowledge / modify_ack_deadline raises and run_forever swallows it and starts
\* a new pass.  What was pulled stays leased until the lease runs out.
PassAborted(w) ==
    /\ ~Polling(w)
    /\ batch' = [batch EXCEPT ![w] = {}]
    /\ cur' = [cur EXCEPT ![w] = None]
    /\ acks' = [acks EXCEPT ![w] = {}]
    /\ nacks' = [nacks EXCEPT ![w] = {}]
    /\ UNCHANGED brokerVars

Settled(m) == msg[m] \in {"acked", "dead"}
=============================================================================
