-------------------------------- MODULE Axon --------------------------------
(***************************************************************************)
(* Axon, the delivery plane: axon-sender pulls send requests from its      *)
(* subscription, hands each to the channel adapter and writes one row of   *)
(* axon.platform_deliveries about it.  The send comes first and cannot be  *)
(* taken back; the row is keyed by the delivery_id that the requester      *)
(* minted, which is what a redelivery collides with.                       *)
(***************************************************************************)
EXTENDS Subscription

CONSTANTS
    Deliverable  \* messages with an envelope this build reads, for the e-mail channel

DeliveryState == {"accepted", "failed"}

ASSUME AxonAssumption ==
    /\ IsFiniteSet(Messages)
    /\ Deliverable \subseteq Messages
    /\ None \notin DeliveryState

VARIABLES
    stage,   \* where process_message is: what send_platform has learnt so far
    mails,   \* mails the provider took, per request: the recipient's inbox
    ledger   \* axon.platform_deliveries: the recorded state of a delivery_id

axonVars == <<subVars, stage, mails, ledger>>

AxonTypeOK ==
    /\ SubTypeOK
    /\ stage \in [Workers -> {"parse", "send"} \cup DeliveryState]
    /\ mails \in [Messages -> 0..MaxDeliveryAttempts]
    /\ ledger \in [Messages -> DeliveryState \cup {None}]

AxonInit ==
    /\ SubInit
    /\ stage = [w \in Workers |-> "parse"]
    /\ mails = [m \in Messages |-> 0]
    /\ ledger = [m \in Messages |-> None]

-----------------------------------------------------------------------------
Reach(w, s) == stage' = [stage EXCEPT ![w] = s]

\* SendRequested.from_json and the channel test.
Read(w) ==
    /\ stage[w] = "parse"
    /\ cur[w] \in Deliverable
    /\ Reach(w, "send")
    /\ UNCHANGED <<subVars, mails, ledger>>

\* An envelope that cannot be read, or a channel without an adapter: nacked, so
\* that it ends on the dead-letter topic.
Unreadable(w) ==
    /\ stage[w] = "parse"
    /\ cur[w] \in Messages \ Deliverable
    /\ ReturnNack(w)
    /\ UNCHANGED <<stage, mails, ledger>>

\* adapter.send.  A transport error says nothing about whether the provider took
\* the mail: the request may have timed out after it was accepted.
Send(w) ==
    /\ stage[w] = "send"
    /\ \/ /\ Reach(w, "accepted")
          /\ mails' = [mails EXCEPT ![cur[w]] = @ + 1]
       \/ /\ Reach(w, "failed")
          /\ \/ mails' = [mails EXCEPT ![cur[w]] = @ + 1]
             \/ UNCHANGED mails
    /\ UNCHANGED <<subVars, ledger>>

\* record_platform_delivery: the primary key keeps the first row.
Recorded(m, state) == IF ledger[m] = None THEN state ELSE ledger[m]

\* The row is written, or found there already: process_message acknowledges.
Record(w) ==
    /\ stage[w] \in DeliveryState
    /\ ledger' = [ledger EXCEPT ![cur[w]] = Recorded(cur[w], stage[w])]
    /\ Reach(w, "parse")
    /\ ReturnAck(w)
    /\ UNCHANGED mails

\* Mutant: a failed ledger write is acknowledged all the same.
LedgerWriteFails_Acks(w) ==
    /\ stage[w] \in DeliveryState
    /\ Reach(w, "parse")
    /\ ReturnAck(w)
    /\ UNCHANGED <<mails, ledger>>

\* LedgerWriteError: the mail is out and there is no row, so the message is nacked
\* and the mail will be sent again.
LedgerWriteFails(w) ==
    /\ stage[w] \in DeliveryState
    /\ Reach(w, "parse")
    /\ ReturnNack(w)
    /\ UNCHANGED <<mails, ledger>>

\* The process dies, or acknowledge / modify_ack_deadline raises.
SenderAborts(w) ==
    /\ PassAborted(w)
    /\ Reach(w, "parse")
    /\ UNCHANGED <<mails, ledger>>

\* A producer other than the console puts a message on the topic.
ForeignPublish(m) ==
    /\ m \notin Deliverable
    /\ Enqueue(m)
    /\ UNCHANGED <<loopVars, stage, mails, ledger>>

Sender(w) ==
    \/ Pull(w) /\ UNCHANGED <<stage, mails, ledger>>
    \/ NextMessage(w) /\ UNCHANGED <<stage, mails, ledger>>
    \/ Read(w)
    \/ Unreadable(w)
    \/ Send(w)
    \/ Record(w)
    \/ LedgerWriteFails(w)
    \/ Acknowledge(w) /\ UNCHANGED <<stage, mails, ledger>>
    \/ ModifyAckDeadline(w) /\ UNCHANGED <<stage, mails, ledger>>
    \/ SenderAborts(w)

AxonNext ==
    \/ \E w \in Workers : Sender(w)
    \/ \E m \in Messages : LeaseExpires(m) /\ UNCHANGED <<stage, mails, ledger>>

-----------------------------------------------------------------------------
(* What the ledger may be believed to say. *)

\* A request that left the queue by acknowledgement has its row, whatever was lost,
\* repeated or aborted on the way.
AckedIsRecorded ==
    \A m \in Messages :
      (msg[m] = "acked" \/ \E w \in Workers : m \in acks[w]) => ledger[m] # None

\* "accepted" is never recorded for a mail the provider did not take, and no
\* delivery of the message mails more than once.
AcceptedWasMailed ==
    \A m \in Messages :
      /\ ledger[m] = "accepted" => mails[m] > 0
      /\ mails[m] <= attempts[m]

\* What no adapter can serve is never recorded nor acknowledged.
UndeliverableIsLeft ==
    \A m \in Messages \ Deliverable : ledger[m] = None /\ mails[m] = 0 /\ msg[m] # "acked"
=============================================================================
