--------------------------- MODULE RabbitmqProofs ---------------------------
(***************************************************************************)
(* Theorems about Rabbitmq, for any queues and messages, any number of     *)
(* calls, of lost connections and of refusals of the broker.               *)
(***************************************************************************)
EXTENDS Rabbitmq, TLAPS

-----------------------------------------------------------------------------
(* The inductive invariant.                                                *)

StateTypes ==
  /\ connectionReady \in BOOLEAN /\ up \in BOOLEAN /\ refused \in BOOLEAN
  /\ subscribedQueues \in SUBSET Queue /\ declared \in SUBSET Queue
  /\ waiting \in [Queue -> Nat] /\ setups \in [Queue -> Nat]
  /\ toAssert \in [Queue -> Nat] /\ toConsume \in [Queue -> Nat]
  /\ consumers \in [Queue -> Nat]
  /\ running \in [Message -> Nat] /\ late \in [Message -> Nat]
  /\ ready \in [Message -> Nat] /\ unacked \in [Message -> Nat]
  /\ published \in [Message -> {"no", "buffered", "sent", "confirmed", "lost"}]
  /\ calls \in [Queue -> 0 .. MaxCalls] /\ drops \in 0 .. MaxDrops
  /\ refusals \in 0 .. MaxRefusals
  /\ unsubscribed \in [Queue -> Nat] /\ cancelled \in [Queue -> Nat]
  /\ routed \in SUBSET Message /\ ended \in SUBSET Message

\* Each setup, each subscriber that still waits and each unsubscription comes
\* from a call of its own.
CallsAccountFor ==
  \A q \in Queue : waiting[q] + setups[q] + unsubscribed[q] <= calls[q]

\* The setups the wrapper keeps: one for a subscribed queue, and at most one
\* that is left over for each unsubscription.
SetupsOfSubscriptions ==
  \A q \in Queue :
    LET expected == IF q \in subscribedQueues THEN 1 ELSE 0 IN
    /\ setups[q] <= expected + unsubscribed[q]
    /\ unsubscribed[q] = 0 => setups[q] = expected

\* An open channel has every setup at one of its three stages, or its consumer
\* has been cancelled; a closed one has none of them.
SetupsOnChannel ==
  \A q \in Queue :
    IF up THEN toAssert[q] + toConsume[q] + consumers[q] + cancelled[q] = setups[q]
    ELSE toAssert[q] = 0 /\ toConsume[q] = 0 /\ consumers[q] = 0 /\ cancelled[q] = 0

\* A handler at work for the open channel has the copy it will acknowledge; and
\* each copy is of another attempt to publish, of which there is one for each
\* channel that has closed but the first.
CopiesOfMessages ==
  \A m \in Message :
    /\ running[m] = unacked[m]
    /\ ready[m] + unacked[m] + (IF published[m] = "buffered" THEN 1 ELSE 0) <= drops + refusals + 1
    /\ published[m] = "no" => ready[m] + unacked[m] = 0

\* A message that reached a queue has a copy until a handler of it ends.
CopiesAreKept == \A m \in routed \ ended : ready[m] + unacked[m] > 0

RabbitInv ==
  /\ StateTypes
  /\ CallsAccountFor /\ SetupsOfSubscriptions /\ SetupsOnChannel
  /\ CopiesOfMessages /\ CopiesAreKept

LEMMA NoneIsNone ==
  ASSUME NEW S
  PROVE  NoneOf(S) \in [S -> {0}] /\ \A x \in S : NoneOf(S)[x] = 0
BY DEF NoneOf

LEMMA InitRabbitInv == Init => RabbitInv
<1> SUFFICES ASSUME Init PROVE RabbitInv
  OBVIOUS
<1>1. 0 \in Nat /\ 0 \in 0 .. MaxCalls /\ 0 \in 0 .. MaxDrops /\ 0 \in 0 .. MaxRefusals
  BY RabbitmqAssumption
<1>2. StateTypes
  <2>1. NoneOf(Queue) \in [Queue -> Nat] /\ NoneOf(Queue) \in [Queue -> 0 .. MaxCalls]
    BY <1>1, NoneIsNone
  <2>2. NoneOf(Message) \in [Message -> Nat]
    BY <1>1, NoneIsNone
  <2> QED
    BY <1>1, <2>1, <2>2 DEF Init, StateTypes
<1>3. CallsAccountFor /\ SetupsOfSubscriptions /\ SetupsOnChannel
  BY NoneIsNone DEF Init, CallsAccountFor, SetupsOfSubscriptions, SetupsOnChannel
<1>4. CopiesOfMessages /\ CopiesAreKept
  BY NoneIsNone DEF Init, CopiesOfMessages, CopiesAreKept
<1> QED
  BY <1>2, <1>3, <1>4 DEF RabbitInv

-----------------------------------------------------------------------------
(* Subscriptions and setups: the messages are left alone.                  *)

QueueInv == CallsAccountFor /\ SetupsOfSubscriptions /\ SetupsOnChannel
MessageInv == CopiesOfMessages /\ CopiesAreKept

LEMMA MessagesLeftAlone ==
  ASSUME RabbitInv, UNCHANGED <<running, published, ready, unacked, drops, refusals, routed, ended>>
  PROVE  MessageInv'
BY DEF RabbitInv, MessageInv, CopiesOfMessages, CopiesAreKept

LEMMA QueuesLeftAlone ==
  ASSUME RabbitInv,
         UNCHANGED <<waiting, subscribedQueues, up, setups, toAssert, toConsume, consumers,
                     calls, unsubscribed, cancelled>>
  PROVE  QueueInv'
BY DEF RabbitInv, QueueInv, CallsAccountFor, SetupsOfSubscriptions, SetupsOnChannel

LEMMA SubscribeToQueueKeeps ==
  ASSUME RabbitInv, NEW q \in Queue, SubscribeToQueue(q)
  PROVE  RabbitInv'
<1>1. calls' = [calls EXCEPT ![q] = @ + 1] /\ waiting' = [waiting EXCEPT ![q] = @ + 1]
  BY DEF SubscribeToQueue
<1>2. UNCHANGED <<connectionReady, subscribedQueues, running, late, wrapperVars, brokerVars,
                  drops, refusals, unsubscribed, routed, ended, cancelled>>
  BY DEF SubscribeToQueue
<1>3. StateTypes'
  BY <1>1, <1>2, RabbitmqAssumption
     DEF SubscribeToQueue, RabbitInv, StateTypes, wrapperVars, brokerVars
<1>4. CallsAccountFor'
  BY <1>1, <1>2 DEF RabbitInv, StateTypes, CallsAccountFor, wrapperVars
<1>5. SetupsOfSubscriptions' /\ SetupsOnChannel'
  BY <1>2 DEF RabbitInv, SetupsOfSubscriptions, SetupsOnChannel, wrapperVars, brokerVars
<1>6. MessageInv'
  BY <1>2, MessagesLeftAlone DEF wrapperVars, brokerVars
<1> QED
  BY <1>3, <1>4, <1>5, <1>6 DEF RabbitInv, MessageInv

LEMMA SubscribeKeeps ==
  ASSUME RabbitInv, NEW q \in Queue, Subscribe(q)
  PROVE  RabbitInv'
<1> DEFINE added == IF q \in subscribedQueues THEN 0 ELSE 1
<1>1. /\ waiting' = [waiting EXCEPT ![q] = @ - 1] /\ waiting[q] > 0
      /\ subscribedQueues' = subscribedQueues \cup {q}
      /\ setups' = [setups EXCEPT ![q] = @ + added]
      /\ toAssert' = [toAssert EXCEPT ![q] = IF up THEN @ + added ELSE @]
  BY DEF Subscribe, Accepts
<1>2. UNCHANGED <<connectionReady, running, late, up, refused, toConsume, published, brokerVars,
                  history>>
  BY DEF Subscribe
<1>3. added \in {0, 1} /\ (added = 1 <=> q \notin subscribedQueues)
  OBVIOUS
<1> HIDE DEF added
<1>4. StateTypes'
  BY <1>1, <1>2, <1>3 DEF RabbitInv, StateTypes, brokerVars, history, bounds
<1>5. CallsAccountFor'
  BY <1>1, <1>2, <1>3 DEF RabbitInv, StateTypes, CallsAccountFor, history, bounds
<1>6. SetupsOfSubscriptions'
  BY <1>1, <1>2, <1>3 DEF RabbitInv, StateTypes, SetupsOfSubscriptions, history, bounds
<1>7. SetupsOnChannel'
  BY <1>1, <1>2, <1>3 DEF RabbitInv, StateTypes, SetupsOnChannel, brokerVars,
     history, bounds
<1>8. MessageInv'
  BY <1>2, MessagesLeftAlone DEF brokerVars, history, bounds
<1> QED
  BY <1>4, <1>5, <1>6, <1>7, <1>8 DEF RabbitInv, MessageInv

LEMMA UnsubscribeKeeps ==
  ASSUME RabbitInv, NEW q \in Queue, UnsubscribeFromQueue(q)
  PROVE  RabbitInv'
<1>1. /\ calls' = [calls EXCEPT ![q] = @ + 1] /\ calls[q] < MaxCalls
      /\ subscribedQueues' = subscribedQueues \ {q} /\ q \in subscribedQueues
      /\ unsubscribed' = [unsubscribed EXCEPT ![q] = @ + 1]
  BY DEF UnsubscribeFromQueue
<1>2. UNCHANGED <<connectionReady, waiting, running, late, wrapperVars, brokerVars,
                  drops, refusals, routed, ended, cancelled>>
  BY DEF UnsubscribeFromQueue
<1>3. StateTypes'
  BY <1>1, <1>2, RabbitmqAssumption DEF RabbitInv, StateTypes, wrapperVars, brokerVars
<1>4. CallsAccountFor'
  BY <1>1, <1>2 DEF RabbitInv, StateTypes, CallsAccountFor, wrapperVars
<1>5. SetupsOfSubscriptions' /\ SetupsOnChannel'
  BY <1>1, <1>2
     DEF RabbitInv, StateTypes, SetupsOfSubscriptions, SetupsOnChannel, wrapperVars, brokerVars
<1>6. MessageInv'
  BY <1>2, MessagesLeftAlone DEF wrapperVars, brokerVars
<1> QED
  BY <1>3, <1>4, <1>5, <1>6 DEF RabbitInv, MessageInv

\* assertQueue and consume move a setup of the open channel to its next stage,
\* and a cancelled consumer is still counted.
LEMMA SetupKeeps ==
  ASSUME RabbitInv, NEW q \in Queue, AssertQueue(q) \/ Consume(q) \/ ConsumerCancelled(q)
  PROVE  RabbitInv'
<1>1. /\ UNCHANGED <<serviceVars, up, refused, setups, published, ready, unacked, calls, drops,
                     unsubscribed, routed, ended>>
      /\ refusals' \in 0 .. MaxRefusals /\ refusals' >= refusals
  BY RabbitmqAssumption
     DEF AssertQueue, Consume, ConsumerCancelled, wrapperVars, history, bounds, RabbitInv,
         StateTypes
<1>2. StateTypes' /\ SetupsOnChannel'
  <2>1. CASE AssertQueue(q)
    BY <1>1, <2>1
       DEF AssertQueue, RabbitInv, StateTypes, SetupsOnChannel, serviceVars, history, bounds
  <2>2. CASE Consume(q)
    BY <1>1, <2>2 DEF Consume, RabbitInv, StateTypes, SetupsOnChannel, serviceVars, history, bounds
  <2>3. CASE ConsumerCancelled(q)
    BY <1>1, <2>3
       DEF ConsumerCancelled, RabbitInv, StateTypes, SetupsOnChannel, serviceVars, wrapperVars
  <2> QED
    BY <2>1, <2>2, <2>3
<1>3. CallsAccountFor' /\ SetupsOfSubscriptions'
  BY <1>1 DEF RabbitInv, CallsAccountFor, SetupsOfSubscriptions, serviceVars
<1>4. CopiesOfMessages' /\ CopiesAreKept'
  BY <1>1 DEF RabbitInv, StateTypes, CopiesOfMessages, CopiesAreKept, serviceVars
<1> QED
  BY <1>2, <1>3, <1>4 DEF RabbitInv

-----------------------------------------------------------------------------
(* Messages: the queues are left alone.                                    *)

LEMMA PublicationKeeps ==
  ASSUME RabbitInv, NEW m \in Message, PublishToQueue(m) \/ Send(m) \/ Confirm(m)
  PROVE  RabbitInv'
<1>1. QueueInv'
  BY QueuesLeftAlone
     DEF PublishToQueue, Send, Confirm, serviceVars, wrapperVars, brokerVars, history, bounds
<1>2. CASE PublishToQueue(m)
  BY <1>1, <1>2
     DEF PublishToQueue, RabbitInv, QueueInv, StateTypes, CopiesOfMessages, CopiesAreKept,
         serviceVars, brokerVars, history, bounds
<1>3. CASE Send(m)
  <2>1. StateTypes'
    BY <1>3 DEF Send, RabbitInv, StateTypes, serviceVars, bounds
  <2>2. CopiesOfMessages' /\ CopiesAreKept'
    BY <1>3 DEF Send, RabbitInv, StateTypes, CopiesOfMessages, CopiesAreKept,
       serviceVars, bounds
  <2> QED
    BY <1>1, <2>1, <2>2 DEF RabbitInv, QueueInv
<1>4. CASE Confirm(m)
  BY <1>1, <1>4
     DEF Confirm, RabbitInv, QueueInv, StateTypes, CopiesOfMessages, CopiesAreKept,
         serviceVars, brokerVars, history, bounds
<1> QED
  BY <1>2, <1>3, <1>4

LEMMA DeliverKeeps ==
  ASSUME RabbitInv, NEW m \in Message, Deliver(m)
  PROVE  RabbitInv'
<1>1. QueueInv'
  BY QueuesLeftAlone DEF Deliver, wrapperVars, history, bounds
<1>2. StateTypes'
  BY DEF Deliver, AwaitsAck, RabbitInv, StateTypes, wrapperVars, history, bounds
<1>3. CopiesOfMessages' /\ CopiesAreKept'
  BY DEF Deliver, AwaitsAck, RabbitInv, StateTypes, CopiesOfMessages, CopiesAreKept,
         wrapperVars, history, bounds
<1> QED
  BY <1>1, <1>2, <1>3 DEF RabbitInv, QueueInv

LEMMA HandlerEndsKeeps ==
  ASSUME RabbitInv, NEW m \in Message, HandlerEnds(m)
  PROVE  RabbitInv'
<1>1. QueueInv'
  BY QueuesLeftAlone DEF HandlerEnds, wrapperVars, bounds
<1>2. StateTypes'
  BY DEF HandlerEnds, RabbitInv, StateTypes, CopiesOfMessages, wrapperVars, bounds
<1>3. CopiesOfMessages' /\ CopiesAreKept'
  BY DEF HandlerEnds, RabbitInv, StateTypes, CopiesOfMessages, CopiesAreKept, wrapperVars,
         bounds
<1> QED
  BY <1>1, <1>2, <1>3 DEF RabbitInv, QueueInv

-----------------------------------------------------------------------------
(* Connections.                                                            *)

LEMMA ConnectKeeps ==
  ASSUME RabbitInv, Connect
  PROVE  RabbitInv'
<1>1. ~up /\ up' /\ connectionReady' /\ toAssert' = setups
  BY DEF Connect, SetupsToRun
<1>2. UNCHANGED <<waiting, subscribedQueues, running, late, refused, setups, toConsume,
                  published, brokerVars, history>>
  BY DEF Connect
<1>3. StateTypes' /\ SetupsOnChannel'
  BY <1>1, <1>2 DEF Connect, RabbitInv, StateTypes, SetupsOnChannel, brokerVars, history, bounds
<1>4. CallsAccountFor' /\ SetupsOfSubscriptions'
  BY <1>2 DEF RabbitInv, CallsAccountFor, SetupsOfSubscriptions, history, bounds
<1>5. MessageInv'
  BY <1>2, MessagesLeftAlone DEF brokerVars, history, bounds
<1> QED
  BY <1>3, <1>4, <1>5 DEF RabbitInv, MessageInv

\* A channel that closes takes its consumers with it, and its copies wait in their
\* queues; what this does to the publications, and a process that ends.
LEMMA ChannelClosesKeeps ==
  ASSUME RabbitInv, ChannelCloses, running' = NoneOf(Message),
         drops' \in 0 .. MaxDrops, drops' >= drops,
         refusals' \in 0 .. MaxRefusals, refusals' >= refusals, refused' \in BOOLEAN,
         late' \in [Message -> Nat], connectionReady' \in BOOLEAN,
         ended' \in SUBSET Message, ended \subseteq ended',
         \/ UNCHANGED <<waiting, subscribedQueues, setups>>
         \/ waiting' = NoneOf(Queue) /\ subscribedQueues' = {} /\ setups' = NoneOf(Queue),
         published' \in [Message -> {"no", "buffered", "sent", "confirmed", "lost"}],
         \A m \in Message :
           /\ published'[m] = "no" <=> published[m] = "no"
           /\ published'[m] = "buffered" =>
                published[m] = "buffered" \/ drops' + refusals' > drops + refusals
  PROVE  RabbitInv'
<1>1. StateTypes'
  <2>1. /\ toAssert' \in [Queue -> Nat] /\ toConsume' \in [Queue -> Nat]
        /\ consumers' \in [Queue -> Nat] /\ cancelled' \in [Queue -> Nat]
        /\ running' \in [Message -> Nat] /\ unacked' \in [Message -> Nat]
    BY NoneIsNone DEF ChannelCloses
  <2>2. waiting' \in [Queue -> Nat] /\ setups' \in [Queue -> Nat]
    BY NoneIsNone DEF RabbitInv, StateTypes
  <2>3. ready' \in [Message -> Nat]
    BY DEF ChannelCloses, RabbitInv, StateTypes
  <2> QED
    BY <2>1, <2>2, <2>3 DEF ChannelCloses, RabbitInv, StateTypes
<1>2. CallsAccountFor' /\ SetupsOfSubscriptions' /\ SetupsOnChannel'
  BY DEF ChannelCloses, NoneOf, RabbitInv, StateTypes, CallsAccountFor, SetupsOfSubscriptions,
         SetupsOnChannel
<1>3. ASSUME NEW m \in Message
      PROVE  ready'[m] = ready[m] + unacked[m] /\ unacked'[m] = 0 /\ running'[m] = 0
  BY DEF ChannelCloses, NoneOf
<1>4. CopiesOfMessages'
  BY <1>3 DEF RabbitInv, StateTypes, CopiesOfMessages
<1>5. CopiesAreKept'
  BY <1>3 DEF ChannelCloses, RabbitInv, StateTypes, CopiesAreKept
<1> QED
  BY <1>1, <1>2, <1>4, <1>5 DEF RabbitInv

\* The service goes on without the channel, whoever closed it.
LEMMA ServiceGoesOnKeeps ==
  ASSUME RabbitInv, Disconnect \/ \E q \in Queue : SetupRefused(q)
  PROVE  RabbitInv'
<1>1. ChannelCloses /\ ServiceGoesOn /\ refused' \in BOOLEAN
  BY DEF Disconnect, SetupRefused
<1>2. /\ drops' \in 0 .. MaxDrops /\ drops' >= drops
      /\ refusals' \in 0 .. MaxRefusals /\ refusals' >= refusals
      /\ drops' + refusals' > drops + refusals
  BY RabbitmqAssumption DEF Disconnect, SetupRefused, RabbitInv, StateTypes
<1>3. late' \in [Message -> Nat] /\ running' = NoneOf(Message)
  BY <1>1 DEF ServiceGoesOn, RabbitInv, StateTypes
<1>4. /\ published' \in [Message -> {"no", "buffered", "sent", "confirmed", "lost"}]
      /\ \A m \in Message : published'[m] = "no" <=> published[m] = "no"
  BY <1>1 DEF ServiceGoesOn, RabbitInv, StateTypes
<1>5. /\ UNCHANGED <<waiting, subscribedQueues, setups>>
      /\ connectionReady' \in BOOLEAN /\ ended' = ended /\ ended \in SUBSET Message
  BY <1>1 DEF ServiceGoesOn, RabbitInv, StateTypes
<1> QED
  BY <1>1, <1>2, <1>3, <1>4, <1>5, ChannelClosesKeeps

\* A process that ends forgets its subscriptions and what it had to publish.
LEMMA ProcessEndsKeeps ==
  ASSUME RabbitInv, ProcessEnds, drops' \in 0 .. MaxDrops, drops' >= drops,
         ended' \in SUBSET Message, ended \subseteq ended'
  PROVE  RabbitInv'
<1>1. late' \in [Message -> Nat] /\ running' = NoneOf(Message) /\ ChannelCloses
  BY DEF ProcessEnds, NoneOf
<1>2. /\ published' \in [Message -> {"no", "buffered", "sent", "confirmed", "lost"}]
      /\ \A m \in Message : published'[m] = "no" <=> published[m] = "no"
      /\ \A m \in Message : published'[m] # "buffered"
  BY DEF ProcessEnds, RabbitInv, StateTypes
<1>3. /\ waiting' = NoneOf(Queue) /\ subscribedQueues' = {} /\ setups' = NoneOf(Queue)
      /\ connectionReady' \in BOOLEAN /\ refused' \in BOOLEAN
  BY DEF ProcessEnds
<1>4. refusals' \in 0 .. MaxRefusals /\ refusals' >= refusals
  BY RabbitmqAssumption DEF ProcessEnds, RabbitInv, StateTypes
<1> QED
  BY <1>1, <1>2, <1>3, <1>4, ChannelClosesKeeps

LEMMA NextRabbitInv == RabbitInv /\ [Next]_vars => RabbitInv'
<1> SUFFICES ASSUME RabbitInv, [Next]_vars PROVE RabbitInv'
  OBVIOUS
<1>1. ASSUME NEW q \in Queue,
             SubscribeToQueue(q) \/ UnsubscribeFromQueue(q) \/ ServiceStep(q)
      PROVE  RabbitInv'
  BY <1>1, SubscribeToQueueKeeps, SubscribeKeeps, UnsubscribeKeeps, SetupKeeps,
     ServiceGoesOnKeeps DEF ServiceStep
<1>2. ASSUME NEW m \in Message, LateHandlerEnds(m) PROVE RabbitInv'
  <2>1. ProcessEnds /\ drops' = drops /\ ended' = ended \cup {m}
    BY <1>2 DEF LateHandlerEnds
  <2> QED
    BY <2>1, ProcessEndsKeeps DEF RabbitInv, StateTypes
<1>3. ASSUME NEW m \in Message, PublishToQueue(m) \/ MessageStep(m) PROVE RabbitInv'
  BY <1>2, <1>3, PublicationKeeps, DeliverKeeps, HandlerEndsKeeps DEF MessageStep
<1>4. CASE Restart
  <2>1. ProcessEnds /\ ended' = ended
    BY <1>4 DEF Restart
  <2>2. drops' \in 0 .. MaxDrops /\ drops' >= drops
    BY <1>4, RabbitmqAssumption DEF Restart, RabbitInv, StateTypes
  <2> QED
    BY <2>1, <2>2, ProcessEndsKeeps DEF RabbitInv, StateTypes
<1>5. CASE UNCHANGED vars
  <2>1. StateTypes'
    BY <1>5 DEF vars, serviceVars, wrapperVars, brokerVars, history, bounds, RabbitInv,
       StateTypes
  <2>2. QueueInv' /\ MessageInv'
    BY <1>5, QueuesLeftAlone, MessagesLeftAlone
       DEF vars, serviceVars, wrapperVars, brokerVars, history, bounds
  <2> QED
    BY <2>1, <2>2 DEF RabbitInv, QueueInv, MessageInv
<1> QED
  BY <1>1, <1>3, <1>4, <1>5, ConnectKeeps, ServiceGoesOnKeeps DEF Next

THEOREM RabbitInvariance == Spec => []RabbitInv
BY InitRabbitInv, NextRabbitInv, PTL DEF Spec

-----------------------------------------------------------------------------

\* The state of the service, the wrapper and the broker has its type for any
\* number of calls, lost connections and refusals.
THEOREM RabbitmqTypeCorrect == Spec => []RabbitmqTypeOK
<1>1. RabbitInv => RabbitmqTypeOK
  <2> SUFFICES ASSUME RabbitInv PROVE RabbitmqTypeOK
    OBVIOUS
  <2>1. ASSUME NEW q \in Queue
        PROVE  /\ waiting[q] \in 0 .. MaxCalls /\ setups[q] \in 0 .. MaxCalls
               /\ unsubscribed[q] \in 0 .. MaxCalls /\ toAssert[q] \in 0 .. MaxCalls
               /\ toConsume[q] \in 0 .. MaxCalls /\ consumers[q] \in 0 .. MaxCalls
               /\ cancelled[q] \in 0 .. MaxCalls
    BY RabbitmqAssumption DEF RabbitInv, StateTypes, CallsAccountFor, SetupsOnChannel
  <2>2. ASSUME NEW m \in Message
        PROVE  /\ running[m] \in 0 .. MaxDrops + MaxRefusals + 1
               /\ ready[m] \in 0 .. MaxDrops + MaxRefusals + 1
               /\ unacked[m] \in 0 .. MaxDrops + MaxRefusals + 1
    BY RabbitmqAssumption DEF RabbitInv, StateTypes, CopiesOfMessages
  <2>3. /\ waiting \in [Queue -> 0 .. MaxCalls] /\ setups \in [Queue -> 0 .. MaxCalls]
        /\ toAssert \in [Queue -> 0 .. MaxCalls] /\ toConsume \in [Queue -> 0 .. MaxCalls]
        /\ consumers \in [Queue -> 0 .. MaxCalls] /\ unsubscribed \in [Queue -> 0 .. MaxCalls]
        /\ cancelled \in [Queue -> 0 .. MaxCalls]
    BY <2>1 DEF RabbitInv, StateTypes
  <2>4. /\ running \in [Message -> 0 .. MaxDrops + MaxRefusals + 1]
        /\ ready \in [Message -> 0 .. MaxDrops + MaxRefusals + 1]
        /\ unacked \in [Message -> 0 .. MaxDrops + MaxRefusals + 1]
    BY <2>2 DEF RabbitInv, StateTypes
  <2> QED
    BY <2>3, <2>4 DEF RabbitInv, StateTypes, RabbitmqTypeOK
<1> QED
  BY <1>1, RabbitInvariance, PTL

\* However many calls subscribe to a queue at once and however often the
\* connection is lost or a setup refused: one consumer for a subscribed queue, and
\* at most one more for each time it was unsubscribed, less those the broker has
\* cancelled on the channel.
THEOREM OneConsumer == Spec => []OneConsumerEach
<1>1. RabbitInv => OneConsumerEach
  BY DEF RabbitInv, SetupsOfSubscriptions, SetupsOnChannel, OneConsumerEach
<1> QED
  BY <1>1, RabbitInvariance, PTL

\* A message the broker has confirmed is in its queue or with a handler until a
\* handler of it has ended, through any lost or refused channels and restarts.
THEOREM MessagesAreKept == Spec => []NoMessageLost
<1>1. RabbitInv => NoMessageLost
  BY DEF RabbitInv, CopiesAreKept, NoMessageLost
<1> QED
  BY <1>1, RabbitInvariance, PTL
=============================================================================
