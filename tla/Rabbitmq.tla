------------------------------ MODULE Rabbitmq ------------------------------
(***************************************************************************)
(* RabbitmqService (src/common/rabbitmq.service.ts): subscriptions to      *)
(* queues that outlive reconnections, and messages acknowledged after      *)
(* their handler.                                                          *)
(*                                                                         *)
(* The channel wrapper of amqp-connection-manager keeps the setups it was  *)
(* given and runs them on every new channel, and keeps the messages to     *)
(* publish until the broker confirms them.  A channel that closes takes    *)
(* its consumers with it: the broker puts what they had not acknowledged   *)
(* back into the queue, while the handlers that were running go on.  The   *)
(* broker closes a channel on which it refuses something, and the wrapper  *)
(* opens the next one only when it has connected again.  The library and   *)
(* the broker are external, modelled from how the service uses them.       *)
(***************************************************************************)
EXTENDS Integers, FiniteSets

CONSTANTS
  Queue,
  Message,     \* the messages clients publish, each once
  QueueOf,     \* QueueOf[m]: the queue m is published to
  MaxCalls,    \* bound: subscribe and unsubscribe calls of one queue
  MaxDrops,    \* bound: lost connections and restarts
  MaxRefusals  \* bound: refused setups and cancelled consumers

ASSUME RabbitmqAssumption ==
  QueueOf \in [Message -> Queue] /\ MaxCalls \in Nat /\ MaxDrops \in Nat /\ MaxRefusals \in Nat

VARIABLES
  \* the service
  connectionReady,     \* the promise subscribers wait for is resolved
  waiting,             \* waiting[q]: subscribe calls that wait for it
  subscribedQueues,    \* the keys of the map of handlers
  running,             \* running[m]: handlers of m at work for the open channel
  late,                \* late[m]: handlers of m whose channel has closed
  \* the channel wrapper
  up,                  \* there is an open channel
  refused,             \* there is none because the broker closed it: it is still connected
  setups,              \* setups[q]: setups it keeps for q
  toAssert, toConsume, \* those of the open channel before assertQueue, before consume
  published,           \* published[m]: what became of the publication of m
  \* the broker
  declared,            \* the queues that exist
  consumers,           \* consumers[q]: the consumers of q on the open channel
  ready,               \* ready[m]: copies of m that wait in its queue
  unacked,             \* unacked[m]: copies delivered and not acknowledged
  \* bounds and history
  calls, drops, refusals, unsubscribed, routed, ended,
  cancelled            \* cancelled[q]: consumers of q the broker took from the open channel

serviceVars == <<connectionReady, waiting, subscribedQueues, running, late>>
wrapperVars == <<up, refused, setups, toAssert, toConsume, published>>
brokerVars  == <<declared, consumers, ready, unacked>>
bounds      == <<calls, drops, refusals>>
history     == <<bounds, unsubscribed, routed, ended, cancelled>>
vars == <<serviceVars, wrapperVars, brokerVars, history>>

RabbitmqTypeOK ==
  /\ connectionReady \in BOOLEAN /\ up \in BOOLEAN /\ refused \in BOOLEAN
  /\ subscribedQueues \subseteq Queue /\ declared \subseteq Queue
  /\ {waiting, setups, toAssert, toConsume, consumers, cancelled} \subseteq [Queue -> 0 .. MaxCalls]
  /\ {running, ready, unacked} \subseteq [Message -> 0 .. MaxDrops + MaxRefusals + 1]
  /\ late \in [Message -> Nat]
  /\ published \in [Message -> {"no", "buffered", "sent", "confirmed", "lost"}]
  /\ calls \in [Queue -> 0 .. MaxCalls] /\ drops \in 0 .. MaxDrops /\ refusals \in 0 .. MaxRefusals
  /\ unsubscribed \in [Queue -> 0 .. MaxCalls]
  /\ routed \subseteq Message /\ ended \subseteq Message

NoneOf(S) == [x \in S |-> 0]

Init ==
  /\ connectionReady = FALSE /\ up = FALSE /\ refused = FALSE
  /\ subscribedQueues = {} /\ declared = {}
  /\ waiting = NoneOf(Queue) /\ setups = NoneOf(Queue)
  /\ toAssert = NoneOf(Queue) /\ toConsume = NoneOf(Queue) /\ consumers = NoneOf(Queue)
  /\ running = NoneOf(Message) /\ late = NoneOf(Message)
  /\ ready = NoneOf(Message) /\ unacked = NoneOf(Message)
  /\ published = [m \in Message |-> "no"]
  /\ calls = NoneOf(Queue) /\ drops = 0 /\ refusals = 0
  /\ unsubscribed = NoneOf(Queue) /\ cancelled = NoneOf(Queue)
  /\ routed = {} /\ ended = {}

-----------------------------------------------------------------------------
(* Subscriptions.                                                          *)

\* subscribeToQueue, up to its await of connectionReady.
SubscribeToQueue(q) ==
  /\ calls[q] < MaxCalls
  /\ calls' = [calls EXCEPT ![q] = @ + 1]
  /\ waiting' = [waiting EXCEPT ![q] = @ + 1]
  /\ UNCHANGED <<connectionReady, subscribedQueues, running, late, wrapperVars, brokerVars,
                 drops, refusals, unsubscribed, routed, ended, cancelled>>

\* Mutant: the check is not made again after the await.
AcceptsAlways(q) == TRUE

\* The check is made after the await, with the set, before anything else runs.
Accepts(q) == q \notin subscribedQueues

\* The rest of it: has, set and addSetup, which keeps the setup and runs it at
\* once when there is a channel.  Its error path is never taken: the setup
\* catches its own errors.
Subscribe(q) ==
  LET added == IF Accepts(q) THEN 1 ELSE 0 IN
  /\ connectionReady /\ waiting[q] > 0
  /\ waiting' = [waiting EXCEPT ![q] = @ - 1]
  /\ subscribedQueues' = subscribedQueues \cup {q}
  /\ setups' = [setups EXCEPT ![q] = @ + added]
  /\ toAssert' = [toAssert EXCEPT ![q] = IF up THEN @ + added ELSE @]
  /\ UNCHANGED <<connectionReady, running, late, up, refused, toConsume, published, brokerVars,
                 history>>

\* The handler leaves the map; the setup and the consumers stay.
UnsubscribeFromQueue(q) ==
  /\ q \in subscribedQueues /\ calls[q] < MaxCalls
  /\ calls' = [calls EXCEPT ![q] = @ + 1]
  /\ subscribedQueues' = subscribedQueues \ {q}
  /\ unsubscribed' = [unsubscribed EXCEPT ![q] = @ + 1]
  /\ UNCHANGED <<connectionReady, waiting, running, late, wrapperVars, brokerVars,
                 drops, refusals, routed, ended, cancelled>>

\* setupQueueConsumer: assertQueue, then consume; the broker accepts them here.
AssertQueue(q) ==
  /\ toAssert[q] > 0
  /\ declared' = declared \cup {q}
  /\ toAssert' = [toAssert EXCEPT ![q] = @ - 1]
  /\ toConsume' = [toConsume EXCEPT ![q] = @ + 1]
  /\ UNCHANGED <<serviceVars, up, refused, setups, published, consumers, ready, unacked, history>>

Consume(q) ==
  /\ toConsume[q] > 0
  /\ toConsume' = [toConsume EXCEPT ![q] = @ - 1]
  /\ consumers' = [consumers EXCEPT ![q] = @ + 1]
  /\ UNCHANGED <<serviceVars, up, refused, setups, toAssert, published, declared, ready, unacked,
                 history>>

\* The broker cancels a consumer: its callback gets null, and does nothing.
ConsumerCancelled(q) ==
  /\ consumers[q] > 0 /\ refusals < MaxRefusals
  /\ refusals' = refusals + 1
  /\ consumers' = [consumers EXCEPT ![q] = @ - 1]
  /\ cancelled' = [cancelled EXCEPT ![q] = @ + 1]
  /\ UNCHANGED <<serviceVars, wrapperVars, declared, ready, unacked, calls, drops,
                 unsubscribed, routed, ended>>

-----------------------------------------------------------------------------
(* Messages.                                                               *)

PublishToQueue(m) ==
  /\ published[m] = "no"
  /\ published' = [published EXCEPT ![m] = "buffered"]
  /\ UNCHANGED <<serviceVars, up, refused, setups, toAssert, toConsume, brokerVars,
                 history>>

\* The wrapper sends when there is a channel.  publishToQueue declares nothing:
\* what is sent to a queue that does not exist is dropped, and confirmed.
Send(m) ==
  /\ up /\ published[m] = "buffered"
  /\ published' = [published EXCEPT ![m] = "sent"]
  /\ IF QueueOf[m] \in declared
     THEN ready' = [ready EXCEPT ![m] = @ + 1] /\ routed' = routed \cup {m}
     ELSE UNCHANGED <<ready, routed>>
  /\ UNCHANGED <<serviceVars, up, refused, setups, toAssert, toConsume, declared, consumers,
                 unacked, bounds, unsubscribed, ended, cancelled>>

Confirm(m) ==
  /\ up /\ published[m] = "sent"
  /\ published' = [published EXCEPT ![m] = "confirmed"]
  /\ UNCHANGED <<serviceVars, up, refused, setups, toAssert, toConsume, brokerVars,
                 history>>

\* Mutant: noAck, the broker forgets what it delivers.
AwaitsAckNever == 0

\* noAck false: the broker keeps what it delivers until it is acknowledged.
AwaitsAck == 1

\* The broker hands a message to a consumer, whose callback starts the handler.
Deliver(m) ==
  /\ ready[m] > 0 /\ consumers[QueueOf[m]] > 0
  /\ ready' = [ready EXCEPT ![m] = @ - 1]
  /\ unacked' = [unacked EXCEPT ![m] = @ + AwaitsAck]
  /\ running' = [running EXCEPT ![m] = @ + 1]
  /\ UNCHANGED <<connectionReady, waiting, subscribedQueues, late, wrapperVars,
                 declared, consumers, history>>

\* The handler is done and its message acknowledged; or it failed (as JSON.parse
\* may) and the message is rejected without going back to the queue.
HandlerEnds(m) ==
  /\ running[m] > 0
  /\ running' = [running EXCEPT ![m] = @ - 1]
  /\ unacked' = [unacked EXCEPT ![m] = @ - 1]
  /\ ended' = ended \cup {m}
  /\ UNCHANGED <<connectionReady, waiting, subscribedQueues, late, wrapperVars,
                 declared, consumers, ready, bounds, unsubscribed, routed, cancelled>>

-----------------------------------------------------------------------------
(* Connections.                                                            *)

\* Mutant: a setup that has run once is not run again.
SetupsOfFirst == IF connectionReady /\ drops > 0 THEN NoneOf(Queue) ELSE setups

\* What a new channel has to run.
SetupsToRun == setups

\* A channel opens: the first one resolves connectionReady.
Connect ==
  /\ ~up /\ ~refused
  /\ up' = TRUE /\ connectionReady' = TRUE
  /\ toAssert' = SetupsToRun
  /\ UNCHANGED <<waiting, subscribedQueues, running, late, refused, setups, toConsume,
                 published, brokerVars, history>>

\* The broker loses the channel and everything that belonged to it.
ChannelCloses ==
  /\ up' = FALSE
  /\ toAssert' = NoneOf(Queue) /\ toConsume' = NoneOf(Queue) /\ consumers' = NoneOf(Queue)
  /\ ready' = [m \in Message |-> ready[m] + unacked[m]]
  /\ unacked' = NoneOf(Message)
  /\ cancelled' = NoneOf(Queue)
  /\ UNCHANGED <<declared, calls, unsubscribed, routed>>

\* Setups under way fail and log it; what was not confirmed is sent again.
ServiceGoesOn ==
  /\ running' = NoneOf(Message)
  /\ late' = [m \in Message |-> late[m] + running[m]]
  /\ published' = [m \in Message |-> IF published[m] = "sent" THEN "buffered" ELSE published[m]]
  /\ UNCHANGED <<connectionReady, waiting, subscribedQueues, setups, ended>>

\* The broker refuses the assertQueue or the consume of a setup and closes the
\* channel.  The setup catches the error: its queue stays subscribed, with no
\* consumer, nor has any other queue one, until there is another channel.
SetupRefused(q) ==
  /\ toAssert[q] + toConsume[q] > 0 /\ refusals < MaxRefusals
  /\ refusals' = refusals + 1 /\ refused' = TRUE
  /\ ChannelCloses /\ ServiceGoesOn
  /\ UNCHANGED drops

\* The connection is lost, with the channel if there is one.
Disconnect ==
  /\ up \/ refused
  /\ drops < MaxDrops
  /\ drops' = drops + 1 /\ refused' = FALSE
  /\ ChannelCloses /\ ServiceGoesOn
  /\ UNCHANGED refusals

\* The process starts again: whoever subscribes has to do it again.
ProcessEnds ==
  /\ connectionReady' = FALSE /\ waiting' = NoneOf(Queue) /\ subscribedQueues' = {}
  /\ running' = NoneOf(Message) /\ late' = NoneOf(Message)
  /\ setups' = NoneOf(Queue) /\ refused' = FALSE
  /\ published' = [m \in Message |->
                     IF published[m] \in {"buffered", "sent"} THEN "lost" ELSE published[m]]
  /\ ChannelCloses
  /\ UNCHANGED refusals

Restart ==
  /\ drops < MaxDrops
  /\ drops' = drops + 1
  /\ ProcessEnds
  /\ UNCHANGED ended

\* A handler whose channel has closed is done: ack throws, and so does the nack
\* in its catch; nobody handles the rejection of the callback, which ends the
\* process.
LateHandlerEnds(m) ==
  /\ late[m] > 0
  /\ ProcessEnds
  /\ ended' = ended \cup {m}
  /\ UNCHANGED drops

-----------------------------------------------------------------------------

\* The promise of assertQueue or of consume is settled: kept or rejected.
AssertSettled(q)  == AssertQueue(q) \/ SetupRefused(q)
ConsumeSettled(q) == Consume(q) \/ SetupRefused(q)

ServiceStep(q) ==
  Subscribe(q) \/ AssertQueue(q) \/ Consume(q) \/ SetupRefused(q) \/ ConsumerCancelled(q)

MessageStep(m) == Send(m) \/ Confirm(m) \/ Deliver(m) \/ HandlerEnds(m) \/ LateHandlerEnds(m)

Next ==
  \/ \E q \in Queue : SubscribeToQueue(q) \/ UnsubscribeFromQueue(q) \/ ServiceStep(q)
  \/ \E m \in Message : PublishToQueue(m) \/ MessageStep(m)
  \/ Connect \/ Disconnect \/ Restart

Spec == Init /\ [][Next]_vars

\* The connection manager tries to connect again and again, its promises are
\* settled, kept or rejected, the broker delivers, and every handler ends.
\* Nothing makes clients call, or the connection fail, not even once the broker
\* has closed the channel.
Fairness ==
  /\ WF_vars(Connect)
  /\ \A q \in Queue : /\ WF_vars(Subscribe(q))
                      /\ WF_vars(AssertSettled(q)) /\ WF_vars(ConsumeSettled(q))
  /\ \A m \in Message : /\ WF_vars(Send(m)) /\ WF_vars(Confirm(m))
                        /\ WF_vars(Deliver(m)) /\ WF_vars(HandlerEnds(m))
                        /\ WF_vars(LateHandlerEnds(m))

FairSpec == Spec /\ Fairness

-----------------------------------------------------------------------------
(* Properties.                                                             *)

\* However many calls subscribe to a queue at once, and however often the
\* connection is lost or a setup refused while a setup runs: a channel that has run
\* its setups has one consumer for a subscribed queue that was never unsubscribed,
\* and one more for each time it was, except those the broker has cancelled on it
\* (EVITAR SUSCRIBIRSE MULTIPLES VECES A LA MISMA COLA).
OneConsumerEach ==
  \A q \in Queue :
    LET expected == IF q \in subscribedQueues THEN 1 ELSE 0 IN
    /\ setups[q] <= expected + unsubscribed[q]
    /\ up => toAssert[q] + toConsume[q] + consumers[q] + cancelled[q] = setups[q]
    /\ unsubscribed[q] = 0 => setups[q] = expected

\* A message the broker has confirmed, and whose queue existed, is never lost:
\* it is in the queue, or with a handler, or one of its handlers has ended.
NoMessageLost ==
  \A m \in routed \ ended : published[m] = "confirmed" => ready[m] + unacked[m] > 0

\* The broker has closed the channel over a setup, or cancelled a consumer of q,
\* and there has been no other channel since.
Deaf(q) == refused \/ cancelled[q] > 0

\* Once a queue is subscribed, each message in it is given to a handler that
\* ends, through any reconnections, unless the process ends first, or from some
\* time on the queue is deaf for ever: what the setup's catch swallows, or a null
\* message, is made good by the next channel and by nothing else.
EveryMessageHandled ==
  \A m \in Message :
    (ready[m] > 0 /\ QueueOf[m] \in subscribedQueues) ~>
      (m \in ended \/ QueueOf[m] \notin subscribedQueues \/ []Deaf(QueueOf[m]))
=============================================================================
