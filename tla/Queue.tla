------------------------------- MODULE Queue -------------------------------
(***************************************************************************)
(* One RabbitMQ queue of the relayer and every process that holds a        *)
(* relayer_base::queue::Queue on it (relayer_base/src/queue.rs), together  *)
(* with the delivery loop and the per-delivery tasks of its consumers      *)
(* (queue_consumer.rs, includer.rs, ingestor.rs, proof_retrier.rs).        *)
(*                                                                         *)
(* A process owns a bounded in-memory buffer, drained by one buffer        *)
(* processor; the broker owns the durable main, retry and dead-letter      *)
(* queues and the deliveries that are not acknowledged yet.  Queues are    *)
(* bags: with several tasks in flight, republication and redelivery, no    *)
(* order survives for a property to rely on.                               *)
(***************************************************************************)
EXTENDS Integers, Sequences, FiniteSets

CONSTANTS
    Items,        \* the QueueItems handed to publish(), each once
    Producers,    \* processes that only publish (a distributor, a subscriber)
    Consumers,    \* processes that consume (an includer, an ingestor)
    Misrouted,    \* items every worker here answers with IrrelevantTask
    Poison,       \* items whose processing always fails
    NumWorkers,   \* basic_qos prefetch count = deliveries unacked at a time
    BufferSize,   \* BUFFER_SIZE, the capacity of the mpsc channel
    MaxRetries,   \* MAX_RETRIES
    MaxFaults     \* bound on crashes, lost connections and lost operator acks

Procs == Producers \cup Consumers

Slots == Consumers \X (1..NumWorkers)

\* What the broker stores: the item and its x-retry-count header (an absent
\* header reads as 0; the count is a u16, far above MaxRetries + 1).
Msg == [item : Items, retry : 0..(MaxRetries + 1)]

None == [stage |-> "idle"]

\* A spawned delivery task.  live: the channel the delivery came in on is
\* still open, so the broker still counts the message as unacked.
Task == [stage : {"process", "ack", "force_ack", "republish", "reject",
                  "ack_republished"},
         msg : Msg, live : BOOLEAN]

ASSUME QueueAssumption ==
    /\ Misrouted \subseteq Items
    /\ Poison \subseteq Items
    /\ IsFiniteSet(Consumers)
    /\ NumWorkers \in Nat
    /\ BufferSize \in Nat \ {0}
    /\ MaxRetries \in Nat
    /\ MaxFaults \in Nat

VARIABLES
    buffer,     \* [Procs -> Seq(Items)] the mpsc channel
    bp,         \* buffer processor: where its loop stands; "down" = no process
    held,       \* the item it received and is publishing (a sequence of <= 1)
    closing,    \* progress of Queue::close()
    chan,       \* is the process's current channel connected?
    consumer,   \* [Consumers -> BOOLEAN] the consumer stream yields deliveries
    task,       \* [Slots -> Task or None]
    forced,     \* [Consumers -> [Items -> Nat]] acked, on their way to publish()
    main,       \* broker: [Msg -> Nat]
    retryq,     \* broker: "retry_<name>", dead-letters to main after its TTL
    dlq,        \* broker: "dead_letter_<name>"
    published,  \* history: items publish() was called with
    reached,    \* history: items the broker confirmed at least once
    done,       \* history: items some worker processed successfully
    discarded,  \* history: items an operator dropped from the DLQ
    lost,       \* history: items of which a process dropped an in-memory copy
    faults      \* history: faults so far, for the bound MaxFaults

procVars == <<buffer, bp, held, closing, chan>>
taskVars == <<consumer, task, forced>>
brokerVars == <<main, retryq, dlq>>
history == <<published, reached, done, discarded, lost, faults>>
vars == <<procVars, taskVars, brokerVars, history>>

TypeOK ==
    /\ buffer \in [Procs -> Seq(Items)]
    /\ bp \in [Procs -> {"down", "recv", "publish", "rebuffer", "done"}]
    /\ held \in [Procs -> Seq(Items)]
    /\ closing \in [Procs -> {"open", "shutdown", "forced", "closed"}]
    /\ chan \in [Procs -> BOOLEAN]
    /\ consumer \in [Consumers -> BOOLEAN]
    /\ task \in [Slots -> Task \cup {None}]
    /\ forced \in [Consumers -> [Items -> Nat]]
    /\ main \in [Msg -> Nat]
    /\ retryq \in [Msg -> Nat]
    /\ dlq \in [Msg -> Nat]
    /\ published \in SUBSET Items
    /\ reached \in SUBSET Items
    /\ done \in SUBSET Items
    /\ discarded \in SUBSET Items
    /\ lost \in SUBSET Items
    /\ faults \in 0..MaxFaults
-----------------------------------------------------------------------------
Put(bag, x) == [bag EXCEPT ![x] = @ + 1]
Take(bag, x) == [bag EXCEPT ![x] = @ - 1]

Fresh(i) == [item |-> i, retry |-> 0]

\* publish_item overwrites the header table it is given by the tracing
\* headers, so the count n that republish put there is not sent.
SentRetry(n) == 0

SlotsOf(p) == {s \in Slots : s[1] = p}
Busy(s) == task[s].stage # "idle"
At(s, stage) == task[s].stage = stage
ItemAt(s) == task[s].msg.item

\* Losing p's channel: the broker puts p's unacked deliveries back on the
\* main queue, headers untouched, and p's deliveries can no longer be acked.
Requeued(p) ==
    [m \in Msg |-> main[m] + Cardinality({s \in SlotsOf(p) :
                        Busy(s) /\ task[s].live /\ task[s].msg = m})]
Stale(p) ==
    [s \in Slots |-> IF s[1] = p /\ Busy(s) THEN [task[s] EXCEPT !.live = FALSE]
                                           ELSE task[s]]

\* Mutant: shutdown ends the loop with items still in the buffer.
LoopEndEager(p, buf) == IF closing[p] # "open" THEN "done" ELSE "recv"

\* The end of the buffer processor's loop body: leave once shutdown was
\* requested and the buffer, holding now buf, is empty.
LoopEnd(p, buf) ==
    IF closing[p] # "open" /\ buf = <<>> THEN "done" ELSE "recv"

Elements(seq) == {seq[n] : n \in DOMAIN seq}
Pending(p) == {i \in Items : forced[p][i] > 0}
InMemoryOf(p) ==
    Elements(buffer[p]) \cup Elements(held[p])
        \cup (IF p \in Consumers THEN Pending(p) ELSE {})
-----------------------------------------------------------------------------
\* A durable queue outlives releases: at start it may hold one message whose
\* x-retry-count header was written by an older publisher.
Init ==
    /\ buffer = [p \in Procs |-> <<>>]
    /\ bp = [p \in Procs |-> "recv"]
    /\ held = [p \in Procs |-> <<>>]
    /\ closing = [p \in Procs |-> "open"]
    /\ chan = [p \in Procs |-> TRUE]
    /\ consumer = [c \in Consumers |-> TRUE]
    /\ task = [s \in Slots |-> None]
    /\ forced = [c \in Consumers |-> [i \in Items |-> 0]]
    /\ \E legacy \in SUBSET Msg :
          /\ \A m1, m2 \in legacy : m1 = m2
          /\ main = [m \in Msg |-> IF m \in legacy THEN 1 ELSE 0]
          /\ published = {m.item : m \in legacy}
          /\ reached = {m.item : m \in legacy}
    /\ retryq = [m \in Msg |-> 0]
    /\ dlq = [m \in Msg |-> 0]
    /\ done = {}
    /\ discarded = {}
    /\ lost = {}
    /\ faults = 0
-----------------------------------------------------------------------------
(* publish() and the buffer processor *)

\* publish(): send() into the mpsc channel waits for room, and fails (the
\* item is only logged) once the receiver is gone.
Send(p, i) ==
    \/ /\ bp[p] \in {"recv", "publish", "rebuffer"}
       /\ Len(buffer[p]) < BufferSize
       /\ buffer' = [buffer EXCEPT ![p] = Append(@, i)]
       /\ UNCHANGED lost
    \/ /\ bp[p] = "done"
       /\ lost' = lost \cup {i}
       /\ UNCHANGED buffer

Publish(p, i) ==
    /\ i \notin published
    /\ Send(p, i)
    /\ published' = published \cup {i}
    /\ UNCHANGED <<bp, held, closing, chan, taskVars, brokerVars,
                   reached, done, discarded, faults>>

BufferRecv(p) ==
    /\ bp[p] = "recv"
    /\ buffer[p] # <<>>
    /\ held' = [held EXCEPT ![p] = <<Head(buffer[p])>>]
    /\ buffer' = [buffer EXCEPT ![p] = Tail(@)]
    /\ bp' = [bp EXCEPT ![p] = "publish"]
    /\ UNCHANGED <<closing, chan, taskVars, brokerVars, history>>

BufferPublishOk(p) ==
    /\ bp[p] = "publish"
    /\ chan[p]
    /\ main' = Put(main, Fresh(held[p][1]))
    /\ reached' = reached \cup {held[p][1]}
    /\ held' = [held EXCEPT ![p] = <<>>]
    /\ bp' = [bp EXCEPT ![p] = LoopEnd(p, buffer[p])]
    /\ UNCHANGED <<buffer, closing, chan, taskVars, retryq, dlq,
                   published, done, discarded, lost, faults>>

\* Mutant: the failed item is logged and forgotten.
BufferPublishErrDrops(p) ==
    /\ bp[p] = "publish"
    /\ bp' = [bp EXCEPT ![p] = LoopEnd(p, buffer[p])]
    /\ held' = [held EXCEPT ![p] = <<>>]
    /\ UNCHANGED <<buffer, closing, chan, taskVars, brokerVars, history>>

\* No channel, or a broker that answers with a nack: nothing was stored.
BufferPublishErr(p) ==
    /\ bp[p] = "publish"
    /\ bp' = [bp EXCEPT ![p] = "rebuffer"]
    /\ UNCHANGED <<buffer, held, closing, chan, taskVars, brokerVars, history>>

\* The processor is the channel's only receiver: with a full buffer its own
\* send() never returns.
Rebuffer(p) ==
    /\ bp[p] = "rebuffer"
    /\ Len(buffer[p]) < BufferSize
    /\ buffer' = [buffer EXCEPT ![p] = Append(@, held[p][1])]
    /\ held' = [held EXCEPT ![p] = <<>>]
    /\ bp' = [bp EXCEPT ![p] = LoopEnd(p, buffer'[p])]
    /\ UNCHANGED <<closing, chan, taskVars, brokerVars, history>>

BufferCancelled(p) ==
    /\ bp[p] = "recv"
    /\ closing[p] = "forced"
    /\ bp' = [bp EXCEPT ![p] = "done"]
    /\ lost' = lost \cup Elements(buffer[p])
    /\ buffer' = [buffer EXCEPT ![p] = <<>>]
    /\ UNCHANGED <<held, closing, chan, taskVars, brokerVars,
                   published, reached, done, discarded, faults>>
-----------------------------------------------------------------------------
(* close(), exit, crash and restart of a process *)

Close(p) ==
    /\ bp[p] # "down"
    /\ closing[p] = "open"
    /\ closing' = [closing EXCEPT ![p] = "shutdown"]
    /\ UNCHANGED <<buffer, bp, held, chan, taskVars, brokerVars, history>>

\* close() waits for the processor, at most five seconds.
CloseReturns(p) ==
    /\ bp[p] # "down"
    /\ closing[p] = "shutdown"
    /\ closing' = [closing EXCEPT
                     ![p] = IF bp[p] = "done" THEN "closed" ELSE "forced"]
    /\ UNCHANGED <<buffer, bp, held, chan, taskVars, brokerVars, history>>

\* work(): the cancelled token ends the delivery loop.
StopConsuming(p) ==
    /\ consumer[p]
    /\ closing[p] # "open"
    /\ consumer' = [consumer EXCEPT ![p] = FALSE]
    /\ UNCHANGED <<procVars, task, forced, brokerVars, history>>

\* The process is gone: its memory is lost, the broker requeues its unacked
\* deliveries.
Stop(p) ==
    /\ bp' = [bp EXCEPT ![p] = "down"]
    /\ lost' = lost \cup InMemoryOf(p)
    /\ buffer' = [buffer EXCEPT ![p] = <<>>]
    /\ held' = [held EXCEPT ![p] = <<>>]
    /\ chan' = [chan EXCEPT ![p] = FALSE]
    /\ consumer' = [c \in Consumers |-> c # p /\ consumer[c]]
    /\ task' = [s \in Slots |-> IF s[1] = p THEN None ELSE task[s]]
    /\ forced' = [c \in Consumers |->
                    IF c = p THEN [i \in Items |-> 0] ELSE forced[c]]
    /\ main' = Requeued(p)
    /\ UNCHANGED <<closing, retryq, dlq, published, reached, done, discarded>>

\* main() returns after close() and after the delivery tasks have finished;
\* when it returns before they have, the stop is a Crash.
Exit(p) ==
    /\ bp[p] # "down"
    /\ closing[p] \in {"closed", "forced"}
    /\ p \in Consumers => /\ ~consumer[p]
                          /\ Pending(p) = {}
                          /\ \A s \in SlotsOf(p) : ~Busy(s)
    /\ Stop(p)
    /\ UNCHANGED faults

Crash(p) ==
    /\ bp[p] # "down"
    /\ faults < MaxFaults
    /\ faults' = faults + 1
    /\ Stop(p)

\* Queue::new and, in a consuming process, Queue::consumer.
Restart(p) ==
    /\ bp[p] = "down"
    /\ bp' = [bp EXCEPT ![p] = "recv"]
    /\ closing' = [closing EXCEPT ![p] = "open"]
    /\ chan' = [chan EXCEPT ![p] = TRUE]
    /\ consumer' = [c \in Consumers |-> c = p \/ consumer[c]]
    /\ UNCHANGED <<buffer, held, task, forced, brokerVars, history>>
-----------------------------------------------------------------------------
(* the connection *)

LoseConnection(p) ==
    /\ chan[p]
    /\ faults < MaxFaults
    /\ faults' = faults + 1
    /\ chan' = [chan EXCEPT ![p] = FALSE]
    /\ consumer' = [c \in Consumers |-> c # p /\ consumer[c]]
    /\ task' = Stale(p)

ConnectionLost(p) ==
    /\ LoseConnection(p)
    /\ main' = Requeued(p)
    /\ UNCHANGED <<buffer, bp, held, closing, forced, retryq, dlq,
                   published, reached, done, discarded, lost>>

\* The connection dies while publish_item awaits a confirmation of a message
\* the broker did store; the caller sees an error.
BufferPublishUnconfirmed(p) ==
    /\ bp[p] = "publish"
    /\ LoseConnection(p)
    /\ main' = Put(Requeued(p), Fresh(held[p][1]))
    /\ bp' = [bp EXCEPT ![p] = "rebuffer"]
    /\ UNCHANGED <<buffer, held, closing, forced, retryq, dlq,
                   published, reached, done, discarded, lost>>

\* connection_health_check replaces the channel and the queue handles; the
\* consumer of the old channel is not recreated.
Reconnect(p) ==
    /\ bp[p] # "down"
    /\ ~chan[p]
    /\ chan' = [chan EXCEPT ![p] = TRUE]
    /\ UNCHANGED <<buffer, bp, held, closing, taskVars, brokerVars, history>>
-----------------------------------------------------------------------------
(* deliveries *)

\* Mutant: consuming with automatic acknowledgement.
DeliverAutoAck(s, m) ==
    /\ consumer[s[1]]
    /\ ~Busy(s)
    /\ main[m] > 0
    /\ main' = Take(main, m)
    /\ task' = [task EXCEPT ![s] = [stage |-> "process", msg |-> m, live |-> FALSE]]
    /\ UNCHANGED <<procVars, consumer, forced, retryq, dlq, history>>

Deliver(s, m) ==
    /\ consumer[s[1]]
    /\ ~Busy(s)
    /\ main[m] > 0
    /\ main' = Take(main, m)
    /\ task' = [task EXCEPT ![s] = [stage |-> "process", msg |-> m, live |-> TRUE]]
    /\ UNCHANGED <<procVars, consumer, forced, retryq, dlq, history>>

Goto(s, stage) == task' = [task EXCEPT ![s].stage = stage]
Finish(s) == task' = [task EXCEPT ![s] = None]

Succeed(s) ==
    /\ At(s, "process")
    /\ ItemAt(s) \notin Misrouted \cup Poison
    /\ done' = done \cup {ItemAt(s)}
    /\ Goto(s, "ack")
    /\ UNCHANGED <<procVars, consumer, forced, brokerVars,
                   published, reached, discarded, lost, faults>>

Fail(s) ==
    /\ At(s, "process")
    /\ ItemAt(s) \notin Misrouted
    /\ Goto(s, "republish")
    /\ UNCHANGED <<procVars, consumer, forced, brokerVars, history>>

Irrelevant(s) ==
    /\ At(s, "process")
    /\ ItemAt(s) \in Misrouted
    /\ Goto(s, "force_ack")
    /\ UNCHANGED <<procVars, consumer, forced, brokerVars, history>>

\* proof_retrier: the message "has failed too many times".
GiveUp(s) ==
    /\ At(s, "process")
    /\ ItemAt(s) \notin Misrouted
    /\ Goto(s, "reject")
    /\ UNCHANGED <<procVars, consumer, forced, brokerVars, history>>

\* Mutant: a republished delivery is never acked and keeps its slot.
AckSuccessOnly(s) ==
    /\ At(s, "ack")
    /\ Finish(s)
    /\ UNCHANGED <<procVars, consumer, forced, brokerVars, history>>

\* The last ack of a delivery; on a dead channel it fails and is logged.
Ack(s) ==
    /\ task[s].stage \in {"ack", "ack_republished"}
    /\ Finish(s)
    /\ UNCHANGED <<procVars, consumer, forced, brokerVars, history>>

\* republish(force_requeue = true): ack, and only then publish().
ForceAck(s) ==
    /\ At(s, "force_ack")
    /\ forced' = IF task[s].live
                 THEN [forced EXCEPT ![s[1]] = Put(@, ItemAt(s))]
                 ELSE forced
    /\ Finish(s)
    /\ UNCHANGED <<procVars, consumer, brokerVars, history>>

ForcePublish(p, i) ==
    /\ forced[p][i] > 0
    /\ Send(p, i)
    /\ forced' = [forced EXCEPT ![p] = Take(@, i)]
    /\ UNCHANGED <<bp, held, closing, chan, consumer, task, brokerVars,
                   published, reached, done, discarded, faults>>

\* nack(requeue = false) dead-letters the message, unless the channel is dead.
DeadLetter(s) ==
    /\ dlq' = IF task[s].live THEN Put(dlq, task[s].msg) ELSE dlq
    /\ Finish(s)
    /\ UNCHANGED <<procVars, consumer, forced, main, retryq, history>>

Reject(s) ==
    /\ At(s, "reject")
    /\ DeadLetter(s)

RepublishExhausted(s) ==
    /\ At(s, "republish")
    /\ task[s].msg.retry > MaxRetries
    /\ DeadLetter(s)

RetryCopy(s) == [item |-> ItemAt(s), retry |-> SentRetry(task[s].msg.retry + 1)]

RepublishOk(s) ==
    /\ At(s, "republish")
    /\ task[s].msg.retry <= MaxRetries
    /\ chan[s[1]]
    /\ retryq' = Put(retryq, RetryCopy(s))
    /\ Goto(s, "ack_republished")
    /\ UNCHANGED <<procVars, consumer, forced, main, dlq, history>>

\* Mutant: the delivery is acked although it could not be republished.
RepublishErrAcks(s) ==
    /\ At(s, "republish")
    /\ task[s].msg.retry <= MaxRetries
    /\ Finish(s)
    /\ UNCHANGED <<procVars, consumer, forced, brokerVars, history>>

\* publish_item failed: nack(requeue = true), best effort.
RepublishErr(s) ==
    /\ At(s, "republish")
    /\ task[s].msg.retry <= MaxRetries
    /\ main' = IF task[s].live THEN Put(main, task[s].msg) ELSE main
    /\ Finish(s)
    /\ UNCHANGED <<procVars, consumer, forced, retryq, dlq, history>>

\* As BufferPublishUnconfirmed, for the retry queue; the nack that follows
\* fails on the dead channel.
RepublishUnconfirmed(s) ==
    /\ At(s, "republish")
    /\ task[s].msg.retry <= MaxRetries
    /\ chan[s[1]]
    /\ faults < MaxFaults
    /\ faults' = faults + 1
    /\ chan' = [chan EXCEPT ![s[1]] = FALSE]
    /\ consumer' = [consumer EXCEPT ![s[1]] = FALSE]
    /\ task' = [Stale(s[1]) EXCEPT ![s] = None]
    /\ main' = Requeued(s[1])
    /\ retryq' = Put(retryq, RetryCopy(s))
    /\ UNCHANGED <<buffer, bp, held, closing, forced, dlq,
                   published, reached, done, discarded, lost>>
-----------------------------------------------------------------------------
(* the broker and the operator *)

\* The retry queue's TTL expires: its dead-letter target is the main queue.
RetryExpires(m) ==
    /\ retryq[m] > 0
    /\ retryq' = Take(retryq, m)
    /\ main' = Put(main, m)
    /\ UNCHANGED <<procVars, taskVars, dlq, history>>

\* Mutant: the recovered message is not acked on the dead-letter queue.
DlqRecoverNoAck(m) ==
    /\ dlq[m] > 0
    /\ main[Fresh(m.item)] = 0
    /\ main' = Put(main, Fresh(m.item))
    /\ UNCHANGED <<procVars, taskVars, retryq, dlq, history>>

\* dlq_recovery "r": republish without x-retry-count, ack once confirmed; the
\* tool may die before the ack.
DlqRecover(m) ==
    /\ dlq[m] > 0
    /\ main' = Put(main, Fresh(m.item))
    /\ \/ /\ dlq' = Take(dlq, m)
          /\ UNCHANGED faults
       \/ /\ faults < MaxFaults
          /\ faults' = faults + 1
          /\ UNCHANGED dlq
    /\ UNCHANGED <<procVars, taskVars, retryq,
                   published, reached, done, discarded, lost>>

\* dlq_recovery "d".
DlqDrop(m) ==
    /\ dlq[m] > 0
    /\ dlq' = Take(dlq, m)
    /\ discarded' = discarded \cup {m.item}
    /\ UNCHANGED <<procVars, taskVars, main, retryq,
                   published, reached, done, lost, faults>>
-----------------------------------------------------------------------------
ProcessStep(p) ==
    \/ \E i \in Items : p \in Producers /\ Publish(p, i)
    \/ BufferRecv(p)
    \/ BufferPublishOk(p)
    \/ BufferPublishErr(p)
    \/ BufferPublishUnconfirmed(p)
    \/ Rebuffer(p)
    \/ BufferCancelled(p)
    \/ Close(p)
    \/ CloseReturns(p)
    \/ Exit(p)
    \/ Crash(p)
    \/ Restart(p)
    \/ ConnectionLost(p)
    \/ Reconnect(p)

ConsumerStep(c) ==
    \/ StopConsuming(c)
    \/ \E i \in Items : ForcePublish(c, i)

TaskStep(s) ==
    \/ \E m \in Msg : Deliver(s, m)
    \/ Succeed(s)
    \/ Fail(s)
    \/ Irrelevant(s)
    \/ GiveUp(s)
    \/ Ack(s)
    \/ ForceAck(s)
    \/ Reject(s)
    \/ RepublishExhausted(s)
    \/ RepublishOk(s)
    \/ RepublishErr(s)
    \/ RepublishUnconfirmed(s)

BrokerStep(m) ==
    \/ RetryExpires(m)
    \/ DlqRecover(m)
    \/ DlqDrop(m)

Next ==
    \/ \E p \in Procs : ProcessStep(p)
    \/ \E c \in Consumers : ConsumerStep(c)
    \/ \E s \in Slots : TaskStep(s)
    \/ \E m \in Msg : BrokerStep(m)

Spec == Init /\ [][Next]_vars
-----------------------------------------------------------------------------
(* Where an item is *)

\* The broker keeps a copy of i that does not depend on a republication
\* having happened: on a queue, or unacked in a task that has neither
\* succeeded nor republished it.
Firm(i) ==
    \/ \E m \in Msg : m.item = i /\ (main[m] > 0 \/ retryq[m] > 0 \/ dlq[m] > 0)
    \/ \E s \in Slots :
          /\ task[s].stage \in {"process", "force_ack", "republish", "reject"}
          /\ task[s].live
          /\ ItemAt(s) = i

InMemory(i) == \E p \in Procs : i \in InMemoryOf(p)

ItemStatus ==
    [i \in Items |->
        CASE i \in done -> "done"
          [] i \notin done /\ Firm(i) -> "durable"
          [] i \notin done /\ ~Firm(i) /\ InMemory(i) -> "volatile"
          [] i \notin done /\ ~Firm(i) /\ ~InMemory(i) /\ i \in published -> "gone"
          [] OTHER -> "new"]

\* An item the broker has confirmed, and that some worker can handle, has a
\* durable copy until a worker succeeded with it (or an operator dropped it):
\* whatever order publishing, acking, nacking, crashes, lost connections and
\* shutdown come in (queue.rs republish, includer.rs/ingestor.rs on_delivery).
AtLeastOnce ==
    \A i \in reached \ Misrouted : i \in done \cup discarded \/ Firm(i)

\* Every item handed to publish() is processed, dropped by an operator, on
\* the broker, or in the memory of a running process, unless a process
\* stopped, was forced to cancel or had closed its buffer while holding it
\* (queue.rs BufferProcessor::run, publish, republish, close).
NoSilentLoss ==
    \A i \in published :
        i \in done \cup discarded \cup lost \/ Firm(i) \/ InMemory(i)

\* The strengthening that makes AtLeastOnce inductive.  The processor holds an
\* item exactly while it publishes or re-buffers it, and only items found
\* irrelevant take the path that acks before it publishes.
HeldWhilePublishing ==
    \A p \in Procs : Len(held[p]) = IF bp[p] \in {"publish", "rebuffer"} THEN 1 ELSE 0
ForcedIsMisrouted ==
    \A s \in Slots : At(s, "force_ack") => ItemAt(s) \in Misrouted

\* The same for NoSilentLoss and for the promise: the queue knows only items
\* that were published, an item found irrelevant is not retried, and whatever
\* is delivered, even on a dead channel, was not forgotten by the broker.
OnlyPublished ==
    \A i \in Items : i \in done \cup discarded \/ Firm(i) \/ InMemory(i) => i \in published
MisroutedNotRetried ==
    \A s \in Slots : Busy(s) /\ ItemAt(s) \in Misrouted => task[s].stage \in {"process", "force_ack"}
DeliveredIsKept ==
    \A s \in Slots :
        Busy(s) => ItemAt(s) \in done \cup discarded \cup Misrouted \/ Firm(ItemAt(s))

QueueInv ==
    /\ TypeOK /\ HeldWhilePublishing /\ ForcedIsMisrouted /\ AtLeastOnce
    /\ OnlyPublished /\ MisroutedNotRetried /\ DeliveredIsKept /\ NoSilentLoss

\* Where the copies of i that are still to be processed are: in which queue,
\* buffer or task, and which of several there.
StoredCopies(queue, bag, i) ==
    UNION {{queue} \X {m} \X (1..bag[m]) : m \in {m \in Msg : m.item = i}}
BufferedCopies(place, seqs, i) ==
    UNION {{place} \X {p} \X {n \in DOMAIN seqs[p] : seqs[p][n] = i} : p \in Procs}
ForcedCopies(counts, i) == UNION {{"forced"} \X {c} \X (1..counts[c][i]) : c \in Consumers}
TaskCopies(tasks, i) ==
    {"task"} \X {s \in Slots : /\ tasks[s].stage \in {"process", "force_ack", "republish", "reject"}
                              /\ tasks[s].msg.item = i} \X {1}

Copies(i) ==
    StoredCopies("main", main, i) \cup StoredCopies("retry", retryq, i)
        \cup StoredCopies("dead_letter", dlq, i)
        \cup BufferedCopies("buffer", buffer, i) \cup BufferedCopies("held", held, i)
        \cup ForcedCopies(forced, i) \cup TaskCopies(task, i)

\* Without faults the relay is exactly-once: failed publications, retries,
\* forced requeues and restarts after Exit never leave two copies of an item to
\* be processed, nor one of an item already processed (or never published).  A
\* stop that does not wait for the tasks, as run_ingestor's when the other of
\* its loops ends first, counts as a crash.
OneCopyEach ==
    \A i \in Items : /\ \A c, d \in Copies(i) : c = d
                     /\ Copies(i) # {} => i \in published \ done
NoDuplicatesWithoutFaults == faults = 0 => OneCopyEach

\* The promise of the queue to the rest of the relayer.
Promise == INSTANCE AtLeastOnceQueue
              WITH status <- ItemStatus, discarded <- discarded
ImplementsPromise == Promise!Spec
-----------------------------------------------------------------------------
(* Liveness *)

\* Tokio keeps polling the buffer processor and the health check; a broker
\* that can be reached again and again eventually confirms a publication.
BufferFairness ==
    \A p \in Procs : /\ WF_vars(BufferRecv(p))
                     /\ SF_vars(BufferPublishOk(p))
                     /\ WF_vars(BufferPublishErr(p))
                     /\ WF_vars(Rebuffer(p))
                     /\ WF_vars(Reconnect(p))

\* The same for deliveries: the broker delivers to an attached consumer, each
\* task runs to its end, and the retry queue's TTL expires.
DeliveryFairness ==
    /\ \A s \in Slots, m \in Msg : SF_vars(Deliver(s, m))
    /\ \A s \in Slots :
          /\ WF_vars(Succeed(s) \/ Fail(s) \/ Irrelevant(s) \/ GiveUp(s))
          /\ WF_vars(Ack(s) \/ ForceAck(s) \/ Reject(s) \/ RepublishExhausted(s))
          /\ SF_vars(RepublishOk(s))
          /\ WF_vars(RepublishErr(s))
    /\ \A m \in Msg : WF_vars(RetryExpires(m))

BufferFairSpec == Spec /\ BufferFairness

FairSpec == Spec /\ BufferFairness /\ DeliveryFairness

\* "Failed to publish item. Re-buffering.": a buffered item is eventually
\* confirmed by the broker, however often publications fail and connections
\* are lost, unless its process drops it when it stops (BufferProcessor::run).
\* The items of the instance fit in the buffer: when publish() has filled it
\* behind an item that failed, Rebuffer never happens, and nothing is published
\* any more.
BufferedIsPublished ==
    \A p \in Procs, i \in Items :
        i \in Elements(buffer[p]) ~> (i \in reached \/ i \in lost)

Fails(i) == \E s \in Slots : Fail(s) /\ ItemAt(s) = i
Settled(i) == i \in done \cup discarded \/ \E m \in Msg : m.item = i /\ dlq[m] > 0
Serving == \E c \in Consumers : closing[c] = "open" /\ consumer[c]

\* While a process that is not closing has its consumer attached, an item on
\* the broker is eventually processed or dead-lettered, through crashes of the
\* publisher and restarts of the consumer, unless its processing keeps failing
\* (QueueConsumer::work).  A lost connection detaches the consumer, and only a
\* restart attaches one again: connection_health_check replaces the channel
\* only, so that a process it reports as connected may never take a delivery.
StoredIsSettled ==
    \A i \in Items \ Misrouted :
        \/ []<><<Fails(i)>>_vars
        \/ i \in reached ~> (Settled(i) \/ ~Serving)

\* "Exceeded max retries, nacking message": an item whose processing keeps
\* failing ends up on the dead-letter queue (Queue::republish).
FailingIsDeadLettered ==
    \A i \in Items :
        []<><<Fails(i)>>_vars => <>(\E m \in Msg : m.item = i /\ dlq[m] > 0)
=============================================================================
