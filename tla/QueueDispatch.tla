---------------------------- MODULE QueueDispatch ----------------------------
(***************************************************************************)
(* The Message Queue transport of the connector: the delivery of batches   *)
(* to the @QueueHandler methods of the application                         *)
(* (packages/nest-bridge/src/mq/adapter.ts, dispatch.ts, dlq-sender.ts).   *)
(*                                                                         *)
(* The queue and its trigger are outside the program: the trigger delivers *)
(* a batch of queued messages to an invocation, deletes the batch when the *)
(* invocation succeeds and makes it visible again when it fails, times out *)
(* or its environment dies.                                                *)
(***************************************************************************)
EXTENDS Integers, Sequences

CONSTANTS
    Messages,       \* the messages of the queue
    Invocations,    \* the concurrent invocations of the function (slots)
    MaxBatch,       \* how many messages the trigger groups
    Handlers,       \* the discovered handlers, in discovery order
    Degrading,      \* the invocations with options.partialFailure.enabled: a new
                    \* version of the function is rolled out beside the old one
    HasDeadLetterQueue,  \* options.partialFailure.deadLetterQueueId is set
    Throwing,       \* messages some handler may throw on
    Undecodable,    \* messages whose payload does not deserialise
    Malformed,      \* messages whose envelope validateQueueEvent rejects
    Faults,         \* what may fail: "resolve", "publish", "crash"
    NoMessage

ASSUME QueueAssumption ==
    /\ NoMessage \notin Messages
    /\ MaxBatch \in Nat \ {0}
    /\ Handlers \in Seq(STRING)
    /\ Degrading \subseteq Invocations /\ HasDeadLetterQueue \in BOOLEAN
    /\ Throwing \subseteq Messages /\ Undecodable \subseteq Messages
    /\ Malformed \subseteq Messages
    /\ Faults \subseteq {"resolve", "publish", "crash"}

VARIABLES
    queue,       \* where each message is, as the trigger sees it
    processed,   \* the handlers that have processed each message
    deadLetters, \* the messages in the dead letter queue
    invocation   \* the dispatch of each invocation

vars == <<queue, processed, deadLetters, invocation>>

AllHandlers == {Handlers[h] : h \in 1..Len(Handlers)}

Idle == [pc |-> "idle", batch |-> <<>>, pos |-> 1, handler |-> 1,
         failed |-> {}, scope |-> NoMessage]

DispatchRecords ==
    [pc: {"idle", "validating", "dispatching", "resolving", "handling", "republishing"},
     batch: Seq(Messages),
     pos: Nat,              \* the message the loop is at
     handler: Nat,          \* the handler it is at
     failed: SUBSET Nat,    \* the positions of `failures'
     scope: Messages \cup {NoMessage}]  \* queueMessage of the invocation scope

TypeOK ==
    /\ queue \in [Messages -> {"queued", "inFlight", "acked"}]
    /\ processed \in [Messages -> SUBSET AllHandlers]
    /\ deadLetters \subseteq Messages
    /\ invocation \in [Invocations -> DispatchRecords]
    /\ \A i \in Invocations :
        /\ invocation[i].pos \in 1..(Len(invocation[i].batch) + 1)
        /\ invocation[i].handler \in (1..Len(Handlers)) \cup {1}
        /\ invocation[i].failed \subseteq 1..Len(invocation[i].batch)

Init ==
    /\ queue = [m \in Messages |-> "queued"]
    /\ processed = [m \in Messages |-> {}]
    /\ deadLetters = {}
    /\ invocation = [i \in Invocations |-> Idle]

-----------------------------------------------------------------------------
(* The trigger. *)

BatchOf(i) == {invocation[i].batch[k] : k \in 1..Len(invocation[i].batch)}

Batches ==
    {b \in UNION {[1..n -> {m \in Messages : queue[m] = "queued"}] : n \in 1..MaxBatch} :
        \A j, k \in DOMAIN b : j # k => b[j] # b[k]}

Deliver(i) ==
    /\ invocation[i].pc = "idle"
    /\ \E b \in Batches :
        /\ invocation' = [invocation EXCEPT ![i] = [Idle EXCEPT !.pc = "validating", !.batch = b]]
        /\ queue' = [m \in Messages |->
                        IF \E k \in DOMAIN b : b[k] = m THEN "inFlight" ELSE queue[m]]
    /\ UNCHANGED <<processed, deadLetters>>

(* The invocation resolves: the trigger deletes the batch. *)
Acknowledge(i) ==
    /\ queue' = [m \in Messages |-> IF m \in BatchOf(i) THEN "acked" ELSE queue[m]]
    /\ invocation' = [invocation EXCEPT ![i] = Idle]

(* The invocation rejects: the batch will be delivered again. *)
Reject(i) ==
    /\ queue' = [m \in Messages |-> IF m \in BatchOf(i) THEN "queued" ELSE queue[m]]
    /\ invocation' = [invocation EXCEPT ![i] = Idle]

(* The execution environment dies or times out in the middle of an invocation. *)
Crash(i) ==
    /\ "crash" \in Faults
    /\ invocation[i].pc # "idle"
    /\ Reject(i)
    /\ UNCHANGED <<processed, deadLetters>>

-----------------------------------------------------------------------------
Current(i) == invocation[i].batch[invocation[i].pos]

(* validateQueueEvent and the check for handlers: nothing runs on a bad batch. *)
Validate(i) ==
    /\ invocation[i].pc = "validating"
    /\ IF BatchOf(i) \cap Malformed = {} /\ Handlers # <<>>
       THEN /\ invocation' = [invocation EXCEPT ![i].pc = "dispatching"]
            /\ UNCHANGED queue
       ELSE Reject(i)
    /\ UNCHANGED <<processed, deadLetters>>

(* The loop takes the next message.  The fail-fast path extends the invocation *)
(* scope with it before it resolves the handlers, the degrade path after.      *)
BeginMessage(i) ==
    /\ invocation[i].pc = "dispatching"
    /\ invocation[i].pos <= Len(invocation[i].batch)
    /\ invocation' = [invocation EXCEPT
           ![i].pc = "resolving",
           ![i].scope = IF i \in Degrading THEN NoMessage ELSE Current(i)]
    /\ UNCHANGED <<queue, processed, deadLetters>>

(* resolveHandlers gets every handler instance for this message. *)
Resolve(i) ==
    /\ invocation[i].pc = "resolving"
    /\ invocation' = [invocation EXCEPT
           ![i].pc = "handling", ![i].handler = 1, ![i].scope = Current(i)]
    /\ UNCHANGED <<queue, processed, deadLetters>>

(* The container cannot build one of them: no mode catches this. *)
ResolveFails(i) ==
    /\ "resolve" \in Faults
    /\ invocation[i].pc = "resolving"
    /\ Reject(i)
    /\ UNCHANGED <<processed, deadLetters>>

(* The loop goes on to the message after this one. *)
NextMessage(i, failed) ==
    invocation' = [invocation EXCEPT
        ![i].pc = "dispatching", ![i].pos = invocation[i].pos + 1, ![i].handler = 1,
        ![i].failed = failed, ![i].scope = NoMessage]

(* A handler processes the current message. *)
HandlerReturns(i) ==
    /\ invocation[i].pc = "handling"
    /\ Current(i) \notin Undecodable
    /\ processed' = [processed EXCEPT ![Current(i)] =
                         @ \cup {Handlers[invocation[i].handler]}]
    /\ IF invocation[i].handler < Len(Handlers)
       THEN invocation' = [invocation EXCEPT ![i].handler = @ + 1]
       ELSE NextMessage(i, invocation[i].failed)
    /\ UNCHANGED <<queue, deadLetters>>

(* Mutant: the error is caught and forgotten. *)
HandlerThrowsSwallowed(i) ==
    /\ invocation[i].pc = "handling"
    /\ Current(i) \in Throwing \cup Undecodable
    /\ NextMessage(i, invocation[i].failed)
    /\ UNCHANGED <<queue, processed, deadLetters>>

(* Mutant: the degrade path records the failure and leaves the loop. *)
HandlerThrowsBreaks(i) ==
    /\ invocation[i].pc = "handling"
    /\ Current(i) \in Throwing \cup Undecodable
    /\ invocation' = [invocation EXCEPT
           ![i].pc = "dispatching", ![i].pos = Len(invocation[i].batch) + 1,
           ![i].failed = @ \cup {invocation[i].pos}, ![i].scope = NoMessage]
    /\ UNCHANGED <<queue, processed, deadLetters>>

(* Mutant: one failure rejects the invocation in the degrade mode, too. *)
HandlerThrowsAlwaysRejects(i) ==
    /\ invocation[i].pc = "handling"
    /\ Current(i) \in Throwing \cup Undecodable
    /\ Reject(i)
    /\ UNCHANGED <<processed, deadLetters>>

(* A handler throws, by itself or when it reads message.payload, which         *)
(* deserialises the body on the first access: the degrade path records the     *)
(* failure and goes on, the fail-fast path rejects the invocation.             *)
HandlerThrows(i) ==
    /\ invocation[i].pc = "handling"
    /\ Current(i) \in Throwing \cup Undecodable
    /\ IF i \in Degrading
       THEN /\ NextMessage(i, invocation[i].failed \cup {invocation[i].pos})
            /\ UNCHANGED queue
       ELSE Reject(i)
    /\ UNCHANGED <<processed, deadLetters>>

(* Every message was attempted: the invocation resolves, after the failed      *)
(* messages have been published to the dead letter queue if there is one.      *)
FinishBatch(i) ==
    /\ invocation[i].pc = "dispatching"
    /\ invocation[i].pos > Len(invocation[i].batch)
    /\ IF invocation[i].failed # {} /\ HasDeadLetterQueue
       THEN /\ invocation' = [invocation EXCEPT ![i].pc = "republishing"]
            /\ UNCHANGED queue
       ELSE Acknowledge(i)
    /\ UNCHANGED <<processed, deadLetters>>

(* sendBatch publishes the first of the remaining failures; send reports a     *)
(* failed publication and never throws, so the invocation resolves regardless. *)
Republish(i) ==
    /\ invocation[i].pc = "republishing"
    /\ \E k \in invocation[i].failed :
        /\ \A j \in invocation[i].failed : k <= j
        /\ \/ deadLetters' = deadLetters \cup {invocation[i].batch[k]}
           \/ "publish" \in Faults /\ UNCHANGED deadLetters
        /\ IF invocation[i].failed = {k}
           THEN Acknowledge(i)
           ELSE /\ invocation' = [invocation EXCEPT ![i].failed = @ \ {k}]
                /\ UNCHANGED queue
    /\ UNCHANGED processed

-----------------------------------------------------------------------------
DispatchStep(i) ==
    \/ Validate(i) \/ BeginMessage(i) \/ Resolve(i) \/ ResolveFails(i)
    \/ HandlerReturns(i) \/ HandlerThrows(i) \/ FinishBatch(i) \/ Republish(i)

Next == \E i \in Invocations : Deliver(i) \/ DispatchStep(i) \/ Crash(i)

Spec == Init /\ [][Next]_vars

(* A started dispatch runs on: every await of it settles. *)
DispatchFairness == \A i \in Invocations : WF_vars(DispatchStep(i))

(* Trigger contract: a message that stays visible is delivered eventually. *)
DeliverMessage(m) ==
    \E i \in Invocations : Deliver(i) /\ queue'[m] = "inFlight" /\ queue[m] = "queued"
TriggerFairness == \A m \in Messages : SF_vars(DeliverMessage(m))

FairSpec == Spec /\ DispatchFairness /\ TriggerFairness

-----------------------------------------------------------------------------
(* Where a failed message may vanish: nobody takes it, or publishing fails. *)
LossAllowed == Degrading # {} /\ (~HasDeadLetterQueue \/ "publish" \in Faults)

Fate(m) ==
    IF queue[m] # "acked" THEN "pending"
    ELSE IF processed[m] = AllHandlers THEN "handled"
    ELSE IF m \in deadLetters THEN "deadLettered" ELSE "lost"

(* The loop never runs ahead of a message: when a message is being dispatched  *)
(* every earlier one of the batch was processed by all handlers or, in the     *)
(* degrade mode, is recorded as failed, and the current one was seen by the    *)
(* handlers before this one (dispatch.ts, invokeHandlers).                     *)
InOrder ==
    \A i \in Invocations :
        LET v == invocation[i] IN
        v.pc \in {"dispatching", "resolving", "handling"} =>
            /\ \A k \in 1..(v.pos - 1) : processed[v.batch[k]] = AllHandlers \/ k \in v.failed
            /\ i \notin Degrading => v.failed = {}
            /\ v.pc = "handling" =>
                 \A h \in 1..(v.handler - 1) : Handlers[h] \in processed[v.batch[v.pos]]

(* No message leaves the queue before every handler has processed it or it is  *)
(* in the dead letter queue, except where the degrade mode gives up on it, and *)
(* then only a message whose handler threw, never another one of its batch     *)
(* (dispatch.ts, dispatchQueueHandlers).                                       *)
OnlyFailedIsLost ==
    \A m \in Messages :
        Fate(m) = "lost" => LossAllowed /\ m \in Throwing \cup Undecodable

(* The dispatch implements the delivery promise. *)
Delivery == INSTANCE MessageDelivery WITH fate <- [m \in Messages |-> Fate(m)]
DeliveryPromise == Delivery!Spec

(* In the degrade mode no message holds up another one: every message leaves   *)
(* the queue, however often handlers throw.                                    *)
EveryMessageSettles ==
    \A m \in Messages : queue[m] = "queued" ~> queue[m] = "acked"

-----------------------------------------------------------------------------
(* Promises of the documentation that the degrade path does not keep.          *)

(* The handlers of a message are resolved inside the scope of that message     *)
(* (the comment of dispatchQueueHandlers).                                     *)
ResolvedInMessageScope ==
    \A i \in Invocations :
        invocation[i].pc = "resolving" => invocation[i].scope = Current(i)

(* A payload that does not deserialise fails the whole invocation: the message *)
(* is never acknowledged (specs/005-connector-mq-partial-failure, FR-005).     *)
UndecodableNotAcked ==
    \A m \in Undecodable : queue[m] # "acked"
=============================================================================
