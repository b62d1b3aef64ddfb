------------------------ MODULE QueueDispatch_proofs ------------------------
(***************************************************************************)
(* Proofs about QueueDispatch, for any set of messages, any number of      *)
(* concurrent invocations, any batch size and any list of handlers.        *)
(***************************************************************************)
EXTENDS QueueDispatch, SequenceTheorems, TLAPS

(* A message that may leave the queue: handled, put aside, or a failed one in  *)
(* a configuration that gives up failed messages.                              *)
Accounted(m) ==
    \/ processed[m] = AllHandlers
    \/ m \in deadLetters
    \/ LossAllowed /\ m \in Throwing \cup Undecodable

AckedAccounted == \A m \in Messages : queue[m] = "acked" => Accounted(m)

(* The batch of an invocation is in flight, and in no other invocation.        *)
BatchInFlight(i) == \A m \in BatchOf(i) : queue[m] = "inFlight"

Exclusive == \A i, j \in Invocations : i # j => BatchOf(i) \cap BatchOf(j) = {}

(* What the locals of one dispatch say about the messages of its batch.        *)
Progress(i) ==
    LET v == invocation[i] IN
    /\ v.pc \notin {"idle", "validating"} => Handlers # <<>>
    /\ v.pc \in {"resolving", "handling"} => v.pos <= Len(v.batch)
    /\ v.pc \in {"idle", "validating"} => v.failed = {} /\ v.pos = 1
    /\ i \notin Degrading => v.failed = {}
    /\ v.pc # "republishing" =>
         \A k \in v.failed : v.batch[k] \in Throwing \cup Undecodable
    /\ v.pc \in {"dispatching", "resolving", "handling"} =>
         \A k \in 1..(v.pos - 1) : processed[v.batch[k]] = AllHandlers \/ k \in v.failed
    /\ v.pc = "handling" =>
         /\ v.handler \in 1..Len(Handlers)
         /\ \A h \in 1..(v.handler - 1) : Handlers[h] \in processed[v.batch[v.pos]]
    /\ v.pc = "republishing" =>
         /\ \A k \in v.failed : v.batch[k] \in Throwing \cup Undecodable
         /\ \A k \in 1..Len(v.batch) : Accounted(v.batch[k]) \/ k \in v.failed

(* The inductive invariant.  AckedAccounted alone is not inductive: that the   *)
(* batch can be acknowledged follows from the progress of its own dispatch,    *)
(* and that progress survives the steps of the others because no two           *)
(* invocations hold the same message.                                          *)
IInv ==
    /\ TypeOK
    /\ Exclusive
    /\ AckedAccounted
    /\ \A i \in Invocations : BatchInFlight(i) /\ Progress(i)

USE QueueAssumption

LEMMA InitIInv == Init => IInv
<1> SUFFICES ASSUME Init PROVE IInv
  OBVIOUS
<1>1. <<>> \in Seq(Messages) /\ Len(<<>>) = 0
  OBVIOUS
<1>2. TypeOK
  BY <1>1 DEF Init, TypeOK, Idle, DispatchRecords
<1>3. \A i \in Invocations : BatchOf(i) = {}
  BY DEF Init, Idle, BatchOf
<1>4. Exclusive /\ AckedAccounted
  BY <1>3 DEF Exclusive, AckedAccounted, Init
<1>5. \A i \in Invocations : BatchInFlight(i) /\ Progress(i)
  BY <1>3 DEF BatchInFlight, Progress, Init, Idle
<1> QED BY <1>2, <1>4, <1>5 DEF IInv

(* What a step of one invocation may change: only its own locals and its own   *)
(* messages, and handlers and dead letters are only ever added.                *)
StepOf(i) ==
    /\ \A j \in Invocations \ {i} : invocation'[j] = invocation[j]
    /\ \A m \in Messages \ BatchOf(i) :
        /\ \/ queue'[m] = queue[m]
           \/ queue[m] = "queued" /\ queue'[m] = "inFlight"
        /\ processed'[m] = processed[m]
        /\ m \in deadLetters' <=> m \in deadLetters
    /\ \A m \in Messages : processed[m] = AllHandlers => processed'[m] = AllHandlers
    /\ deadLetters \subseteq deadLetters'

LEMMA BatchInMessages ==
  ASSUME TypeOK, NEW i \in Invocations
  PROVE  BatchOf(i) \subseteq Messages
  BY DEF TypeOK, BatchOf, DispatchRecords

(* A step of i leaves alone what is known of every other invocation.           *)
LEMMA OthersKeep ==
  ASSUME IInv, NEW i \in Invocations, StepOf(i), NEW j \in Invocations \ {i}
  PROVE  BatchOf(j)' = BatchOf(j) /\ BatchInFlight(j)' /\ Progress(j)'
<1>1. invocation'[j] = invocation[j]
  BY DEF StepOf
<1>2. BatchOf(j)' = BatchOf(j)
  BY <1>1 DEF BatchOf
<1>3. \A m \in BatchOf(j) : m \in Messages \ BatchOf(i)
  BY BatchInMessages DEF IInv, Exclusive
<1>4. BatchInFlight(j)'
  BY <1>2, <1>3 DEF IInv, BatchInFlight, StepOf
<1>5. invocation[j] \in DispatchRecords
  BY DEF IInv, TypeOK
<1>6. invocation[j].pos \in 1..(Len(invocation[j].batch) + 1)
  BY DEF IInv, TypeOK
<1>7. \A k \in 1..Len(invocation[j].batch) :
        /\ processed'[invocation[j].batch[k]] = processed[invocation[j].batch[k]]
        /\ Accounted(invocation[j].batch[k]) => Accounted(invocation[j].batch[k])'
  <2> TAKE k \in 1..Len(invocation[j].batch)
  <2> DEFINE m == invocation[j].batch[k]
  <2>1. m \in Messages \ BatchOf(i)
    BY <1>3 DEF BatchOf
  <2>2. processed'[m] = processed[m] /\ (m \in deadLetters => m \in deadLetters')
    BY <2>1 DEF StepOf
  <2>3. m' = m
    BY <1>1
  <2> QED BY <2>2, <2>3 DEF Accounted, LossAllowed
<1>8. Len(invocation[j].batch) \in Nat
  BY <1>5 DEF DispatchRecords
<1>9. Progress(j)
  BY DEF IInv
<1>10. invocation[j].pos \in Nat
  BY <1>5 DEF DispatchRecords
<1>11. Progress(j)'
  BY <1>1, <1>6, <1>7, <1>8, <1>9, <1>10, SMTT(60) DEF Progress
<1> QED BY <1>2, <1>4, <1>11

(* What is left to show of a step of i.                                        *)
LEMMA StepIInv ==
  ASSUME IInv, NEW i \in Invocations, StepOf(i),
         TypeOK', Progress(i)', BatchInFlight(i)',
         \A m \in BatchOf(i)' : m \in BatchOf(i) \/ queue[m] = "queued",
         \A m \in BatchOf(i) : queue'[m] = "acked" => Accounted(m)'
  PROVE  IInv'
<1>1. \A j \in Invocations \ {i} :
        /\ BatchOf(j)' = BatchOf(j) /\ BatchInFlight(j)' /\ Progress(j)'
        /\ BatchOf(j) \cap BatchOf(i) = {} /\ BatchInFlight(j)
  BY OthersKeep DEF IInv, Exclusive
<1>2. Exclusive'
  <2> SUFFICES ASSUME NEW j \in Invocations, NEW k \in Invocations, j # k
               PROVE  BatchOf(j)' \cap BatchOf(k)' = {}
    BY DEF Exclusive
  <2>1. CASE j = i
    BY <2>1, <1>1 DEF BatchInFlight
  <2>2. CASE k = i
    BY <2>2, <1>1 DEF BatchInFlight
  <2>3. CASE j # i /\ k # i
    BY <2>3, <1>1 DEF IInv, Exclusive
  <2> QED BY <2>1, <2>2, <2>3
<1>3. AckedAccounted'
  <2> SUFFICES ASSUME NEW m \in Messages, queue'[m] = "acked"
               PROVE  Accounted(m)'
    BY DEF AckedAccounted
  <2>1. CASE m \in BatchOf(i)
    BY <2>1
  <2>2. CASE m \notin BatchOf(i)
    BY <2>2 DEF StepOf, IInv, AckedAccounted, Accounted, LossAllowed
  <2> QED BY <2>1, <2>2
<1> QED BY <1>1, <1>2, <1>3 DEF IInv

LEMMA DeliverIInv ==
  ASSUME IInv, NEW i \in Invocations, Deliver(i)
  PROVE  IInv' /\ StepOf(i)
<1>1. PICK b \in Batches :
        /\ invocation' = [invocation EXCEPT
               ![i] = [Idle EXCEPT !.pc = "validating", !.batch = b]]
        /\ queue' = [m \in Messages |->
                       IF \E k \in DOMAIN b : b[k] = m THEN "inFlight" ELSE queue[m]]
        /\ UNCHANGED <<processed, deadLetters>>
  BY DEF Deliver
<1>2. PICK n \in 1..MaxBatch : b \in [1..n -> {m \in Messages : queue[m] = "queued"}]
  BY DEF Batches
<1>3. b \in Seq(Messages) /\ Len(b) = n /\ DOMAIN b = 1..n /\ n \in Nat
  <2>1. b \in [1..n -> Messages] /\ n \in Nat
    BY <1>2
  <2> QED BY <2>1, SeqDef, LenProperties
<1>4. invocation'[i] = [pc |-> "validating", batch |-> b, pos |-> 1, handler |-> 1,
                        failed |-> {}, scope |-> NoMessage]
  BY <1>1 DEF Idle, IInv, TypeOK
<1>5. BatchOf(i)' = {b[k] : k \in 1..n}
  BY <1>3, <1>4 DEF BatchOf
<1>6. invocation'[i] \in DispatchRecords
  BY <1>3, <1>4 DEF DispatchRecords
<1>7. TypeOK'
  <2>1. queue' \in [Messages -> {"queued", "inFlight", "acked"}]
    BY <1>1 DEF IInv, TypeOK
  <2>2. invocation' \in [Invocations -> DispatchRecords]
    BY <1>1, <1>4, <1>6 DEF IInv, TypeOK
  <2>3. \A j \in Invocations \ {i} : invocation'[j] = invocation[j]
    BY <1>1 DEF IInv, TypeOK
  <2>4. \A j \in Invocations :
          /\ invocation'[j].pos \in 1..(Len(invocation'[j].batch) + 1)
          /\ invocation'[j].handler \in (1..Len(Handlers)) \cup {1}
          /\ invocation'[j].failed \subseteq 1..Len(invocation'[j].batch)
    BY <1>3, <1>4, <2>3 DEF IInv, TypeOK
  <2> QED BY <1>1, <2>1, <2>2, <2>4 DEF IInv, TypeOK
<1>8. Progress(i)'
  BY <1>4 DEF Progress
<1>9. BatchInFlight(i)'
  BY <1>1, <1>2, <1>3, <1>5 DEF BatchInFlight
<1>10. StepOf(i)
  BY <1>1, <1>2, <1>3 DEF StepOf, IInv, TypeOK
<1>11. \A m \in BatchOf(i)' : queue[m] = "queued"
  BY <1>2, <1>5
<1>12. \A m \in BatchOf(i) : m \in Messages /\ queue'[m] # "acked"
  BY <1>1, BatchInMessages DEF IInv, BatchInFlight
<1> QED BY <1>7, <1>8, <1>9, <1>10, <1>11, <1>12, StepIInv

(* A step that changes the locals of i and perhaps processes a message, without *)
(* ending the invocation.                                                       *)
LEMMA UpdateIInv ==
  ASSUME IInv, NEW i \in Invocations,
         invocation' \in [Invocations -> DispatchRecords],
         \A j \in Invocations \ {i} : invocation'[j] = invocation[j],
         invocation'[i].batch = invocation[i].batch,
         invocation'[i].pos \in 1..(Len(invocation[i].batch) + 1),
         invocation'[i].handler \in (1..Len(Handlers)) \cup {1},
         invocation'[i].failed \subseteq 1..Len(invocation[i].batch),
         queue' = queue,
         processed' \in [Messages -> SUBSET AllHandlers],
         \A m \in Messages : processed[m] \subseteq processed'[m],
         \A m \in Messages \ BatchOf(i) : processed'[m] = processed[m],
         deadLetters \subseteq deadLetters',
         deadLetters' \subseteq deadLetters \cup BatchOf(i),
         Progress(i)'
  PROVE  IInv' /\ StepOf(i)
<1>1. BatchOf(i)' = BatchOf(i) /\ BatchOf(i) \subseteq Messages
  BY BatchInMessages DEF BatchOf, IInv
<1>2. TypeOK'
  BY <1>1 DEF IInv, TypeOK
<1>3. StepOf(i)
  BY <1>1 DEF StepOf, IInv, TypeOK
<1>4. BatchInFlight(i)' /\ \A m \in BatchOf(i) : queue'[m] # "acked"
  BY <1>1 DEF IInv, BatchInFlight
<1> QED BY <1>1, <1>2, <1>3, <1>4, StepIInv

(* A step that ends the invocation, one way or the other.                       *)
LEMMA ReleaseIInv ==
  ASSUME IInv, NEW i \in Invocations,
         \/ Reject(i)
         \/ Acknowledge(i) /\ \A m \in BatchOf(i) : Accounted(m)',
         processed' = processed,
         deadLetters \subseteq deadLetters',
         deadLetters' \subseteq deadLetters \cup BatchOf(i)
  PROVE  IInv' /\ StepOf(i)
<1>1. invocation' = [invocation EXCEPT ![i] = Idle]
  BY DEF Reject, Acknowledge
<1>2. <<>> \in Seq(Messages) /\ Len(<<>>) = 0
  OBVIOUS
<1>3. Idle \in DispatchRecords
  BY <1>2 DEF Idle, DispatchRecords
<1>4. invocation'[i] = Idle
  BY <1>1 DEF IInv, TypeOK
<1>5. BatchOf(i)' = {}
  BY <1>2, <1>4 DEF BatchOf, Idle
<1>6. BatchOf(i) \subseteq Messages
  BY BatchInMessages DEF IInv
<1>7. TypeOK'
  <2>1. queue' \in [Messages -> {"queued", "inFlight", "acked"}]
    BY DEF Reject, Acknowledge, IInv, TypeOK
  <2>2. invocation' \in [Invocations -> DispatchRecords]
    BY <1>1, <1>3 DEF IInv, TypeOK
  <2>3. \A j \in Invocations :
          /\ invocation'[j].pos \in 1..(Len(invocation'[j].batch) + 1)
          /\ invocation'[j].handler \in (1..Len(Handlers)) \cup {1}
          /\ invocation'[j].failed \subseteq 1..Len(invocation'[j].batch)
    <3>1. \A j \in Invocations \ {i} : invocation'[j] = invocation[j]
      BY <1>1 DEF IInv, TypeOK
    <3> QED BY <1>2, <1>4, <3>1 DEF IInv, TypeOK, Idle
  <2> QED BY <1>6, <2>1, <2>2, <2>3 DEF IInv, TypeOK
<1>8. StepOf(i)
  BY <1>1 DEF StepOf, Reject, Acknowledge, IInv, TypeOK
<1>9. Progress(i)' /\ BatchInFlight(i)'
  BY <1>4, <1>5 DEF Progress, BatchInFlight, Idle
<1>10. \A m \in BatchOf(i) : queue'[m] = "acked" => Accounted(m)'
  BY <1>6 DEF Reject
<1> QED BY <1>5, <1>7, <1>8, <1>9, <1>10, StepIInv

(* The common case: only the locals of i change. *)
LEMMA LocalIInv ==
  ASSUME IInv, NEW i \in Invocations, NEW w \in DispatchRecords,
         invocation' = [invocation EXCEPT ![i] = w],
         UNCHANGED <<queue, processed, deadLetters>>,
         w.batch = invocation[i].batch,
         w.pos \in 1..(Len(w.batch) + 1),
         w.handler \in (1..Len(Handlers)) \cup {1},
         w.failed \subseteq 1..Len(w.batch),
         Progress(i)'
  PROVE  IInv' /\ StepOf(i)
<1>1. invocation'[i] = w /\ \A j \in Invocations \ {i} : invocation'[j] = invocation[j]
  BY DEF IInv, TypeOK
<1>2. invocation' \in [Invocations -> DispatchRecords]
  BY DEF IInv, TypeOK
<1> QED BY <1>1, <1>2, UpdateIInv DEF IInv, TypeOK

LEMMA ValidateIInv ==
  ASSUME IInv, NEW i \in Invocations, Validate(i)
  PROVE  IInv' /\ StepOf(i)
<1>1. CASE Reject(i)
  BY <1>1, ReleaseIInv DEF Validate
<1>2. CASE /\ invocation' = [invocation EXCEPT ![i].pc = "dispatching"]
           /\ Handlers # <<>> /\ UNCHANGED queue
  <2> DEFINE v == invocation[i]
             w == [v EXCEPT !.pc = "dispatching"]
  <2>1. v \in DispatchRecords /\ v.pc = "validating" /\ Progress(i)
    BY DEF IInv, TypeOK, Validate
  <2>2. invocation' = [invocation EXCEPT ![i] = w] /\ w \in DispatchRecords
    BY <1>2, <2>1 DEF DispatchRecords
  <2>3. v.pos = 1 /\ v.failed = {}
    BY <2>1 DEF Progress
  <2>4. invocation'[i] = w
    BY <2>2 DEF IInv, TypeOK
  <2>5. Progress(i)'
    BY <1>2, <2>1, <2>3, <2>4 DEF Progress, DispatchRecords
  <2> QED
    BY <1>2, <2>1, <2>2, <2>4, <2>5, LocalIInv DEF IInv, TypeOK, Validate, DispatchRecords
<1> QED BY <1>1, <1>2 DEF Validate

LEMMA BeginMessageIInv ==
  ASSUME IInv, NEW i \in Invocations, BeginMessage(i)
  PROVE  IInv' /\ StepOf(i)
<1> DEFINE v == invocation[i]
           w == [v EXCEPT !.pc = "resolving",
                          !.scope = IF i \in Degrading THEN NoMessage ELSE Current(i)]
<1>1. v \in DispatchRecords /\ v.pc = "dispatching" /\ v.pos <= Len(v.batch) /\ Progress(i)
  BY DEF IInv, TypeOK, BeginMessage
<1>2. Current(i) \in Messages
  BY <1>1 DEF Current, DispatchRecords, IInv, TypeOK
<1>3. invocation' = [invocation EXCEPT ![i] = w] /\ w \in DispatchRecords
  BY <1>1, <1>2 DEF BeginMessage, DispatchRecords
<1>4. invocation'[i] = w
  BY <1>3 DEF IInv, TypeOK
<1>5. Progress(i)'
  <2>1. /\ invocation'[i].pc = "resolving" /\ invocation'[i].pos = v.pos
        /\ invocation'[i].batch = v.batch /\ invocation'[i].failed = v.failed
    BY <1>1, <1>4 DEF DispatchRecords
  <2>2. processed' = processed
    BY DEF BeginMessage
  <2> QED BY <1>1, <2>1, <2>2 DEF Progress
<1> QED
  BY <1>1, <1>3, <1>4, <1>5, LocalIInv DEF IInv, TypeOK, BeginMessage, DispatchRecords

LEMMA ResolveIInv ==
  ASSUME IInv, NEW i \in Invocations, Resolve(i)
  PROVE  IInv' /\ StepOf(i)
<1> DEFINE v == invocation[i]
           w == [v EXCEPT !.pc = "handling", !.handler = 1, !.scope = Current(i)]
<1>1. v \in DispatchRecords /\ v.pc = "resolving" /\ Progress(i)
  BY DEF IInv, TypeOK, Resolve
<1>2. v.pos \in 1..Len(v.batch) /\ Handlers # <<>> /\ Len(Handlers) \in Nat \ {0}
  BY <1>1 DEF Progress, IInv, TypeOK, DispatchRecords
<1>3. Current(i) \in Messages
  BY <1>1, <1>2 DEF Current, DispatchRecords
<1>4. invocation' = [invocation EXCEPT ![i] = w] /\ w \in DispatchRecords
  BY <1>1, <1>3 DEF Resolve, DispatchRecords
<1>5. invocation'[i] = w
  BY <1>4 DEF IInv, TypeOK
<1>6. Progress(i)'
  <2>1. /\ invocation'[i].pc = "handling" /\ invocation'[i].pos = v.pos
        /\ invocation'[i].batch = v.batch /\ invocation'[i].failed = v.failed
        /\ invocation'[i].handler = 1
    BY <1>1, <1>5 DEF DispatchRecords
  <2>2. processed' = processed
    BY DEF Resolve
  <2> QED BY <1>1, <1>2, <2>1, <2>2 DEF Progress
<1> QED
  BY <1>1, <1>4, <1>5, <1>6, LocalIInv DEF IInv, TypeOK, Resolve, DispatchRecords

(* While a message is being handled, the dispatch is at it and at a handler.    *)
LEMMA HandlingFacts ==
  ASSUME IInv, NEW i \in Invocations, invocation[i].pc = "handling"
  PROVE  LET v == invocation[i] IN
         /\ v \in DispatchRecords
         /\ Progress(i)
         /\ v.pos \in 1..Len(v.batch)
         /\ Current(i) \in Messages /\ Current(i) \in BatchOf(i)
         /\ v.handler \in 1..Len(Handlers)
         /\ Len(Handlers) \in Nat
         /\ v.failed \subseteq 1..Len(v.batch)
<1>1. invocation[i] \in DispatchRecords /\ Progress(i)
  BY DEF IInv, TypeOK
<1>2. invocation[i].pos \in 1..Len(invocation[i].batch)
  BY <1>1 DEF Progress, IInv, TypeOK, DispatchRecords
<1>3. Current(i) \in Messages /\ Current(i) \in BatchOf(i)
  BY <1>1, <1>2 DEF Current, BatchOf, DispatchRecords
<1> QED BY <1>1, <1>2, <1>3 DEF Progress, IInv, TypeOK

(* The record the loop continues with after a message.                          *)
LEMMA NextMessageFacts ==
  ASSUME IInv, NEW i \in Invocations, invocation[i].pc = "handling",
         NEW failed \in SUBSET (1..Len(invocation[i].batch)), NextMessage(i, failed)
  PROVE  /\ invocation' \in [Invocations -> DispatchRecords]
         /\ \A j \in Invocations \ {i} : invocation'[j] = invocation[j]
         /\ invocation'[i].batch = invocation[i].batch
         /\ invocation'[i].pos = invocation[i].pos + 1
         /\ invocation'[i].pos \in 1..(Len(invocation[i].batch) + 1)
         /\ invocation'[i].handler = 1
         /\ invocation'[i].failed = failed
         /\ invocation'[i].pc = "dispatching"
<1> DEFINE v == invocation[i]
           w == [v EXCEPT !.pc = "dispatching", !.pos = v.pos + 1, !.handler = 1,
                          !.failed = failed, !.scope = NoMessage]
<1>1. v \in DispatchRecords /\ v.pos \in 1..Len(v.batch) /\ Len(v.batch) \in Nat
  BY HandlingFacts DEF DispatchRecords
<1>2. invocation' = [invocation EXCEPT ![i] = w] /\ w \in DispatchRecords
  <2>1. invocation' = [invocation EXCEPT ![i] = w]
    BY DEF NextMessage
  <2>2. failed \in SUBSET Nat /\ v.pos + 1 \in Nat
    BY <1>1
  <2>3. w \in DispatchRecords
    BY <1>1, <2>2 DEF DispatchRecords
  <2> QED BY <2>1, <2>3
<1>3. invocation'[i] = w /\ \A j \in Invocations \ {i} : invocation'[j] = invocation[j]
  BY <1>2 DEF IInv, TypeOK
<1>4. invocation' \in [Invocations -> DispatchRecords]
  BY <1>2 DEF IInv, TypeOK
<1>5. /\ w.batch = v.batch /\ w.pos = v.pos + 1 /\ w.handler = 1
      /\ w.failed = failed /\ w.pc = "dispatching"
  BY <1>1 DEF DispatchRecords
<1>6. w.pos \in 1..(Len(v.batch) + 1)
  BY <1>1, <1>5
<1> QED BY <1>3, <1>4, <1>5, <1>6

LEMMA HandlerReturnsIInv ==
  ASSUME IInv, NEW i \in Invocations, HandlerReturns(i)
  PROVE  IInv' /\ StepOf(i)
<1> DEFINE v == invocation[i]
           m == Current(i)
           h == v.handler
<1>1. /\ v \in DispatchRecords /\ v.pc = "handling" /\ Progress(i)
      /\ v.pos \in 1..Len(v.batch) /\ m \in Messages /\ m \in BatchOf(i)
      /\ h \in 1..Len(Handlers) /\ Len(Handlers) \in Nat
      /\ v.failed \subseteq 1..Len(v.batch) /\ Len(v.batch) \in Nat
  BY HandlingFacts DEF HandlerReturns, DispatchRecords
<1>2. processed' = [processed EXCEPT ![m] = @ \cup {Handlers[h]}]
  BY DEF HandlerReturns
<1>3. Handlers[h] \in AllHandlers
  BY <1>1 DEF AllHandlers
<1>4. /\ processed' \in [Messages -> SUBSET AllHandlers]
      /\ processed'[m] = processed[m] \cup {Handlers[h]}
      /\ \A n \in Messages : processed[n] \subseteq processed'[n]
      /\ \A n \in Messages \ BatchOf(i) : processed'[n] = processed[n]
  BY <1>1, <1>2, <1>3 DEF IInv, TypeOK
<1>5. \A k \in 1..Len(v.batch) :
        processed[v.batch[k]] = AllHandlers => processed'[v.batch[k]] = AllHandlers
  <2>1. \A n \in Messages : processed[n] = AllHandlers => processed'[n] = AllHandlers
    <3>1. \A n \in Messages :
            processed[n] \subseteq processed'[n] /\ processed'[n] \subseteq AllHandlers
      BY <1>4
    <3> QED BY <3>1, Zenon
  <2>2. \A k \in 1..Len(v.batch) : v.batch[k] \in Messages
    BY <1>1 DEF DispatchRecords
  <2> QED BY <2>1, <2>2
<1>6. queue' = queue /\ deadLetters' = deadLetters
  BY DEF HandlerReturns
<1>7. \A g \in 1..h : Handlers[g] \in processed'[m]
  BY <1>1, <1>4 DEF Progress, Current
<1>8. CASE h < Len(Handlers)
  <2> DEFINE w == [v EXCEPT !.handler = h + 1]
  <2>1. invocation' = [invocation EXCEPT ![i] = w] /\ w \in DispatchRecords
    <3>1. invocation' = [invocation EXCEPT ![i] = w]
      BY <1>8 DEF HandlerReturns
    <3>2. h + 1 \in Nat
      BY <1>1
    <3>3. w \in DispatchRecords
      BY <1>1, <3>2 DEF DispatchRecords
    <3> QED BY <3>1, <3>3
  <2>2. /\ invocation'[i] = w
        /\ \A j \in Invocations \ {i} : invocation'[j] = invocation[j]
        /\ invocation' \in [Invocations -> DispatchRecords]
    BY <2>1 DEF IInv, TypeOK
  <2>3. /\ w.pc = "handling" /\ w.pos = v.pos /\ w.batch = v.batch
        /\ w.failed = v.failed /\ w.handler = h + 1
    BY <1>1 DEF DispatchRecords
  <2>4. h + 1 \in 1..Len(Handlers) /\ 1..((h + 1) - 1) = 1..h
    BY <1>1, <1>8
  <2>5. Progress(i)'
    <3>1. \A g \in 1..(w.handler - 1) : Handlers[g] \in processed'[w.batch[w.pos]]
      BY <1>7, <2>3, <2>4 DEF Current
    <3>2. \A k \in 1..(w.pos - 1) : processed'[w.batch[k]] = AllHandlers \/ k \in w.failed
      BY <1>1, <1>5, <2>3 DEF Progress
    <3> HIDE DEF w
    <3> QED BY <1>1, <2>2, <2>3, <2>4, <3>1, <3>2 DEF Progress
  <2>6. w.pos \in 1..(Len(v.batch) + 1)
    BY <1>1, <2>3
  <2> HIDE DEF w
  <2> QED BY <1>1, <1>4, <1>6, <2>2, <2>3, <2>4, <2>5, <2>6, UpdateIInv
<1>9. CASE ~(h < Len(Handlers))
  <2>1. h = Len(Handlers) /\ NextMessage(i, v.failed)
    BY <1>1, <1>9 DEF HandlerReturns
  <2>2. processed'[m] = AllHandlers
    BY <1>1, <1>4, <1>7, <2>1 DEF AllHandlers
  <2>3. /\ invocation' \in [Invocations -> DispatchRecords]
        /\ \A j \in Invocations \ {i} : invocation'[j] = invocation[j]
        /\ invocation'[i].batch = v.batch
        /\ invocation'[i].pos = v.pos + 1
        /\ invocation'[i].pos \in 1..(Len(v.batch) + 1)
        /\ invocation'[i].handler = 1
        /\ invocation'[i].failed = v.failed
        /\ invocation'[i].pc = "dispatching"
    BY <1>1, <2>1, NextMessageFacts
  <2>4. \A k \in 1..((v.pos + 1) - 1) :
          processed'[v.batch[k]] = AllHandlers \/ k \in v.failed
    <3>1. \A k \in 1..(v.pos - 1) : processed'[v.batch[k]] = AllHandlers \/ k \in v.failed
      <4>1. \A k \in 1..(v.pos - 1) : processed[v.batch[k]] = AllHandlers \/ k \in v.failed
        BY <1>1 DEF Progress
      <4>2. \A k \in 1..(v.pos - 1) : k \in 1..Len(v.batch)
        BY <1>1
      <4> QED BY <1>5, <4>1, <4>2
    <3>2. processed'[v.batch[v.pos]] = AllHandlers
      BY <2>2 DEF Current
    <3>3. \A k \in 1..((v.pos + 1) - 1) : k \in 1..(v.pos - 1) \/ k = v.pos
      BY <1>1
    <3> QED BY <3>1, <3>2, <3>3
  <2>5. Progress(i)'
    BY <1>1, <2>3, <2>4 DEF Progress
  <2> QED BY <1>1, <1>4, <1>6, <2>3, <2>5, UpdateIInv
<1> QED BY <1>8, <1>9

LEMMA HandlerThrowsIInv ==
  ASSUME IInv, NEW i \in Invocations, HandlerThrows(i)
  PROVE  IInv' /\ StepOf(i)
<1> DEFINE v == invocation[i]
           failed == v.failed \cup {v.pos}
<1>1. CASE Reject(i)
  BY <1>1, ReleaseIInv DEF HandlerThrows
<1>2. CASE i \in Degrading /\ NextMessage(i, failed) /\ UNCHANGED queue
  <2>1. /\ v \in DispatchRecords /\ v.pc = "handling" /\ Progress(i)
        /\ v.pos \in 1..Len(v.batch) /\ Len(v.batch) \in Nat
        /\ v.failed \subseteq 1..Len(v.batch)
    BY HandlingFacts DEF HandlerThrows, DispatchRecords
  <2>2. failed \in SUBSET (1..Len(v.batch))
    BY <2>1
  <2>3. /\ invocation' \in [Invocations -> DispatchRecords]
        /\ \A j \in Invocations \ {i} : invocation'[j] = invocation[j]
        /\ invocation'[i].batch = v.batch
        /\ invocation'[i].pos = v.pos + 1
        /\ invocation'[i].pos \in 1..(Len(v.batch) + 1)
        /\ invocation'[i].handler = 1
        /\ invocation'[i].failed = failed
        /\ invocation'[i].pc = "dispatching"
    BY <1>2, <2>1, <2>2, NextMessageFacts
  <2>4. UNCHANGED <<queue, processed, deadLetters>>
    BY <1>2 DEF HandlerThrows
  <2>5. \A k \in failed : v.batch[k] \in Throwing \cup Undecodable
    BY <2>1 DEF Progress, HandlerThrows, Current
  <2>6. \A k \in 1..((v.pos + 1) - 1) : processed[v.batch[k]] = AllHandlers \/ k \in failed
    BY <2>1 DEF Progress
  <2>7. Progress(i)'
    <3> HIDE DEF failed
    <3> QED BY <1>2, <2>1, <2>3, <2>4, <2>5, <2>6 DEF Progress
  <2> HIDE DEF failed
  <2> QED BY <2>2, <2>3, <2>4, <2>7, UpdateIInv DEF IInv, TypeOK
<1> QED BY <1>1, <1>2 DEF HandlerThrows

(* At the end of the loop every message is handled or recorded as failed.       *)
LEMMA FinishBatchIInv ==
  ASSUME IInv, NEW i \in Invocations, FinishBatch(i)
  PROVE  IInv' /\ StepOf(i)
<1> DEFINE v == invocation[i]
           w == [v EXCEPT !.pc = "republishing"]
<1>1. /\ v \in DispatchRecords /\ Progress(i) /\ v.pc = "dispatching"
      /\ v.pos = Len(v.batch) + 1 /\ Len(v.batch) \in Nat
  BY DEF FinishBatch, IInv, TypeOK, DispatchRecords
<1>2. /\ \A k \in 1..Len(v.batch) : processed[v.batch[k]] = AllHandlers \/ k \in v.failed
      /\ \A k \in v.failed : v.batch[k] \in Throwing \cup Undecodable
  BY <1>1 DEF Progress
<1>3. UNCHANGED <<processed, deadLetters>>
  BY DEF FinishBatch
<1>4. CASE v.failed # {} /\ HasDeadLetterQueue
  <2>1. invocation' = [invocation EXCEPT ![i] = w] /\ UNCHANGED queue
    BY <1>4 DEF FinishBatch
  <2>2. w \in DispatchRecords
    BY <1>1 DEF DispatchRecords
  <2>3. /\ w.pc = "republishing" /\ w.pos = v.pos /\ w.batch = v.batch
        /\ w.failed = v.failed /\ w.handler = v.handler
    BY <1>1 DEF DispatchRecords
  <2>4. invocation'[i] = w
    BY <2>1 DEF IInv, TypeOK
  <2>5. Progress(i)'
    <3> HIDE DEF w
    <3> QED BY <1>1, <1>2, <1>3, <2>3, <2>4 DEF Progress, Accounted
  <2>6. /\ w.pos \in 1..(Len(w.batch) + 1)
        /\ w.handler \in (1..Len(Handlers)) \cup {1}
        /\ w.failed \subseteq 1..Len(w.batch)
    BY <2>3 DEF IInv, TypeOK
  <2> HIDE DEF w
  <2> QED BY <1>3, <2>1, <2>2, <2>3, <2>5, <2>6, LocalIInv
<1>5. CASE ~(v.failed # {} /\ HasDeadLetterQueue)
  <2>1. Acknowledge(i)
    BY <1>5 DEF FinishBatch
  <2>2. \A k \in 1..Len(v.batch) : Accounted(v.batch[k])
    BY <1>1, <1>2, <1>5 DEF Progress, Accounted, LossAllowed
  <2>3. \A m \in BatchOf(i) : Accounted(m)
    BY <2>2 DEF BatchOf
  <2>4. \A m \in BatchOf(i) : Accounted(m)'
    BY <1>3, <2>3 DEF Accounted
  <2> QED BY <1>3, <2>1, <2>4, ReleaseIInv
<1> QED BY <1>4, <1>5

LEMMA RepublishIInv ==
  ASSUME IInv, NEW i \in Invocations, Republish(i)
  PROVE  IInv' /\ StepOf(i)
<1> DEFINE v == invocation[i]
<1>1. PICK k \in v.failed :
        /\ \/ deadLetters' = deadLetters \cup {v.batch[k]}
           \/ "publish" \in Faults /\ UNCHANGED deadLetters
        /\ IF v.failed = {k}
           THEN Acknowledge(i)
           ELSE /\ invocation' = [invocation EXCEPT ![i].failed = @ \ {k}]
                /\ UNCHANGED queue
  BY DEF Republish
<1>2. /\ v \in DispatchRecords /\ Progress(i) /\ v.pc = "republishing"
      /\ Len(v.batch) \in Nat /\ v.failed \subseteq 1..Len(v.batch)
  BY DEF Republish, IInv, TypeOK, DispatchRecords
<1>3. processed' = processed
  BY DEF Republish
<1>4. v.batch[k] \in BatchOf(i) /\ v.batch[k] \in Throwing \cup Undecodable /\ i \in Degrading
  BY <1>1, <1>2 DEF BatchOf, Progress
<1>5. deadLetters \subseteq deadLetters' /\ deadLetters' \subseteq deadLetters \cup BatchOf(i)
  BY <1>1, <1>4
<1>6. \A m : Accounted(m) =>
        \/ processed'[m] = AllHandlers
        \/ m \in deadLetters'
        \/ LossAllowed /\ m \in Throwing \cup Undecodable
  BY <1>3, <1>5 DEF Accounted
<1>7. \/ v.batch[k] \in deadLetters'
      \/ LossAllowed /\ v.batch[k] \in Throwing \cup Undecodable
  BY <1>1, <1>4 DEF LossAllowed
<1>8. \A j \in 1..Len(v.batch) :
        \/ processed'[v.batch[j]] = AllHandlers
        \/ v.batch[j] \in deadLetters'
        \/ LossAllowed /\ v.batch[j] \in Throwing \cup Undecodable
        \/ j \in v.failed \ {k}
  BY <1>2, <1>6, <1>7 DEF Progress
<1>9. CASE v.failed = {k}
  <2>1. \A m \in BatchOf(i) : Accounted(m)'
    BY <1>8, <1>9 DEF BatchOf, Accounted, LossAllowed
  <2> QED BY <1>1, <1>3, <1>5, <1>9, <2>1, ReleaseIInv
<1>10. CASE v.failed # {k}
  <2> DEFINE w == [v EXCEPT !.failed = v.failed \ {k}]
  <2>1. invocation' = [invocation EXCEPT ![i] = w] /\ queue' = queue
    BY <1>1, <1>10
  <2>2. w \in DispatchRecords
    BY <1>2 DEF DispatchRecords
  <2>3. /\ w.pc = "republishing" /\ w.pos = v.pos /\ w.batch = v.batch
        /\ w.failed = v.failed \ {k} /\ w.handler = v.handler
    BY <1>2 DEF DispatchRecords
  <2>4. /\ invocation'[i] = w
        /\ \A j \in Invocations \ {i} : invocation'[j] = invocation[j]
        /\ invocation' \in [Invocations -> DispatchRecords]
    BY <2>1, <2>2 DEF IInv, TypeOK
  <2>5. Progress(i)'
    <3>1. \A j \in 1..Len(w.batch) :
            \/ processed'[w.batch[j]] = AllHandlers
            \/ w.batch[j] \in deadLetters'
            \/ LossAllowed /\ w.batch[j] \in Throwing \cup Undecodable
            \/ j \in w.failed
      BY <1>8, <2>3
    <3>2. \A j \in w.failed : w.batch[j] \in Throwing \cup Undecodable
      BY <1>2, <2>3 DEF Progress
    <3>3. Handlers # <<>>
      BY <1>2 DEF Progress
    <3> HIDE DEF w
    <3> QED BY <1>4, <2>3, <2>4, <3>1, <3>2, <3>3 DEF Progress, Accounted, LossAllowed
  <2>6. /\ w.pos \in 1..(Len(v.batch) + 1)
        /\ w.handler \in (1..Len(Handlers)) \cup {1}
        /\ w.failed \subseteq 1..Len(v.batch)
    BY <1>2, <2>3 DEF IInv, TypeOK
  <2> HIDE DEF w
  <2> QED BY <1>3, <1>5, <2>1, <2>3, <2>4, <2>5, <2>6, UpdateIInv DEF IInv, TypeOK
<1> QED BY <1>9, <1>10

LEMMA StepKeepsIInv ==
  ASSUME IInv, NEW i \in Invocations, Deliver(i) \/ DispatchStep(i) \/ Crash(i)
  PROVE  IInv' /\ StepOf(i)
<1>1. CASE ResolveFails(i)
  BY <1>1, ReleaseIInv DEF ResolveFails
<1>2. CASE Crash(i)
  BY <1>2, ReleaseIInv DEF Crash
<1> QED
  BY <1>1, <1>2, DeliverIInv, ValidateIInv, BeginMessageIInv, ResolveIInv,
     HandlerReturnsIInv, HandlerThrowsIInv, FinishBatchIInv, RepublishIInv
  DEF DispatchStep

(* The inductive invariant holds in every reachable state.                      *)
THEOREM Invariance == Spec => []IInv
<1>1. IInv /\ UNCHANGED vars => IInv'
  <2> SUFFICES ASSUME IInv, UNCHANGED vars PROVE IInv'
    OBVIOUS
  <2>1. TypeOK'
    BY DEF IInv, vars, TypeOK
  <2>2. Exclusive'
    <3>1. \A i \in Invocations : BatchOf(i)' = BatchOf(i)
      BY DEF vars, BatchOf
    <3> QED BY <3>1 DEF IInv, Exclusive
  <2>3. AckedAccounted'
    BY DEF IInv, vars, AckedAccounted, Accounted, LossAllowed
  <2>4. \A i \in Invocations : BatchInFlight(i)'
    BY DEF IInv, vars, BatchInFlight, BatchOf
  <2>5. \A i \in Invocations : Progress(i)'
    BY DEF IInv, vars, Progress, Accounted, LossAllowed
  <2> QED BY <2>1, <2>2, <2>3, <2>4, <2>5 DEF IInv
<1>2. IInv /\ [Next]_vars => IInv'
  BY <1>1, StepKeepsIInv DEF Next
<1> QED BY InitIInv, <1>2, PTL DEF Spec

(* Type correctness of the queue transport.                                     *)
THEOREM TypeCorrect == Spec => []TypeOK
<1>1. IInv => TypeOK
  BY DEF IInv
<1> QED BY <1>1, Invariance, PTL

(* In every configuration, with any faults, a message leaves the queue only     *)
(* handled or dead lettered, or lost where loss is documented and a handler has *)
(* failed on it (dispatch.ts, dispatchQueueHandlers).                           *)
THEOREM OnlyFailedLost == Spec => []OnlyFailedIsLost
<1>1. IInv => OnlyFailedIsLost
  BY DEF IInv, AckedAccounted, Accounted, OnlyFailedIsLost, Fate
<1> QED BY <1>1, Invariance, PTL

(* The dispatch never runs ahead of a message or a handler (dispatch.ts,        *)
(* invokeHandlers).                                                             *)
THEOREM DispatchedInOrder == Spec => []InOrder
<1>1. IInv => InOrder
  BY DEF IInv, Progress, InOrder
<1> QED BY <1>1, Invariance, PTL

LEMMA FateRefinesInit == Init => Delivery!Init
  BY DEF Init, Delivery!Init, Fate

(* A step acknowledges a batch, all of it with an allowed outcome, or changes   *)
(* no fate.                                                                     *)
LEMMA FateRefinesStep ==
  ASSUME IInv, NEW i \in Invocations, IInv', StepOf(i)
  PROVE  Delivery!Settle
<1> DEFINE batch == {m \in Messages : queue[m] # "acked" /\ queue'[m] = "acked"}
           outcome == [m \in batch |-> Fate(m)']
<1>1. \A m \in Messages : queue[m] = "acked" => queue'[m] = "acked" /\ Fate(m)' = Fate(m)
  <2> SUFFICES ASSUME NEW m \in Messages, queue[m] = "acked"
               PROVE  queue'[m] = "acked" /\ Fate(m)' = Fate(m)
    OBVIOUS
  <2>1. m \notin BatchOf(i)
    BY DEF IInv, BatchInFlight
  <2>2. /\ queue'[m] = "acked" /\ processed'[m] = processed[m]
        /\ m \in deadLetters' <=> m \in deadLetters
    BY <2>1 DEF StepOf
  <2> QED BY <2>2 DEF Fate
<1>2. \A m \in Messages : queue'[m] # "acked" => Fate(m)' = Fate(m)
  BY <1>1 DEF Fate
<1>3. \A m \in batch : Fate(m) = "pending"
  BY DEF Fate
<1>4. \A m \in batch : Fate(m)' \in Delivery!Fates
  BY DEF IInv, AckedAccounted, Accounted, Fate, Delivery!Fates
<1>5. batch \in SUBSET {m \in Messages : Fate(m) = "pending"}
  BY <1>3
<1>6. outcome \in [batch -> Delivery!Fates]
  BY <1>4
<1>7. [m \in Messages |-> Fate(m)]' =
        [m \in Messages |-> IF m \in batch THEN outcome[m] ELSE [n \in Messages |-> Fate(n)][m]]
  BY <1>1, <1>2
<1> HIDE DEF batch, outcome
<1> QED BY <1>5, <1>6, <1>7 DEF Delivery!Settle

(* The dispatch implements the promise of MessageDelivery.                      *)
THEOREM DeliveryRefined == Spec => DeliveryPromise
<1>1. IInv /\ IInv' /\ [Next]_vars =>
        [Delivery!Settle]_[m \in Messages |-> Fate(m)]
  <2>1. CASE UNCHANGED vars
    BY <2>1 DEF vars, Fate
  <2>2. ASSUME IInv, IInv', NEW i \in Invocations,
               Deliver(i) \/ DispatchStep(i) \/ Crash(i)
        PROVE  Delivery!Settle
    BY <2>2, StepKeepsIInv, FateRefinesStep
  <2> QED BY <2>1, <2>2 DEF Next
<1> QED BY <1>1, FateRefinesInit, Invariance, PTL DEF Spec, DeliveryPromise, Delivery!Spec
=============================================================================
