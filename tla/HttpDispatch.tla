---------------------------- MODULE HttpDispatch ----------------------------
(***************************************************************************)
(* The HTTP transport of the connector: one request on its way through the *)
(* layers NestJS registered at cold start (body parser, middleware,        *)
(* routes), to the error and not-found proxies and to the serialised       *)
(* response (packages/nest-bridge/src/http/dispatch-pipeline.ts and        *)
(* yandex-http-adapter.ts).                                                *)
(*                                                                         *)
(* The handlers of the layers are opaque proxies that belong to the        *)
(* application: here they do anything a handler may do with (req, res,     *)
(* next).  The code runs on the event loop: whatever is on the call stack  *)
(* runs until it returns or awaits, and next() calls the next layer on top *)
(* of it.                                                                  *)
(***************************************************************************)
EXTENDS Integers, Sequences

CONSTANTS
    NumLayers,      \* length of plan.layers
    Matching,       \* the layers whose method and pattern match the request
    AsyncLayers,    \* layers whose handler returns a Promise
    CallbackLayers, \* layers whose handler returns and goes on in a callback
    Misuse          \* what else handlers do: "throwAfterNext", "silent",
                    \* "respondAgain", "nextTwice"

Layers == 1..NumLayers
NotFound == NumLayers + 1   \* advance() past the last layer

ASSUME HttpAssumption ==
    /\ NumLayers \in Nat
    /\ Matching \subseteq Layers
    /\ AsyncLayers \subseteq Layers /\ CallbackLayers \subseteq Layers
    /\ AsyncLayers \cap CallbackLayers = {}
    /\ Misuse \subseteq {"throwAfterNext", "silent", "respondAgain", "nextTwice"}

VARIABLES
    stack,         \* the handlers on the call stack
    index,         \* the layer the scan has reached
    handler,       \* the state of each layer's handler
    frame,         \* the state of the advance() of each layer
    handedOff,     \* layers whose next() was called
    continuation,  \* what next() of each layer has started
    response,      \* headersSent, who wrote the body, and all who ever wrote one
    serialized     \* runDispatch has returned

vars == <<stack, index, handler, frame, handedOff, continuation, response, serialized>>

Nobody == 0         \* no layer
FromError == -1     \* the error layer or the last-resort 500
FromNotFound == -2  \* the not-found proxy or the last-resort 404

Unanswered == [headersSent |-> FALSE, by |-> Nobody, writers |-> {}]

HandlerStates == {"none", "running", "suspended", "resumed", "callback",
                  "returned", "calledBack", "thrown"}
FrameStates == {"none", "calling", "outcome", "continuation", "error", "notFound", "done"}
Continuations == {"none", "advance", "error", "errorDone"}

(* A suspended handler waits for a promise, a "callback" one has returned and  *)
(* will be called back, after which it is "calledBack".                        *)
TypeOK ==
    /\ stack \in Seq(Layers)
    /\ index \in 0..NotFound
    /\ handler \in [Layers -> HandlerStates]
    /\ frame \in [1..NotFound -> FrameStates]
    /\ handedOff \subseteq Layers
    /\ continuation \in [Layers -> Continuations]
    /\ response \in [headersSent: BOOLEAN, by: -2..NumLayers, writers: SUBSET (-2..NumLayers)]
    /\ serialized \in BOOLEAN
    /\ \A k \in Layers : handler[k] \in {"running", "resumed"} <=>
          \E p \in 1..Len(stack) : stack[p] = k

-----------------------------------------------------------------------------
(* The scan. *)

(* The layer advance() gets to from an index: the first one that matches.      *)
LayerAfter(i) ==
    CHOOSE k \in (i + 1)..NotFound :
        /\ k \in Matching \cup {NotFound}
        /\ \A j \in (i + 1)..(k - 1) : j \notin Matching

(* advance(): skips what does not match and calls the handler of the layer it  *)
(* reaches, or the not-found proxy unless the request is answered already.     *)
Advance(k) ==
    /\ index' = k
    /\ IF k = NotFound
       THEN /\ frame' = [frame EXCEPT
                   ![k] = IF response.headersSent THEN "done" ELSE "notFound"]
            /\ UNCHANGED <<handler, stack>>
       ELSE /\ frame' = [frame EXCEPT ![k] = "calling"]
            /\ handler' = [handler EXCEPT ![k] = "running"]
            /\ stack' = Append(stack, k)

Init ==
    /\ LET first == LayerAfter(0) IN
        /\ index = first
        /\ frame = [k \in 1..NotFound |->
              IF k # first THEN "none" ELSE IF k = NotFound THEN "notFound" ELSE "calling"]
        /\ handler = [k \in Layers |-> IF k = first THEN "running" ELSE "none"]
        /\ stack = IF first = NotFound THEN <<>> ELSE <<first>>
    /\ handedOff = {}
    /\ continuation = [k \in Layers |-> "none"]
    /\ response = Unanswered
    /\ serialized = FALSE

-----------------------------------------------------------------------------
(* What a handler does while it is on top of the call stack. *)

Active(k) == stack # <<>> /\ stack[Len(stack)] = k
Pop == SubSeq(stack, 1, Len(stack) - 1)

Write(by) ==
    response' = [headersSent |-> TRUE, by |-> by, writers |-> response.writers \cup {by}]

(* res.json, send, end or redirect: the facade takes every write.              *)
Respond(k) ==
    /\ Active(k)
    /\ k \notin response.writers
    /\ \/ k \notin handedOff /\ ~response.headersSent
       \/ "respondAgain" \in Misuse
    /\ Write(k)
    /\ UNCHANGED <<stack, index, handler, frame, handedOff, continuation, serialized>>

(* Mutant: a second next() advances again instead of throwing.                 *)
CallNextUnguarded(k) ==
    /\ Active(k)
    /\ k \notin response.writers
    /\ k \notin handedOff \/ "nextTwice" \in Misuse
    /\ index < NotFound
    /\ handedOff' = handedOff \cup {k}
    /\ continuation' = [continuation EXCEPT ![k] = "advance"]
    /\ Advance(LayerAfter(index))
    /\ UNCHANGED <<response, serialized>>

(* next(): at most once for every layer.                                       *)
CallNext(k) ==
    /\ Active(k)
    /\ k \notin response.writers
    /\ k \notin handedOff
    /\ handedOff' = handedOff \cup {k}
    /\ continuation' = [continuation EXCEPT ![k] = "advance"]
    /\ Advance(LayerAfter(index))
    /\ UNCHANGED <<response, serialized>>

(* next(error): the error layer takes over.                                    *)
CallNextWithError(k) ==
    /\ Active(k)
    /\ k \notin response.writers
    /\ k \notin handedOff
    /\ handedOff' = handedOff \cup {k}
    /\ continuation' = [continuation EXCEPT ![k] = "error"]
    /\ UNCHANGED <<stack, index, handler, frame, response, serialized>>

(* The handler awaits something, or leaves the rest to a callback.             *)
Suspend(k) ==
    /\ Active(k)
    /\ handler[k] = "running" /\ k \in AsyncLayers
    /\ handler' = [handler EXCEPT ![k] = "suspended"]
    /\ frame' = [frame EXCEPT ![k] = "outcome"]
    /\ stack' = Pop
    /\ UNCHANGED <<index, handedOff, continuation, response, serialized>>

(* Mutant: advance() does not await what next() has started.                   *)
AfterOutcomeForgets(k) == "done"

AfterOutcome(k) == IF continuation[k] = "none" THEN "done" ELSE "continuation"

ReturnWithCallback(k) ==
    /\ Active(k)
    /\ handler[k] = "running" /\ k \in CallbackLayers
    /\ handler' = [handler EXCEPT ![k] = "callback"]
    /\ frame' = [frame EXCEPT ![k] = AfterOutcome(k)]
    /\ stack' = Pop
    /\ UNCHANGED <<index, handedOff, continuation, response, serialized>>

(* The handler is finished: it has answered, called next() or been silent.     *)
Return(k) ==
    /\ Active(k)
    /\ k \in handedOff \/ response.headersSent \/ "silent" \in Misuse
    /\ handler' = [handler EXCEPT ![k] =
          IF k \in CallbackLayers /\ @ = "resumed" THEN "calledBack" ELSE "returned"]
    /\ frame' = IF k \in CallbackLayers /\ handler[k] = "resumed" THEN frame
                ELSE [frame EXCEPT ![k] =
                         IF k \in AsyncLayers THEN "outcome" ELSE AfterOutcome(k)]
    /\ stack' = Pop
    /\ UNCHANGED <<index, handedOff, continuation, response, serialized>>

(* The handler throws, or calls next() again, which throws.                    *)
Throw(k) ==
    /\ Active(k)
    /\ ~(k \in CallbackLayers /\ handler[k] = "resumed")
    /\ k \in handedOff => Misuse \cap {"throwAfterNext", "nextTwice"} # {}
    /\ handler' = [handler EXCEPT ![k] = "thrown"]
    /\ frame' = [frame EXCEPT ![k] = IF k \in AsyncLayers THEN "outcome" ELSE "error"]
    /\ stack' = Pop
    /\ UNCHANGED <<index, handedOff, continuation, response, serialized>>

(* The event loop calls a handler again.                                       *)
Resume(k) ==
    /\ stack = <<>>
    /\ handler[k] \in {"suspended", "callback"}
    /\ handler' = [handler EXCEPT ![k] = "resumed"]
    /\ stack' = <<k>>
    /\ UNCHANGED <<index, frame, handedOff, continuation, response, serialized>>

-----------------------------------------------------------------------------
(* The awaits of advance(). *)

GoOn(k, state) ==
    /\ frame' = [frame EXCEPT ![k] = state]
    /\ UNCHANGED <<stack, index, handler, handedOff, serialized>>

(* await outcome                                                               *)
OutcomeSettles(k) ==
    /\ stack = <<>> /\ frame[k] = "outcome"
    /\ \/ handler[k] = "returned" /\ GoOn(k, AfterOutcome(k))
       \/ handler[k] = "thrown" /\ GoOn(k, "error")
    /\ UNCHANGED <<continuation, response>>

(* await continuation                                                          *)
ContinuationSettles(k) ==
    /\ stack = <<>> /\ frame[k] = "continuation"
    /\ \/ continuation[k] = "advance" /\ frame[LayerAfter(k)] = "done"
       \/ continuation[k] = "errorDone"
    /\ GoOn(k, "done")
    /\ UNCHANGED <<continuation, response>>

(* Mutant: the fallbacks do not look at headersSent.                           *)
AnswerAlways(by) == Write(by)

(* The proxy of Nest answers unless somebody has, and if it does not the last  *)
(* resort does.                                                                *)
AnswerUnlessSent(by) == IF response.headersSent THEN UNCHANGED response ELSE Write(by)

(* invokeErrorLayer after a throw ...                                          *)
ErrorLayerSettles(k) ==
    /\ stack = <<>> /\ frame[k] = "error"
    /\ AnswerUnlessSent(FromError)
    /\ GoOn(k, "done")
    /\ UNCHANGED continuation

(* Mutant: the promise of the error hop never resolves.                        *)
ErrorHopHangs(k) ==
    /\ stack = <<>> /\ continuation[k] = "error"
    /\ AnswerUnlessSent(FromError)
    /\ UNCHANGED <<stack, index, handler, frame, handedOff, continuation, serialized>>

(* ... and after next(error).                                                  *)
ErrorHopSettles(k) ==
    /\ stack = <<>> /\ continuation[k] = "error"
    /\ AnswerUnlessSent(FromError)
    /\ continuation' = [continuation EXCEPT ![k] = "errorDone"]
    /\ UNCHANGED <<stack, index, handler, frame, handedOff, serialized>>

(* invokeNotFound                                                              *)
NotFoundSettles ==
    /\ stack = <<>> /\ frame[NotFound] = "notFound"
    /\ AnswerUnlessSent(FromNotFound)
    /\ GoOn(NotFound, "done")
    /\ UNCHANGED continuation

(* The outermost advance() has settled: serializeResponse.                     *)
Serialize ==
    /\ stack = <<>> /\ ~serialized
    /\ frame[LayerAfter(0)] = "done"
    /\ serialized' = TRUE
    /\ UNCHANGED <<stack, index, handler, frame, handedOff, continuation, response>>

-----------------------------------------------------------------------------
HandlerStep(k) ==
    \/ Respond(k) \/ CallNext(k) \/ CallNextWithError(k) \/ Suspend(k)
    \/ ReturnWithCallback(k) \/ Return(k) \/ Throw(k) \/ Resume(k)

PipelineStep(k) ==
    \/ OutcomeSettles(k) \/ ContinuationSettles(k)
    \/ ErrorLayerSettles(k) \/ ErrorHopSettles(k)

Next == (\E k \in Layers : HandlerStep(k) \/ PipelineStep(k)) \/ NotFoundSettles \/ Serialize

Spec == Init /\ [][Next]_vars

(* Handlers finish and promises settle.                                        *)
FairSpec == Spec /\ WF_vars(Next)

-----------------------------------------------------------------------------
Entered == {k \in Layers : frame[k] # "none"}
Unfinished == {k \in Layers : handler[k] \in {"running", "suspended", "resumed", "callback"}}

(* The response is serialised only when everything next() has forwarded to is  *)
(* settled (dispatch-pipeline.ts, runDispatch), as a comment there has it.     *)
WholeChainSettled ==
    serialized => Unfinished = {} /\ \A k \in Entered : frame[k] = "done"

(* The layers that leave their chain behind: they have thrown after next(), or *)
(* go on in a callback.                                                        *)
LeavingBehind ==
    {k \in handedOff : handler[k] = "thrown"}
      \cup {k \in CallbackLayers : handler[k] \in {"callback", "resumed", "calledBack"}}

(* Only the layers at and after such a one can be unsettled when the response  *)
(* is serialised (dispatch-pipeline.ts, advance): one handler that awaits its  *)
(* part correctly is awaited itself, whatever the others do.                   *)
SerializesLast ==
    serialized => \A k \in Entered :
        \/ frame[k] = "done" /\ k \notin Unfinished
        \/ \E j \in LeavingBehind : j <= k

(* A layer runs only after every matching layer before it has called next(),   *)
(* and not after one of them has failed (dispatch-pipeline.ts, next).          *)
EntersInOrder ==
    \A k \in Entered : \A j \in Matching :
        j < k => j \in handedOff /\ continuation[j] = "advance"

(* Not found is the answer only when every matching layer has passed the       *)
(* request on, and an error only when a handler failed.                        *)
FallbackHasReason ==
    /\ response.by = FromNotFound => Matching \subseteq handedOff
    /\ response.by = FromError =>
         \E k \in Layers : handler[k] = "thrown" \/ continuation[k] = "errorDone"

(* The request goes down the layers one by one, however often and from         *)
(* wherever next() is called, and reaches the fallbacks only at the end or     *)
(* with an error.                                                              *)
LayersInTurn == EntersInOrder /\ FallbackHasReason

(* An answer a handler has committed is never replaced by a fallback: late     *)
(* failures are not written onto the wire.                                     *)
AnswerStays ==
    [][response.headersSent => response' = response \/ response'.by \in Layers]_vars

(* Answered by a handler or by the fallbacks, unless a handler neither answers *)
(* nor forwards before it returns: no failure and no unmatched path goes       *)
(* unanswered (dispatch-pipeline.ts, writeLastResortResponse).                 *)
Answered ==
    \/ response.headersSent
    \/ \E k \in Entered \cap Layers :
          k \in CallbackLayers \/ (handler[k] = "returned" /\ k \notin handedOff)

(* Every dispatch ends with an answer, whatever the handlers await, forward or *)
(* throw.                                                                      *)
DispatchEnds == <>serialized /\ [](serialized => Answered)
=============================================================================
