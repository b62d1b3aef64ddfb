------------------------ MODULE HttpDispatch_proofs ------------------------
(***************************************************************************)
(* What is proved of HttpDispatch, for any number of layers, whichever of  *)
(* them match, await or go on in a callback, and whatever they misuse.     *)
(***************************************************************************)
EXTENDS HttpDispatch, SequenceTheorems, WellFoundedInduction, TLAPS

-----------------------------------------------------------------------------
(* The inductive invariant. *)

Shape ==
    /\ stack \in Seq(Layers)
    /\ index \in 1..NotFound
    /\ handler \in [Layers -> HandlerStates]
    /\ frame \in [1..NotFound -> FrameStates]
    /\ handedOff \subseteq Layers
    /\ continuation \in [Layers -> Continuations]
    /\ response \in [headersSent: BOOLEAN, by: -2..NumLayers, writers: SUBSET (-2..NumLayers)]
    /\ serialized \in BOOLEAN

(* A handler is on the call stack once, exactly while it runs.                 *)
OnStack ==
    /\ \A p, q \in 1..Len(stack) : stack[p] = stack[q] => p = q
    /\ \A k \in Layers : handler[k] \in {"running", "resumed"} <=>
          \E p \in 1..Len(stack) : stack[p] = k

(* What advance() waits for follows from what the handler of its layer does.   *)
PairedAt(k) ==
    \/ handler[k] = "none" /\ frame[k] = "none"
    \/ handler[k] = "running" /\ frame[k] = "calling"
    \/ /\ k \in AsyncLayers /\ frame[k] = "outcome"
       /\ handler[k] \in {"suspended", "resumed", "returned", "thrown"}
    \/ /\ k \in CallbackLayers /\ frame[k] \in {"continuation", "done"}
       /\ handler[k] \in {"callback", "resumed", "calledBack"}
    \/ handler[k] = "returned" /\ frame[k] \in {"continuation", "done"}
    \/ handler[k] = "thrown" /\ frame[k] \in {"error", "done"}

Paired ==
    /\ \A k \in Layers : PairedAt(k)
    /\ \A k \in Layers : frame[k] = "continuation" => continuation[k] # "none"
    /\ frame[NotFound] \in {"none", "notFound", "done"}

(* The scan has entered exactly the matching layers up to the one it has       *)
(* reached, and each of them but the last has called next() without an error.  *)
Scanned ==
    /\ index \in Matching \cup {NotFound}
    /\ \A k \in 1..NotFound :
          frame[k] # "none" <=> k \in Matching \cup {NotFound} /\ k <= index
    /\ \A k \in Layers : k \in handedOff <=> continuation[k] # "none"
    /\ \A k \in Layers : k \in handedOff => frame[k] # "none"
    /\ \A k \in Layers : frame[k] # "none" =>
          (continuation[k] = "advance" <=> k < index)

(* Where advance() is done, so is everything it has led to, down to a layer    *)
(* that left its chain behind.                                                 *)
Behind(k, m) == \E j \in LeavingBehind : k <= j /\ j <= m
SettledAt(m) == frame[m] = "done" /\ m \notin Unfinished

ChainSettled ==
    \A k \in 1..NotFound : frame[k] = "done" =>
        \A m \in Entered : k <= m => SettledAt(m) \/ Behind(k, m)

Reasons ==
    /\ response.by = FromNotFound => index = NotFound
    /\ response.by = FromError =>
         \E k \in Layers : handler[k] = "thrown" \/ continuation[k] = "errorDone"

Responded ==
    /\ \A k \in Layers : continuation[k] = "errorDone" => response.headersSent
    /\ \A k \in 1..NotFound : frame[k] = "done" => Answered

Outermost == serialized => frame[LayerAfter(0)] = "done"

IInv ==
    /\ Shape /\ OnStack /\ Paired /\ Scanned
    /\ ChainSettled /\ Reasons /\ Responded /\ Outermost

-----------------------------------------------------------------------------
(* The scan and the call stack. *)

(* The layer that advance() gets to is the first one after i that matches, or  *)
(* the end.                                                                    *)
LEMMA NextLayer ==
  ASSUME NEW i \in 0..NumLayers
  PROVE  /\ LayerAfter(i) \in (i + 1)..NotFound
         /\ LayerAfter(i) \in Matching \cup {NotFound}
         /\ \A j \in (i + 1)..(LayerAfter(i) - 1) : j \notin Matching
<1> DEFINE Candidates == {k \in (i + 1)..NotFound : k \in Matching \cup {NotFound}}
<1> USE HttpAssumption DEF NotFound
<1>1. Candidates \subseteq Nat /\ Candidates # {}
  <2>1. NotFound \in Candidates
    OBVIOUS
  <2> QED BY <2>1
<1>2. \E x \in Candidates : \A y \in Candidates : ~ (<<y, x>> \in OpToRel(<, Nat))
  <2> HIDE DEF Candidates
  <2> QED BY <1>1, NatLessThanWellFounded, WFMin
<1>3. PICK x \in Candidates : \A y \in Candidates : ~ (<<y, x>> \in OpToRel(<, Nat))
  BY <1>2
<1>4. \A y \in Candidates : ~ (y < x)
  <2> SUFFICES ASSUME NEW y \in Candidates, y < x PROVE FALSE
    OBVIOUS
  <2>1. y \in Nat /\ x \in Nat
    BY <1>1
  <2>2. <<y, x>> \in OpToRel(<, Nat)
    BY <2>1 DEF OpToRel
  <2> QED BY <1>3, <2>2
<1>5. \A j \in (i + 1)..(x - 1) : j \notin Matching
  BY <1>4
<1>6. x \in (i + 1)..NotFound /\ x \in Matching \cup {NotFound}
  OBVIOUS
<1> HIDE DEF NotFound
<1> QED BY <1>5, <1>6 DEF LayerAfter

(* What is left of the call stack when its top returns.                        *)
LEMMA Popped ==
  ASSUME stack \in Seq(Layers), stack # <<>>
  PROVE  /\ Pop \in Seq(Layers)
         /\ Len(stack) \in Nat \ {0}
         /\ Len(Pop) = Len(stack) - 1
         /\ \A p \in 1..Len(Pop) : Pop[p] = stack[p]
<1>1. Len(stack) \in Nat \ {0}
  BY EmptySeq
<1>2. \A p \in 1..(Len(stack) - 1) : stack[p] \in Layers
  BY <1>1, ElementOfSeq
<1>3. PICK n \in Nat \ {0} : n = Len(stack)
  BY <1>1
<1>4. /\ Pop \in Seq(Layers)
      /\ Len(Pop) = IF 1 <= n - 1 THEN n - 1 - 1 + 1 ELSE 0
      /\ \A p \in 1..(n - 1 - 1 + 1) : Pop[p] = stack[1 + p - 1]
  <2>1. n - 1 \in Int /\ \A p \in 1..(n - 1) : stack[p] \in Layers
    BY <1>2, <1>3
  <2> QED BY <2>1, <1>3, SubSeqProperties DEF Pop
<1>5. (IF 1 <= n - 1 THEN n - 1 - 1 + 1 ELSE 0) = n - 1
  BY SMT
<1>6. \A p \in 1..(n - 1) : 1 + p - 1 = p /\ p \in 1..(n - 1 - 1 + 1)
  BY SMT
<1> QED BY <1>3, <1>4, <1>5, <1>6, Zenon

(* A handler that has not called next() yet is the last one the scan entered.  *)
LEMMA LastEntered ==
  ASSUME Shape, Scanned, NEW k \in Layers, frame[k] # "none", continuation[k] # "advance"
  PROVE  index = k
BY HttpAssumption DEF Shape, Scanned, Layers, NotFound

LEMMA OfActive ==
  ASSUME Shape, OnStack, Paired, NEW k \in Layers, Active(k)
  PROVE  /\ handler[k] \in {"running", "resumed"}
         /\ frame[k] # "none"
         /\ stack # <<>>
         /\ k \in Unfinished
<1>1. handler[k] \in {"running", "resumed"} /\ stack # <<>>
  BY EmptySeq DEF Shape, OnStack, Active
<1> QED BY <1>1 DEF Paired, PairedAt, Unfinished

(* A handler leaves the call stack ...                                         *)
LEMMA StackAfterPop ==
  ASSUME Shape, OnStack, NEW k \in Layers, Active(k), stack' = Pop,
         NEW s \in HandlerStates \ {"running", "resumed"},
         handler' = [handler EXCEPT ![k] = s]
  PROVE  stack' \in Seq(Layers) /\ handler' \in [Layers -> HandlerStates] /\ OnStack'
<1>1. stack \in Seq(Layers) /\ stack # <<>> /\ stack[Len(stack)] = k
  BY DEF Shape, Active
<1>2. PICK n \in Nat \ {0} : n = Len(stack)
  BY <1>1, Popped
<1>3. PICK t \in Seq(Layers) : t = Pop
  BY <1>1, Popped
<1>4. Len(t) = n - 1 /\ \A p \in 1..(n - 1) : t[p] = stack[p]
  BY <1>1, <1>2, <1>3, Popped
<1>5. /\ \A p, q \in 1..n : stack[p] = stack[q] => p = q
      /\ \A j \in Layers : handler[j] \in {"running", "resumed"} <=>
            \E p \in 1..n : stack[p] = j
  BY <1>2 DEF OnStack
<1>6. handler \in [Layers -> HandlerStates]
  BY DEF Shape
<1>7. \A p, q \in 1..Len(t) : t[p] = t[q] => p = q
  BY <1>2, <1>4, <1>5
<1>8. ASSUME NEW j \in Layers
      PROVE  handler'[j] \in {"running", "resumed"} <=> \E p \in 1..Len(t) : t[p] = j
  <2>1. CASE j = k
    <3>1. \A p \in 1..Len(t) : t[p] # k
      BY <1>1, <1>2, <1>4, <1>5
    <3> QED BY <2>1, <3>1, <1>6
  <2>2. CASE j # k
    <3>1. handler'[j] = handler[j]
      BY <2>2, <1>6
    <3>2. ASSUME NEW p \in 1..n, stack[p] = j PROVE \E q \in 1..Len(t) : t[q] = j
      BY <1>1, <1>2, <1>4, <2>2, <3>2
    <3>3. ASSUME NEW p \in 1..Len(t), t[p] = j PROVE \E q \in 1..n : stack[q] = j
      BY <1>2, <1>4, <3>3
    <3> QED BY <1>5, <3>1, <3>2, <3>3
  <2> QED BY <2>1, <2>2
<1>9. handler' \in [Layers -> HandlerStates]
  BY <1>6
<1> QED BY <1>3, <1>7, <1>8, <1>9 DEF OnStack

(* ... and another one is called on top of it.                                 *)
LEMMA StackAfterPush ==
  ASSUME Shape, OnStack, NEW k \in Layers, handler[k] = "none", stack' = Append(stack, k),
         handler' = [handler EXCEPT ![k] = "running"]
  PROVE  stack' \in Seq(Layers) /\ handler' \in [Layers -> HandlerStates] /\ OnStack'
<1>1. stack \in Seq(Layers)
  BY DEF Shape
<1>2. PICK n \in Nat : n = Len(stack)
  BY <1>1, LenProperties
<1>3. PICK t \in Seq(Layers) : t = Append(stack, k)
  BY <1>1, AppendProperties
<1>4. Len(t) = n + 1 /\ t[n + 1] = k /\ \A p \in 1..n : t[p] = stack[p]
  BY <1>1, <1>2, <1>3, AppendProperties
<1>5. /\ \A p, q \in 1..n : stack[p] = stack[q] => p = q
      /\ \A j \in Layers : handler[j] \in {"running", "resumed"} <=>
            \E p \in 1..n : stack[p] = j
  BY <1>2 DEF OnStack
<1>6. handler \in [Layers -> HandlerStates]
  BY DEF Shape
<1>7. \A p \in 1..n : stack[p] # k
  BY <1>5
<1>8. \A p, q \in 1..Len(t) : t[p] = t[q] => p = q
  BY <1>2, <1>4, <1>5, <1>7
<1>9. ASSUME NEW j \in Layers
      PROVE  handler'[j] \in {"running", "resumed"} <=> \E p \in 1..Len(t) : t[p] = j
  <2>1. CASE j = k
    <3>1. n + 1 \in 1..Len(t)
      BY <1>4
    <3> QED BY <2>1, <3>1, <1>4, <1>6
  <2>2. CASE j # k
    <3>1. handler'[j] = handler[j]
      BY <2>2, <1>6
    <3>2. ASSUME NEW p \in 1..n, stack[p] = j PROVE \E q \in 1..Len(t) : t[q] = j
      BY <1>2, <1>4, <3>2
    <3>3. ASSUME NEW p \in 1..Len(t), t[p] = j PROVE \E q \in 1..n : stack[q] = j
      BY <1>2, <1>4, <2>2, <3>3
    <3> QED BY <1>5, <3>1, <3>2, <3>3
  <2> QED BY <2>1, <2>2
<1>10. handler' \in [Layers -> HandlerStates]
  BY <1>6 DEF HandlerStates
<1> QED BY <1>3, <1>8, <1>9, <1>10 DEF OnStack

(* The event loop calls a handler again: it is alone on the stack.             *)
LEMMA StackAfterResume ==
  ASSUME Shape, OnStack, NEW k \in Layers, stack = <<>>, stack' = <<k>>,
         handler' = [handler EXCEPT ![k] = "resumed"]
  PROVE  stack' \in Seq(Layers) /\ handler' \in [Layers -> HandlerStates] /\ OnStack'
<1>1. PICK t \in Seq(Layers) : t = <<k>> /\ Len(t) = 1 /\ t[1] = k
  <2>1. <<k>> \in Seq(Layers) /\ Len(<<k>>) = 1 /\ <<k>>[1] = k
    OBVIOUS
  <2> QED BY <2>1
<1>2. \A j \in Layers : handler[j] \notin {"running", "resumed"}
  BY EmptySeq DEF OnStack
<1>3. handler \in [Layers -> HandlerStates]
  BY DEF Shape
<1>4. \A p, q \in 1..Len(t) : t[p] = t[q] => p = q
  BY <1>1
<1>5. \A j \in Layers : (\E p \in 1..Len(t) : t[p] = j) <=> j = k
  BY <1>1
<1>6. \A j \in Layers : handler'[j] \in {"running", "resumed"} <=> j = k
  BY <1>2, <1>3
<1>7. handler' \in [Layers -> HandlerStates]
  BY <1>3 DEF HandlerStates
<1> QED BY <1>1, <1>4, <1>5, <1>6, <1>7 DEF OnStack

-----------------------------------------------------------------------------
(* Steps keep what is settled. *)

(* What a step owes to ChainSettled: whoever was settled or left its chain     *)
(* behind stays so, the layers it enters are behind such a one, and what it    *)
(* completes has a settled chain.                                              *)
LEMMA ChainStep ==
  ASSUME Shape, ChainSettled,
         LeavingBehind \subseteq LeavingBehind',
         \A m \in Layers : SettledAt(m) => SettledAt(m)',
         \A k \in 1..NotFound, m \in Entered' \ Entered :
            frame[k] = "done" /\ k <= m => Behind(k, m)',
         \A k \in 1..NotFound :
            frame'[k] = "done" /\ frame[k] # "done" =>
               \A m \in Entered' : k <= m => SettledAt(m)' \/ Behind(k, m)'
  PROVE  ChainSettled'
<1> SUFFICES ASSUME NEW k \in 1..NotFound, frame'[k] = "done",
                    NEW m \in Entered', k <= m
             PROVE  SettledAt(m)' \/ Behind(k, m)'
  BY DEF ChainSettled
<1>1. CASE frame[k] # "done"
  BY <1>1
<1>2. CASE frame[k] = "done" /\ m \notin Entered
  BY <1>2
<1>3. CASE frame[k] = "done" /\ m \in Entered
  <2>1. SettledAt(m) \/ Behind(k, m)
    BY <1>3 DEF ChainSettled
  <2>2. m \in Layers
    BY <1>3 DEF Entered
  <2> QED BY <2>1, <2>2 DEF Behind
<1> QED BY <1>1, <1>2, <1>3

(* Only the response changes, and it is committed.                             *)
LEMMA RespondKeeps ==
  ASSUME IInv, NEW k \in Layers, Respond(k)
  PROVE  IInv'
<1> USE DEF IInv
<1>1. response' = [headersSent |-> TRUE, by |-> k, writers |-> response.writers \cup {k}]
  BY DEF Respond, Write
<1>2. UNCHANGED <<stack, index, handler, frame, handedOff, continuation, serialized>>
  BY DEF Respond
<1>3. k \in -2..NumLayers /\ k # FromError /\ k # FromNotFound
  BY HttpAssumption DEF Layers, FromError, FromNotFound
<1>4. Shape'
  BY <1>1, <1>2, <1>3 DEF Shape
<1>5. OnStack' /\ Paired' /\ Scanned' /\ Outermost'
  BY <1>2 DEF OnStack, Paired, PairedAt, Scanned, Outermost
<1>6. ChainSettled'
  BY <1>2 DEF ChainSettled, SettledAt, Behind, Entered, LeavingBehind, Unfinished
<1>7. Reasons'
  BY <1>1, <1>3 DEF Reasons
<1>8. Responded'
  BY <1>1 DEF Responded, Answered
<1> QED BY <1>4, <1>5, <1>6, <1>7, <1>8

(* The scan goes on from the layer that calls next(), which is the last one it *)
(* has entered.                                                                *)
LEMMA CallNextKeeps ==
  ASSUME IInv, NEW k \in Layers, CallNext(k)
  PROVE  IInv'
<1> USE DEF IInv
<1> DEFINE n == LayerAfter(k)
<1>1. Active(k) /\ k \notin handedOff /\ UNCHANGED <<response, serialized>>
  BY DEF CallNext
<1>2. handler[k] \in {"running", "resumed"} /\ frame[k] # "none" /\ k \in Unfinished
  BY <1>1, OfActive
<1>3. continuation[k] = "none"
  BY <1>1 DEF Scanned
<1>4. index = k
  BY <1>2, <1>3, LastEntered
<1>5. /\ k \in 0..NumLayers /\ n \in 1..NotFound /\ k < n
      /\ n \in Matching \cup {NotFound}
      /\ \A j \in 1..NotFound : k < j /\ j < n => j \notin Matching \cup {NotFound}
  BY NextLayer, HttpAssumption DEF Layers, NotFound
<1>6. /\ handedOff' = handedOff \cup {k}
      /\ continuation' = [continuation EXCEPT ![k] = "advance"]
      /\ Advance(n)
  BY <1>4 DEF CallNext
<1> HIDE DEF n
<1>7. index' = n /\ frame[n] = "none"
  BY <1>4, <1>5, <1>6 DEF Advance, Scanned
<1>8. n # NotFound => n \in Layers /\ handler[n] = "none" /\ n # k
  BY <1>5, <1>7, HttpAssumption DEF Paired, PairedAt, Layers, NotFound
<1>9. PICK s \in {"calling", "notFound", "done"} :
         /\ frame' = [frame EXCEPT ![n] = s]
         /\ s = "calling" <=> n # NotFound
         /\ s = "done" => response.headersSent
  BY <1>6 DEF Advance
<1>10. stack' \in Seq(Layers) /\ handler' \in [Layers -> HandlerStates] /\ OnStack'
  <2>1. CASE n = NotFound
    BY <1>6, <2>1 DEF Advance, Shape, OnStack
  <2>2. CASE n # NotFound
    <3>1. stack' = Append(stack, n) /\ handler' = [handler EXCEPT ![n] = "running"]
      BY <1>6, <2>2 DEF Advance
    <3> QED BY <1>8, <2>2, <3>1, StackAfterPush
  <2> QED BY <2>1, <2>2
<1>11. /\ frame' \in [1..NotFound -> FrameStates]
       /\ continuation' \in [Layers -> Continuations]
       /\ handedOff' \subseteq Layers /\ index' \in 1..NotFound
  BY <1>5, <1>6, <1>7, <1>9 DEF Shape, FrameStates, Continuations
<1>12. Shape'
  BY <1>1, <1>10, <1>11 DEF Shape
<1>13. /\ \A j \in Layers : j # n => handler'[j] = handler[j]
       /\ \A j \in 1..NotFound : j # n => frame'[j] = frame[j]
       /\ \A j \in Layers : j # k => continuation'[j] = continuation[j]
       /\ frame'[n] = s /\ continuation'[k] = "advance"
       /\ n # NotFound => handler'[n] = "running"
  BY <1>5, <1>6, <1>8, <1>9 DEF Advance, Shape
<1>14. Layers \subseteq 1..NotFound /\ NotFound \in 1..NotFound /\ NotFound \notin Layers
  BY HttpAssumption DEF Layers, NotFound
<1>15. Paired'
  <2>1. \A j \in Layers : PairedAt(j)'
    BY <1>8, <1>9, <1>13, <1>14 DEF Paired, PairedAt
  <2>2. \A j \in Layers : frame'[j] = "continuation" => continuation'[j] # "none"
    BY <1>9, <1>13, <1>14 DEF Paired
  <2>3. frame'[NotFound] \in {"none", "notFound", "done"}
    BY <1>9, <1>13, <1>14 DEF Paired
  <2> QED BY <2>1, <2>2, <2>3 DEF Paired
<1>16. Scanned'
  <2>1. \A j \in 1..NotFound :
           frame'[j] # "none" <=> j \in Matching \cup {NotFound} /\ j <= n
    <3> TAKE j \in 1..NotFound
    <3>1. CASE j = n
      BY <1>5, <1>9, <1>13, <3>1
    <3>2. CASE j # n
      BY <1>4, <1>5, <1>13, <3>2 DEF Scanned, Layers
    <3> QED BY <3>1, <3>2
  <2>2. \A j \in Layers : j \in handedOff' <=> continuation'[j] # "none"
    BY <1>6, <1>13 DEF Scanned
  <2>3. \A j \in Layers : j \in handedOff' => frame'[j] # "none"
    BY <1>2, <1>5, <1>6, <1>9, <1>13, <1>14 DEF Scanned, Layers
  <2>4. ASSUME NEW j \in Layers, frame'[j] # "none"
        PROVE  continuation'[j] = "advance" <=> j < n
    <3>1. CASE j = k
      BY <1>5, <1>13, <3>1
    <3>2. CASE j = n
      BY <1>4, <1>5, <1>7, <1>13, <2>4, <3>2 DEF Scanned, Layers
    <3>3. CASE j # k /\ j # n
      BY <1>4, <1>5, <1>13, <1>14, <2>4, <3>3 DEF Scanned, Layers
    <3> QED BY <3>1, <3>2, <3>3
  <2> QED BY <1>5, <1>7, <2>1, <2>2, <2>3, <2>4 DEF Scanned
<1>17. /\ LeavingBehind \subseteq LeavingBehind'
       /\ \A m \in Layers : SettledAt(m) => SettledAt(m)'
       /\ Entered' \subseteq Entered \cup {n}
  <2>1. \A j \in Layers : handler[j] # "none" => handler'[j] = handler[j]
    BY <1>8, <1>13, <1>14
  <2>2. LeavingBehind \subseteq LeavingBehind'
    BY <1>6, <2>1, HttpAssumption DEF LeavingBehind, Shape
  <2>3. \A m \in Layers : SettledAt(m) => SettledAt(m)'
    BY <1>7, <1>13, <1>14, <2>1 DEF SettledAt, Unfinished
  <2> QED BY <1>13, <1>14, <2>2, <2>3 DEF Entered
<1>18. ASSUME NEW i \in 1..NotFound, frame[i] = "done", NEW m \in Entered' \ Entered, i <= m
       PROVE  Behind(i, m)'
  <2>1. m = n
    BY <1>17
  <2>2. i <= k
    BY <1>4, <1>18 DEF Scanned, Layers
  <2>3. k \in Entered
    BY <1>2 DEF Entered
  <2>4. PICK j \in LeavingBehind : i <= j /\ j <= k
    BY <1>2, <1>18, <2>2, <2>3 DEF ChainSettled, Behind, SettledAt
  <2>5. j \in Layers /\ j <= n
    BY <1>5, <2>4, HttpAssumption DEF LeavingBehind, Shape, Layers
  <2> QED BY <1>17, <2>1, <2>4, <2>5 DEF Behind
<1>19. ASSUME NEW i \in 1..NotFound, frame'[i] = "done", frame[i] # "done"
       PROVE  \A m \in Entered' : ~ (i <= m)
  <2>1. i = n /\ n = NotFound
    BY <1>9, <1>13, <1>19
  <2> QED BY <2>1, HttpAssumption DEF Entered, Layers, NotFound
<1>20. ChainSettled'
  BY <1>17, <1>18, <1>19, ChainStep
<1>21. Reasons'
  BY <1>1, <1>3, <1>4, <1>7, <1>8, <1>13, <1>14, HttpAssumption
     DEF Reasons, Layers, NotFound, Paired, PairedAt
<1>22. Responded'
  <2>1. \A j \in Layers : continuation'[j] = "errorDone" => response'.headersSent
    BY <1>1, <1>13 DEF Responded
  <2>2. Answered => Answered'
    <3>1. \A j \in Layers : frame[j] # "none" => frame'[j] # "none"
      BY <1>7, <1>13, <1>14
    <3>2. \A j \in Layers : handler[j] = "returned" => handler'[j] = "returned" /\ j # k
      BY <1>2, <1>8, <1>13, <1>14
    <3> QED BY <1>1, <1>6, <3>1, <3>2 DEF Answered, Entered
  <2>3. \A j \in 1..NotFound : frame'[j] = "done" => frame[j] = "done" \/ response.headersSent
    BY <1>9, <1>13
  <2> QED BY <1>1, <2>1, <2>2, <2>3 DEF Responded, Answered
<1>23. Outermost'
  <2>1. LayerAfter(0) \in 1..NotFound
    BY NextLayer, HttpAssumption
  <2> QED BY <1>1, <1>7, <1>13, <2>1 DEF Outermost
<1> QED BY <1>10, <1>12, <1>15, <1>16, <1>20, <1>21, <1>22, <1>23

(* Steps that enter no layer and pass nothing on.                              *)
LEMMA ScanRests ==
  ASSUME Scanned, UNCHANGED <<index, handedOff, continuation>>,
         \A j \in 1..NotFound : frame'[j] = "none" <=> frame[j] = "none"
  PROVE  Scanned' /\ Entered' = Entered
<1>1. Layers \subseteq 1..NotFound
  BY HttpAssumption DEF Layers, NotFound
<1> QED BY <1>1 DEF Scanned, Entered

(* next(error) enters no layer.                                                *)
LEMMA CallNextWithErrorKeeps ==
  ASSUME IInv, NEW k \in Layers, CallNextWithError(k)
  PROVE  IInv'
<1> USE DEF IInv
<1>1. /\ Active(k) /\ k \notin handedOff
      /\ handedOff' = handedOff \cup {k}
      /\ continuation' = [continuation EXCEPT ![k] = "error"]
      /\ UNCHANGED <<stack, index, handler, frame, response, serialized>>
  BY DEF CallNextWithError
<1>2. handler[k] \in {"running", "resumed"} /\ frame[k] # "none" /\ k \in Unfinished
  BY <1>1, OfActive
<1>3. continuation[k] = "none"
  BY <1>1 DEF Scanned
<1>4. index = k
  BY <1>2, <1>3, LastEntered
<1>5. /\ \A j \in Layers : j # k => continuation'[j] = continuation[j]
      /\ continuation'[k] = "error"
  BY <1>1 DEF Shape
<1>6. Shape' /\ OnStack' /\ Outermost'
  BY <1>1 DEF Shape, OnStack, Outermost, Continuations
<1>7. Paired'
  BY <1>1, <1>5 DEF Paired, PairedAt
<1>8. Scanned'
  BY <1>1, <1>2, <1>4, <1>5, HttpAssumption DEF Scanned, Layers
<1>9. LeavingBehind \subseteq LeavingBehind' /\ Entered' = Entered
  BY <1>1 DEF LeavingBehind, Entered
<1>10. \A m \in Layers : SettledAt(m) => SettledAt(m)'
  BY <1>1 DEF SettledAt, Unfinished
<1>11. ChainSettled'
  BY <1>1, <1>9, <1>10, ChainStep
<1>12. Reasons'
  BY <1>1, <1>3, <1>5 DEF Reasons
<1>13. Responded'
  <2>1. \A j \in Layers : handler[j] = "returned" => j # k
    BY <1>2
  <2>2. Answered => Answered'
    BY <1>1, <1>9, <2>1 DEF Answered
  <2>3. \A j \in Layers : continuation'[j] = "errorDone" => response'.headersSent
    BY <1>1, <1>5 DEF Responded
  <2> QED BY <1>1, <2>2, <2>3 DEF Responded
<1> QED BY <1>6, <1>7, <1>8, <1>11, <1>12, <1>13

(* The handler leaves the stack with a new state: its advance() goes on as the *)
(* state has it.                                                               *)
LEMMA LeaveKeeps ==
  ASSUME IInv, NEW k \in Layers, Active(k), stack' = Pop,
         UNCHANGED <<index, handedOff, continuation, response, serialized>>,
         NEW s \in {"suspended", "callback", "returned", "calledBack", "thrown"},
         handler' = [handler EXCEPT ![k] = s],
         NEW f \in FrameStates \ {"none"},
         frame' = [frame EXCEPT ![k] = f],
         PairedAt(k)',
         f = "continuation" => continuation[k] # "none",
         frame[k] = "done" => f = "done",
         k \in CallbackLayers /\ handler[k] = "resumed" => s = "calledBack",
         f = "done" => frame[k] = "done" \/ (continuation[k] = "none" /\ s # "thrown"),
         f = "done" => s = "returned" \/ k \in CallbackLayers
  PROVE  IInv'
<1> USE DEF IInv
<1>1. handler[k] \in {"running", "resumed"} /\ frame[k] # "none" /\ k \in Unfinished
  BY OfActive
<1>2. k \in 1..NotFound /\ k # NotFound /\ Layers \subseteq 1..NotFound /\ NotFound \in 1..NotFound
  BY HttpAssumption DEF Layers, NotFound
<1>3. /\ \A j \in Layers : j # k => handler'[j] = handler[j]
      /\ handler'[k] = s
      /\ \A j \in 1..NotFound : j # k => frame'[j] = frame[j]
      /\ frame'[k] = f
  BY <1>2 DEF Shape
<1>4. stack' \in Seq(Layers) /\ handler' \in [Layers -> HandlerStates] /\ OnStack'
  <2>1. s \in HandlerStates \ {"running", "resumed"}
    BY DEF HandlerStates
  <2> QED BY <2>1, StackAfterPop
<1>5. Shape'
  BY <1>4 DEF Shape
<1>6. Paired'
  BY <1>2, <1>3 DEF Paired, PairedAt
<1>7. Scanned' /\ Entered' = Entered
  BY <1>1, <1>3, ScanRests
<1>8. LeavingBehind \subseteq LeavingBehind'
  <2>1. ASSUME NEW j \in CallbackLayers, handler[j] \in {"callback", "resumed", "calledBack"}
        PROVE  handler'[j] \in {"callback", "resumed", "calledBack"}
    BY <1>1, <1>3, <2>1, HttpAssumption
  <2>2. ASSUME NEW j \in handedOff, handler[j] = "thrown" PROVE handler'[j] = "thrown"
    BY <1>1, <1>3, <2>2 DEF Shape
  <2> QED BY <2>1, <2>2 DEF LeavingBehind
<1>9. \A m \in Layers : SettledAt(m) => SettledAt(m)'
  BY <1>1, <1>2, <1>3 DEF SettledAt, Unfinished
<1>10. ASSUME NEW i \in 1..NotFound, frame'[i] = "done", frame[i] # "done",
              NEW m \in Entered', i <= m
       PROVE  SettledAt(m)' \/ Behind(i, m)'
  <2>1. i = k /\ f = "done" /\ continuation[k] = "none"
    BY <1>3, <1>10
  <2>2. index = k
    BY <1>1, <2>1, LastEntered
  <2>3. m = k
    BY <1>2, <1>7, <1>10, <2>1, <2>2, HttpAssumption DEF Scanned, Entered, Layers, NotFound
  <2>4. CASE s = "returned"
    BY <1>3, <2>1, <2>3, <2>4 DEF SettledAt, Unfinished
  <2>5. CASE k \in CallbackLayers /\ s # "returned"
    <3>1. s \in {"callback", "calledBack"}
      BY <1>3, <1>10, <2>1, <2>5 DEF PairedAt
    <3>2. k \in LeavingBehind'
      BY <1>3, <2>5, <3>1 DEF LeavingBehind
    <3> QED BY <2>1, <2>3, <3>2, HttpAssumption DEF Behind, Layers
  <2> QED BY <2>1, <2>4, <2>5
<1>11. ChainSettled'
  BY <1>7, <1>8, <1>9, <1>10, ChainStep
<1>12. Reasons'
  BY <1>1, <1>3 DEF Reasons
<1>13. Responded'
  <2>1. Answered => Answered'
    BY <1>1, <1>3, <1>7 DEF Answered
  <2>2. ASSUME f = "done", frame[k] # "done" PROVE Answered'
    <3>1. k \in Entered' \cap Layers /\ k \notin handedOff'
      BY <1>1, <1>7, <2>2 DEF Entered, Scanned
    <3> QED BY <1>3, <2>2, <3>1 DEF Answered
  <2>3. \A j \in 1..NotFound : frame'[j] = "done" => Answered'
    BY <1>2, <1>3, <2>1, <2>2 DEF Responded
  <2> QED BY <2>3 DEF Responded
<1>14. Outermost'
  <2>1. LayerAfter(0) \in 1..NotFound
    BY NextLayer, HttpAssumption
  <2> QED BY <1>2, <1>3, <2>1 DEF Outermost
<1> QED BY <1>4, <1>5, <1>6, <1>7, <1>11, <1>12, <1>13, <1>14

LEMMA SuspendKeeps ==
  ASSUME IInv, NEW k \in Layers, Suspend(k)
  PROVE  IInv'
<1>1. /\ Active(k) /\ handler[k] = "running" /\ k \in AsyncLayers
      /\ handler' = [handler EXCEPT ![k] = "suspended"]
      /\ frame' = [frame EXCEPT ![k] = "outcome"]
      /\ stack' = Pop
      /\ UNCHANGED <<index, handedOff, continuation, response, serialized>>
  BY DEF Suspend
<1>2. k \in 1..NotFound /\ handler'[k] = "suspended" /\ frame'[k] = "outcome"
  BY <1>1, HttpAssumption DEF IInv, Shape, Layers, NotFound
<1>3. PairedAt(k)' /\ frame[k] # "done" /\ "outcome" \in FrameStates
  BY <1>1, <1>2 DEF PairedAt, IInv, Paired, FrameStates
<1> QED BY <1>1, <1>3, LeaveKeeps

LEMMA ReturnWithCallbackKeeps ==
  ASSUME IInv, NEW k \in Layers, ReturnWithCallback(k)
  PROVE  IInv'
<1>1. /\ Active(k) /\ handler[k] = "running" /\ k \in CallbackLayers
      /\ handler' = [handler EXCEPT ![k] = "callback"]
      /\ frame' = [frame EXCEPT ![k] = AfterOutcome(k)]
      /\ stack' = Pop
      /\ UNCHANGED <<index, handedOff, continuation, response, serialized>>
  BY DEF ReturnWithCallback
<1>2. k \in 1..NotFound /\ handler'[k] = "callback" /\ frame'[k] = AfterOutcome(k)
  BY <1>1, HttpAssumption DEF IInv, Shape, Layers, NotFound
<1>3. /\ AfterOutcome(k) \in {"continuation", "done"}
      /\ AfterOutcome(k) = "done" <=> continuation[k] = "none"
      /\ AfterOutcome(k) \in FrameStates
  BY DEF AfterOutcome, FrameStates
<1>4. PairedAt(k)' /\ frame[k] # "done"
  BY <1>1, <1>2, <1>3 DEF PairedAt, IInv, Paired
<1> QED BY <1>1, <1>3, <1>4, LeaveKeeps

(* A handler that returns from a callback leaves its advance() alone.          *)
LEMMA ReturnKeeps ==
  ASSUME IInv, NEW k \in Layers, Return(k)
  PROVE  IInv'
<1> USE DEF IInv
<1>1. /\ Active(k) /\ stack' = Pop
      /\ UNCHANGED <<index, handedOff, continuation, response, serialized>>
  BY DEF Return
<1>2. handler[k] \in {"running", "resumed"}
  BY <1>1, OfActive
<1>3. k \in 1..NotFound /\ handler \in [Layers -> HandlerStates]
      /\ frame \in [1..NotFound -> FrameStates]
  BY HttpAssumption DEF Shape, Layers, NotFound
<1>4. CASE k \in CallbackLayers /\ handler[k] = "resumed"
  <2>1. handler' = [handler EXCEPT ![k] = "calledBack"] /\ UNCHANGED frame
    BY <1>4 DEF Return
  <2>2. frame' = [frame EXCEPT ![k] = frame[k]] /\ handler'[k] = "calledBack"
    BY <1>3, <2>1
  <2>3. frame[k] \in FrameStates \ {"none"} /\ PairedAt(k)'
    BY <1>1, <1>3, <1>4, <2>1, <2>2, HttpAssumption DEF PairedAt, Paired
  <2>4. frame[k] = "continuation" => continuation[k] # "none"
    BY DEF Paired
  <2> QED BY <1>1, <1>4, <2>1, <2>2, <2>3, <2>4, LeaveKeeps
<1>5. CASE ~(k \in CallbackLayers /\ handler[k] = "resumed")
  <2> DEFINE f == IF k \in AsyncLayers THEN "outcome" ELSE AfterOutcome(k)
  <2>1. handler' = [handler EXCEPT ![k] = "returned"] /\ frame' = [frame EXCEPT ![k] = f]
    <3>1. handler' = [handler EXCEPT ![k] = IF k \in CallbackLayers /\ @ = "resumed"
                                            THEN "calledBack" ELSE "returned"]
      BY DEF Return
    <3>2. handler' = [handler EXCEPT ![k] = "returned"]
      BY <1>3, <1>5, <3>1
    <3> QED BY <1>5, <3>2 DEF Return
  <2>2. /\ f \in {"outcome", "continuation", "done"} /\ f \in FrameStates \ {"none"}
        /\ f = "outcome" <=> k \in AsyncLayers
        /\ f = "done" => continuation[k] = "none"
        /\ f = "continuation" => continuation[k] # "none"
    BY DEF AfterOutcome, FrameStates
  <2> HIDE DEF f
  <2>3. handler'[k] = "returned" /\ frame'[k] = f
    BY <1>3, <2>1
  <2>4. PairedAt(k)' /\ frame[k] # "done"
    BY <1>2, <1>5, <2>2, <2>3 DEF PairedAt, Paired
  <2> QED BY <1>1, <1>5, <2>1, <2>2, <2>4, LeaveKeeps
<1> QED BY <1>4, <1>5

LEMMA ThrowKeeps ==
  ASSUME IInv, NEW k \in Layers, Throw(k)
  PROVE  IInv'
<1> DEFINE f == IF k \in AsyncLayers THEN "outcome" ELSE "error"
<1>1. /\ Active(k) /\ ~(k \in CallbackLayers /\ handler[k] = "resumed")
      /\ handler' = [handler EXCEPT ![k] = "thrown"]
      /\ frame' = [frame EXCEPT ![k] = f]
      /\ stack' = Pop
      /\ UNCHANGED <<index, handedOff, continuation, response, serialized>>
  BY DEF Throw
<1>2. handler[k] \in {"running", "resumed"}
  BY <1>1, OfActive DEF IInv
<1>3. /\ f \in {"outcome", "error"} /\ f \in FrameStates \ {"none"}
      /\ f = "outcome" <=> k \in AsyncLayers
  BY DEF FrameStates
<1> HIDE DEF f
<1>4. handler'[k] = "thrown" /\ frame'[k] = f
  BY <1>1, HttpAssumption DEF IInv, Shape, Layers, NotFound
<1>5. PairedAt(k)' /\ frame[k] # "done"
  BY <1>1, <1>2, <1>3, <1>4 DEF PairedAt, IInv, Paired
<1> QED BY <1>1, <1>3, <1>5, LeaveKeeps

LEMMA ResumeKeeps ==
  ASSUME IInv, NEW k \in Layers, Resume(k)
  PROVE  IInv'
<1> USE DEF IInv
<1>1. /\ stack = <<>> /\ stack' = <<k>> /\ handler[k] \in {"suspended", "callback"}
      /\ handler' = [handler EXCEPT ![k] = "resumed"]
      /\ UNCHANGED <<index, frame, handedOff, continuation, response, serialized>>
  BY DEF Resume
<1>2. \A j \in Layers : j # k => handler'[j] = handler[j]
  BY <1>1 DEF Shape
<1>3. handler'[k] = "resumed"
  BY <1>1 DEF Shape
<1>4. stack' \in Seq(Layers) /\ handler' \in [Layers -> HandlerStates] /\ OnStack'
  BY <1>1, StackAfterResume
<1>5. Shape'
  BY <1>1, <1>4 DEF Shape
<1>6. Paired'
  BY <1>1, <1>2, <1>3 DEF Paired, PairedAt
<1>7. Scanned' /\ Entered' = Entered
  BY <1>1, ScanRests
<1>8. LeavingBehind \subseteq LeavingBehind'
  BY <1>1, <1>2, <1>3, HttpAssumption DEF LeavingBehind, Shape
<1>9. \A m \in Layers : SettledAt(m) => SettledAt(m)'
  BY <1>1, <1>2 DEF SettledAt, Unfinished
<1>10. ChainSettled'
  BY <1>1, <1>7, <1>8, <1>9, ChainStep
<1>11. Reasons'
  BY <1>1, <1>2, <1>3 DEF Reasons
<1>12. Responded'
  <2>1. Answered => Answered'
    BY <1>1, <1>2, <1>3, <1>7 DEF Answered
  <2> QED BY <1>1, <2>1 DEF Responded
<1>13. Outermost'
  BY <1>1 DEF Outermost
<1> QED BY <1>4, <1>5, <1>6, <1>7, <1>10, <1>11, <1>12, <1>13

-----------------------------------------------------------------------------
(* The awaits of advance(). *)

LEMMA AnswerIs ==
  ASSUME Shape, NEW by \in {FromError, FromNotFound}, AnswerUnlessSent(by)
  PROVE  /\ response' \in [headersSent: BOOLEAN, by: -2..NumLayers,
                           writers: SUBSET (-2..NumLayers)]
         /\ response'.headersSent
         /\ response' = response \/ (~response.headersSent /\ response'.by = by)
<1>1. by \in -2..NumLayers
  BY HttpAssumption DEF FromError, FromNotFound
<1>2. CASE response.headersSent
  BY <1>2 DEF AnswerUnlessSent, Shape
<1>3. CASE ~response.headersSent
  <2>1. response' = [headersSent |-> TRUE, by |-> by, writers |-> response.writers \cup {by}]
    BY <1>3 DEF AnswerUnlessSent, Write
  <2>2. response.writers \cup {by} \in SUBSET (-2..NumLayers)
    BY <1>1 DEF Shape
  <2> QED BY <1>1, <1>3, <2>1, <2>2
<1> QED BY <1>2, <1>3

(* One advance() gets one step further.                                        *)
LEMMA SettleKeeps ==
  ASSUME IInv, NEW k \in 1..NotFound, frame[k] \notin {"none", "done"},
         NEW f \in FrameStates \ {"none"}, GoOn(k, f), UNCHANGED continuation,
         response' \in [headersSent: BOOLEAN, by: -2..NumLayers,
                        writers: SUBSET (-2..NumLayers)],
         response.headersSent => response'.headersSent,
         Reasons',
         k \in Layers => PairedAt(k)' /\ (f = "continuation" => continuation[k] # "none"),
         k = NotFound => f = "done",
         f = "done" => Answered',
         f = "done" => \A m \in Entered' : k <= m => SettledAt(m)' \/ Behind(k, m)'
  PROVE  IInv'
<1> USE DEF IInv
<1>1. /\ frame' = [frame EXCEPT ![k] = f]
      /\ UNCHANGED <<stack, index, handler, handedOff, serialized>>
  BY DEF GoOn
<1>2. /\ \A j \in 1..NotFound : j # k => frame'[j] = frame[j]
      /\ frame'[k] = f
  BY <1>1 DEF Shape
<1>3. Layers \subseteq 1..NotFound /\ NotFound \in 1..NotFound /\ NotFound \notin Layers
  BY HttpAssumption DEF Layers, NotFound
<1>4. Shape' /\ OnStack'
  BY <1>1 DEF Shape, OnStack
<1>5. Paired'
  <2>1. \A j \in Layers : PairedAt(j)'
    BY <1>1, <1>2, <1>3 DEF Paired, PairedAt
  <2> QED BY <1>2, <1>3, <2>1 DEF Paired
<1>6. Scanned' /\ Entered' = Entered
  BY <1>1, <1>2, ScanRests
<1>7. LeavingBehind \subseteq LeavingBehind'
  BY <1>1 DEF LeavingBehind
<1>8. \A m \in Layers : SettledAt(m) => SettledAt(m)'
  BY <1>1, <1>2, <1>3 DEF SettledAt, Unfinished
<1>9. ChainSettled'
  BY <1>2, <1>6, <1>7, <1>8, ChainStep
<1>10. Responded'
  <2>1. Answered => Answered'
    BY <1>1, <1>6 DEF Answered
  <2> QED BY <1>2, <2>1 DEF Responded
<1>11. Outermost'
  <2>1. LayerAfter(0) \in 1..NotFound
    BY NextLayer, HttpAssumption
  <2> QED BY <1>1, <1>2, <2>1 DEF Outermost
<1> QED BY <1>4, <1>5, <1>6, <1>9, <1>10, <1>11

(* Where advance() of the last layer that was entered is done, only its own    *)
(* handler can still go on.                                                    *)
LEMMA SettledAtLast ==
  ASSUME IInv, NEW k \in 1..NotFound, continuation[k] # "advance" \/ k \notin Layers,
         frame[k] # "none", frame'[k] = "done", Entered' = Entered,
         UNCHANGED <<handler, handedOff>>,
         k \in Layers => handler[k] \in {"returned", "thrown"} \/ k \in LeavingBehind
  PROVE  \A m \in Entered' : k <= m => SettledAt(m)' \/ Behind(k, m)'
<1> SUFFICES ASSUME NEW m \in Entered', k <= m
             PROVE  SettledAt(m)' \/ Behind(k, m)'
  OBVIOUS
<1>1. m \in Layers /\ frame[m] # "none" /\ m <= index
  BY HttpAssumption DEF Entered, IInv, Scanned, Layers, NotFound
<1>2. k \in Layers
  BY <1>1, HttpAssumption DEF Layers, NotFound
<1>3. index = k /\ m = k
  BY <1>1, <1>2, LastEntered, HttpAssumption DEF IInv, Layers
<1>4. LeavingBehind' = LeavingBehind
  BY DEF LeavingBehind
<1>5. CASE k \in LeavingBehind
  BY <1>3, <1>4, <1>5, <1>2, HttpAssumption DEF Behind, Layers
<1>6. CASE handler[k] \in {"returned", "thrown"}
  BY <1>3, <1>6 DEF SettledAt, Unfinished
<1> QED BY <1>2, <1>5, <1>6

LEMMA OutcomeSettlesKeeps ==
  ASSUME IInv, NEW k \in Layers, OutcomeSettles(k)
  PROVE  IInv'
<1> USE DEF IInv
<1>1. frame[k] = "outcome" /\ UNCHANGED <<continuation, response>>
  BY DEF OutcomeSettles
<1>2. k \in 1..NotFound /\ k # NotFound
  BY HttpAssumption DEF Layers, NotFound
<1>3. PICK f \in {"continuation", "done", "error"} :
        /\ GoOn(k, f)
        /\ f = "error" <=> handler[k] = "thrown"
        /\ f \in {"continuation", "done"} => handler[k] = "returned"
        /\ f = "continuation" => continuation[k] # "none"
        /\ f = "done" => continuation[k] = "none"
  BY DEF OutcomeSettles, AfterOutcome
<1>4. /\ frame'[k] = f /\ UNCHANGED <<index, handler, handedOff>>
      /\ \A j \in 1..NotFound : frame'[j] = "none" <=> frame[j] = "none"
  BY <1>1, <1>2, <1>3 DEF GoOn, Shape
<1>5. PairedAt(k)'
  BY <1>3, <1>4 DEF PairedAt
<1>6. Entered' = Entered /\ k \in Entered
  BY <1>1, <1>4, ScanRests DEF Entered
<1>7. Reasons'
  BY <1>1, <1>4 DEF Reasons
<1>8. f = "done" => Answered'
  BY <1>1, <1>3, <1>4, <1>6 DEF Answered, Scanned
<1>9. f = "done" => \A m \in Entered' : k <= m => SettledAt(m)' \/ Behind(k, m)'
  BY <1>1, <1>2, <1>3, <1>4, <1>6, SettledAtLast
<1>10. response' \in [headersSent: BOOLEAN, by: -2..NumLayers, writers: SUBSET (-2..NumLayers)]
  BY <1>1 DEF Shape
<1>11. f \in FrameStates \ {"none"}
  BY DEF FrameStates
<1> QED BY <1>1, <1>2, <1>3, <1>5, <1>7, <1>8, <1>9, <1>10, <1>11, SettleKeeps

LEMMA ContinuationSettlesKeeps ==
  ASSUME IInv, NEW k \in Layers, ContinuationSettles(k)
  PROVE  IInv'
<1> USE DEF IInv
<1> DEFINE n == LayerAfter(k)
<1>1. /\ frame[k] = "continuation" /\ GoOn(k, "done") /\ UNCHANGED <<continuation, response>>
      /\ (continuation[k] = "advance" /\ frame[n] = "done") \/ continuation[k] = "errorDone"
  BY DEF ContinuationSettles
<1>2. k \in 1..NotFound /\ k # NotFound /\ k \in 0..NumLayers
  BY HttpAssumption DEF Layers, NotFound
<1>3. /\ n \in 1..NotFound /\ k < n
      /\ \A j \in 1..NotFound : k < j /\ j < n => j \notin Matching \cup {NotFound}
  BY <1>2, NextLayer, HttpAssumption DEF Layers, NotFound
<1> HIDE DEF n
<1>4. /\ frame'[k] = "done" /\ UNCHANGED <<index, handler, handedOff>>
      /\ \A j \in 1..NotFound : j # k => frame'[j] = frame[j]
  BY <1>1, <1>2 DEF GoOn, Shape
<1>5. handler[k] \in {"returned"} \/ (k \in CallbackLayers
        /\ handler[k] \in {"callback", "resumed", "calledBack"})
  BY <1>1 DEF Paired, PairedAt
<1>6. PairedAt(k)'
  BY <1>4, <1>5 DEF PairedAt
<1>7. Entered' = Entered /\ k \in Entered
  BY <1>1, <1>2, <1>4, ScanRests DEF Entered
<1>8. Reasons'
  BY <1>1, <1>4 DEF Reasons
<1>9. Answered'
  <2>1. Answered
    BY <1>1, <1>3 DEF Responded, Answered
  <2> QED BY <1>1, <1>4, <1>7, <2>1 DEF Answered
<1>10. \A m \in Entered' : k <= m => SettledAt(m)' \/ Behind(k, m)'
  <2>1. handler[k] \in {"returned", "thrown"} \/ k \in LeavingBehind
    BY <1>5 DEF LeavingBehind
  <2>2. CASE continuation[k] = "errorDone"
    BY <1>1, <1>2, <1>4, <1>7, <2>1, <2>2, SettledAtLast
  <2>3. CASE continuation[k] = "advance" /\ frame[n] = "done"
    <3> SUFFICES ASSUME NEW m \in Entered', k <= m
                 PROVE  SettledAt(m)' \/ Behind(k, m)'
      OBVIOUS
    <3>1. m \in Layers /\ m \in Entered /\ frame[m] # "none"
      BY <1>7 DEF Entered
    <3>2. LeavingBehind' = LeavingBehind /\ LeavingBehind \subseteq Layers
      BY <1>4, HttpAssumption DEF LeavingBehind, Shape
    <3>3. CASE m = k
      <4>1. CASE handler[k] \in {"returned", "thrown"}
        BY <1>4, <3>3, <4>1 DEF SettledAt, Unfinished
      <4>2. CASE k \in LeavingBehind
        BY <1>2, <3>2, <3>3, <4>2 DEF Behind
      <4> QED BY <2>1, <4>1, <4>2
    <3>4. CASE m # k
      <4>1. n <= m
        BY <1>2, <1>3, <3>1, <3>4, HttpAssumption DEF Scanned, Layers, NotFound
      <4>2. SettledAt(m) \/ Behind(n, m)
        BY <1>3, <2>3, <3>1, <4>1 DEF ChainSettled
      <4>3. CASE SettledAt(m)
        BY <1>4, <3>1, <3>4, <4>3, HttpAssumption DEF SettledAt, Unfinished, Layers, NotFound
      <4>4. CASE Behind(n, m)
        BY <1>2, <1>3, <3>2, <4>4, HttpAssumption DEF Behind, Layers
      <4> QED BY <4>2, <4>3, <4>4
    <3> QED BY <3>3, <3>4
  <2> QED BY <1>1, <2>2, <2>3
<1>11. response' \in [headersSent: BOOLEAN, by: -2..NumLayers, writers: SUBSET (-2..NumLayers)]
  BY <1>1 DEF Shape
<1>12. "done" \in FrameStates \ {"none"}
  BY DEF FrameStates
<1> QED BY <1>1, <1>2, <1>6, <1>8, <1>9, <1>10, <1>11, <1>12, SettleKeeps

LEMMA ErrorLayerSettlesKeeps ==
  ASSUME IInv, NEW k \in Layers, ErrorLayerSettles(k)
  PROVE  IInv'
<1> USE DEF IInv
<1>1. /\ frame[k] = "error" /\ AnswerUnlessSent(FromError) /\ GoOn(k, "done")
      /\ UNCHANGED continuation
  BY DEF ErrorLayerSettles
<1>2. k \in 1..NotFound /\ k # NotFound
  BY HttpAssumption DEF Layers, NotFound
<1>3. /\ response' \in [headersSent: BOOLEAN, by: -2..NumLayers, writers: SUBSET (-2..NumLayers)]
      /\ response'.headersSent
      /\ response' = response \/ response'.by = FromError
  BY <1>1, AnswerIs
<1>4. /\ frame'[k] = "done" /\ UNCHANGED <<index, handler, handedOff>>
      /\ \A j \in 1..NotFound : frame'[j] = "none" <=> frame[j] = "none"
  BY <1>1, <1>2 DEF GoOn, Shape
<1>5. handler[k] = "thrown"
  BY <1>1 DEF Paired, PairedAt
<1>6. PairedAt(k)'
  BY <1>4, <1>5 DEF PairedAt
<1>7. Entered' = Entered
  BY <1>1, <1>4, ScanRests
<1>8. Reasons'
  BY <1>1, <1>3, <1>4, <1>5 DEF Reasons, FromError, FromNotFound
<1>9. Answered'
  BY <1>3 DEF Answered
<1>10. \A m \in Entered' : k <= m => SettledAt(m)' \/ Behind(k, m)'
  <2>1. CASE k \in handedOff
    <3>1. k \in LeavingBehind' /\ Entered' \subseteq Layers
      BY <1>4, <1>5, <2>1 DEF LeavingBehind, Entered
    <3> QED BY <1>2, <3>1, HttpAssumption DEF Behind, Layers
  <2>2. CASE k \notin handedOff
    <3>1. continuation[k] = "none"
      BY <2>2 DEF Scanned
    <3> QED BY <1>1, <1>2, <1>4, <1>5, <1>7, <3>1, SettledAtLast
  <2> QED BY <2>1, <2>2
<1>11. "done" \in FrameStates \ {"none"}
  BY DEF FrameStates
<1> QED BY <1>1, <1>2, <1>3, <1>6, <1>8, <1>9, <1>10, <1>11, SettleKeeps

LEMMA NotFoundSettlesKeeps ==
  ASSUME IInv, NotFoundSettles
  PROVE  IInv'
<1> USE DEF IInv
<1>1. /\ frame[NotFound] = "notFound" /\ AnswerUnlessSent(FromNotFound)
      /\ GoOn(NotFound, "done") /\ UNCHANGED continuation
  BY DEF NotFoundSettles
<1>2. NotFound \in 1..NotFound /\ NotFound \notin Layers
  BY HttpAssumption DEF Layers, NotFound
<1>3. /\ response' \in [headersSent: BOOLEAN, by: -2..NumLayers, writers: SUBSET (-2..NumLayers)]
      /\ response'.headersSent
      /\ response' = response \/ response'.by = FromNotFound
  BY <1>1, AnswerIs
<1>4. UNCHANGED <<index, handler, handedOff>>
  BY <1>1 DEF GoOn
<1>5. index = NotFound
  BY <1>1, <1>2, HttpAssumption DEF Scanned, Shape, NotFound
<1>6. Reasons'
  BY <1>1, <1>3, <1>4, <1>5 DEF Reasons, FromError, FromNotFound
<1>7. Answered'
  BY <1>3 DEF Answered
<1>8. \A m \in Entered' : ~ (NotFound <= m)
  BY HttpAssumption DEF Entered, Layers, NotFound
<1>9. "done" \in FrameStates \ {"none"}
  BY DEF FrameStates
<1> QED BY <1>1, <1>2, <1>3, <1>6, <1>7, <1>8, <1>9, SettleKeeps

(* The promise of next(error) settles; no frame moves.                         *)
LEMMA ErrorHopSettlesKeeps ==
  ASSUME IInv, NEW k \in Layers, ErrorHopSettles(k)
  PROVE  IInv'
<1> USE DEF IInv
<1>1. /\ continuation[k] = "error" /\ AnswerUnlessSent(FromError)
      /\ continuation' = [continuation EXCEPT ![k] = "errorDone"]
      /\ UNCHANGED <<stack, index, handler, frame, handedOff, serialized>>
  BY DEF ErrorHopSettles
<1>2. /\ response' \in [headersSent: BOOLEAN, by: -2..NumLayers, writers: SUBSET (-2..NumLayers)]
      /\ response'.headersSent
      /\ response' = response \/ response'.by = FromError
  BY <1>1, AnswerIs
<1>3. /\ \A j \in Layers : j # k => continuation'[j] = continuation[j]
      /\ continuation'[k] = "errorDone"
  BY <1>1 DEF Shape
<1>4. Shape' /\ OnStack' /\ Outermost'
  BY <1>1, <1>2 DEF Shape, OnStack, Outermost, Continuations
<1>5. Paired'
  BY <1>1, <1>3 DEF Paired, PairedAt
<1>6. Scanned'
  BY <1>1, <1>3 DEF Scanned
<1>7. ChainSettled'
  BY <1>1 DEF ChainSettled, SettledAt, Behind, Entered, LeavingBehind, Unfinished
<1>8. Reasons'
  BY <1>1, <1>2, <1>3 DEF Reasons, FromError, FromNotFound
<1>9. Responded'
  BY <1>2 DEF Responded, Answered
<1> QED BY <1>4, <1>5, <1>6, <1>7, <1>8, <1>9

LEMMA SerializeKeeps ==
  ASSUME IInv, Serialize
  PROVE  IInv'
<1> USE DEF IInv
<1>1. /\ frame[LayerAfter(0)] = "done" /\ serialized' = TRUE
      /\ UNCHANGED <<stack, index, handler, frame, handedOff, continuation, response>>
  BY DEF Serialize
<1>2. Shape' /\ OnStack' /\ Paired' /\ Scanned' /\ Reasons' /\ Outermost'
  BY <1>1 DEF Shape, OnStack, Paired, PairedAt, Scanned, Reasons, Outermost
<1>3. ChainSettled'
  BY <1>1 DEF ChainSettled, SettledAt, Behind, Entered, LeavingBehind, Unfinished
<1>4. Responded'
  BY <1>1 DEF Responded, Answered, Entered
<1> QED BY <1>2, <1>3, <1>4

-----------------------------------------------------------------------------
LEMMA Initially == Init => IInv
<1> SUFFICES ASSUME Init PROVE IInv
  OBVIOUS
<1> DEFINE first == LayerAfter(0)
<1>1. /\ index = first
      /\ frame = [k \in 1..NotFound |->
            IF k # first THEN "none" ELSE IF k = NotFound THEN "notFound" ELSE "calling"]
      /\ handler = [k \in Layers |-> IF k = first THEN "running" ELSE "none"]
      /\ stack = IF first = NotFound THEN <<>> ELSE <<first>>
      /\ handedOff = {} /\ continuation = [k \in Layers |-> "none"]
      /\ response = Unanswered /\ serialized = FALSE
  BY DEF Init
<1>2. /\ first \in 1..NotFound /\ first \in Matching \cup {NotFound}
      /\ \A j \in 1..NotFound : j < first => j \notin Matching \cup {NotFound}
  BY NextLayer, HttpAssumption DEF Layers, NotFound
<1> HIDE DEF first
<1>3. Layers \subseteq 1..NotFound /\ NotFound \in 1..NotFound /\ NotFound \notin Layers
      /\ (first # NotFound => first \in Layers)
  BY <1>2, HttpAssumption DEF Layers, NotFound
<1>4. stack \in Seq(Layers) /\ OnStack
  <2>1. CASE first = NotFound
    <3>1. stack = <<>> /\ Len(<<>>) = 0 /\ <<>> \in Seq(Layers)
      BY <1>1, <2>1, EmptySeq
    <3>2. \A k \in Layers : handler[k] = "none"
      BY <1>1, <1>3, <2>1
    <3> QED BY <3>1, <3>2 DEF OnStack
  <2>2. CASE first # NotFound
    <3>1. <<first>> \in Seq(Layers) /\ Len(<<first>>) = 1 /\ <<first>>[1] = first
      BY <1>3, <2>2
    <3>2. PICK t \in Seq(Layers) : t = stack /\ Len(t) = 1 /\ t[1] = first
      BY <1>1, <2>2, <3>1
    <3>3. \A k \in Layers : (\E p \in 1..Len(t) : t[p] = k) <=> k = first
      BY <3>2
    <3>4. \A p, q \in 1..Len(t) : t[p] = t[q] => p = q
      BY <3>2
    <3>5. \A k \in Layers : handler[k] \in {"running", "resumed"} <=> k = first
      BY <1>1
    <3> QED BY <3>2, <3>3, <3>4, <3>5 DEF OnStack
  <2> QED BY <2>1, <2>2
<1>5. Shape
  <2>1. response \in [headersSent: BOOLEAN, by: -2..NumLayers, writers: SUBSET (-2..NumLayers)]
    BY <1>1, HttpAssumption DEF Unanswered, Nobody
  <2> QED BY <1>1, <1>2, <1>4, <2>1 DEF Shape, HandlerStates, FrameStates, Continuations
<1>6. Paired
  BY <1>1, <1>3 DEF Paired, PairedAt
<1>7. Scanned
  <2>1. ASSUME NEW k \in 1..NotFound
        PROVE  frame[k] # "none" <=> k \in Matching \cup {NotFound} /\ k <= index
    <3>1. frame[k] # "none" <=> k = first
      BY <1>1
    <3> QED BY <1>1, <1>2, <3>1, HttpAssumption DEF NotFound
  <2>2. ASSUME NEW k \in Layers, frame[k] # "none"
        PROVE  continuation[k] = "advance" <=> k < index
    BY <1>1, <1>2, <1>3, <2>2, HttpAssumption DEF Layers, NotFound
  <2> QED BY <1>1, <1>2, <2>1, <2>2 DEF Scanned
<1>8. ChainSettled /\ Responded /\ Outermost
  <2>1. \A k \in 1..NotFound : frame[k] # "done"
    BY <1>1
  <2> QED BY <1>1, <2>1 DEF ChainSettled, Responded, Outermost
<1>9. Reasons
  BY <1>1 DEF Reasons, Unanswered, Nobody, FromError, FromNotFound
<1> QED BY <1>4, <1>5, <1>6, <1>7, <1>8, <1>9 DEF IInv

LEMMA StepKeeps == IInv /\ [Next]_vars => IInv'
<1> SUFFICES ASSUME IInv, [Next]_vars PROVE IInv'
  OBVIOUS
<1>1. ASSUME NEW k \in Layers, HandlerStep(k) PROVE IInv'
  <2>1. CASE Respond(k)            BY <2>1, RespondKeeps
  <2>2. CASE CallNext(k)           BY <2>2, CallNextKeeps
  <2>3. CASE CallNextWithError(k)  BY <2>3, CallNextWithErrorKeeps
  <2>4. CASE Suspend(k)            BY <2>4, SuspendKeeps
  <2>5. CASE ReturnWithCallback(k) BY <2>5, ReturnWithCallbackKeeps
  <2>6. CASE Return(k)             BY <2>6, ReturnKeeps
  <2>7. CASE Throw(k)              BY <2>7, ThrowKeeps
  <2>8. CASE Resume(k)             BY <2>8, ResumeKeeps
  <2> QED BY <1>1, <2>1, <2>2, <2>3, <2>4, <2>5, <2>6, <2>7, <2>8 DEF HandlerStep
<1>2. ASSUME NEW k \in Layers, PipelineStep(k) PROVE IInv'
  <2>1. CASE OutcomeSettles(k)      BY <2>1, OutcomeSettlesKeeps
  <2>2. CASE ContinuationSettles(k) BY <2>2, ContinuationSettlesKeeps
  <2>3. CASE ErrorLayerSettles(k)   BY <2>3, ErrorLayerSettlesKeeps
  <2>4. CASE ErrorHopSettles(k)     BY <2>4, ErrorHopSettlesKeeps
  <2> QED BY <1>2, <2>1, <2>2, <2>3, <2>4 DEF PipelineStep
<1>3. CASE NotFoundSettles
  BY <1>3, NotFoundSettlesKeeps
<1>4. CASE Serialize
  BY <1>4, SerializeKeeps
<1>5. CASE UNCHANGED vars
  BY <1>5 DEF vars, IInv, Shape, OnStack, Paired, PairedAt, Scanned, ChainSettled, SettledAt,
     Behind, Entered, LeavingBehind, Unfinished, Reasons, Responded, Answered, Outermost
<1> QED BY <1>1, <1>2, <1>3, <1>4, <1>5 DEF Next

(* The invariant holds of every dispatch.                                      *)
THEOREM Invariance == Spec => []IInv
<1> QED BY Initially, StepKeeps, PTL DEF Spec

-----------------------------------------------------------------------------
(* Every reachable state of a dispatch is well typed, and a handler is on the  *)
(* call stack exactly while it runs.                                           *)
THEOREM TypeCorrect == Spec => []TypeOK
<1>1. IInv => TypeOK
  <2> SUFFICES ASSUME IInv PROVE TypeOK
    OBVIOUS
  <2>1. index \in 0..NotFound
    BY HttpAssumption DEF IInv, Shape, NotFound
  <2> QED BY <2>1 DEF IInv, Shape, OnStack, TypeOK
<1> QED BY <1>1, Invariance, PTL

(* The response is serialised only when every layer the scan has entered is    *)
(* settled, up to the first one that left its chain behind (runDispatch).      *)
THEOREM SerializedLast == Spec => []SerializesLast
<1>1. IInv => SerializesLast
  <2> SUFFICES ASSUME IInv, serialized, NEW k \in Entered
               PROVE  \/ frame[k] = "done" /\ k \notin Unfinished
                      \/ \E j \in LeavingBehind : j <= k
    BY DEF SerializesLast
  <2> DEFINE first == LayerAfter(0)
  <2>1. /\ first \in 1..NotFound
        /\ \A j \in 1..NotFound : j < first => j \notin Matching \cup {NotFound}
    BY NextLayer, HttpAssumption DEF NotFound
  <2>2. frame[first] = "done"
    BY DEF IInv, Outermost
  <2> HIDE DEF first
  <2>3. first <= k
    BY <2>1, HttpAssumption DEF IInv, Scanned, Entered, Layers, NotFound
  <2>4. SettledAt(k) \/ Behind(first, k)
    BY <2>1, <2>2, <2>3 DEF IInv, ChainSettled
  <2> QED BY <2>4 DEF SettledAt, Behind
<1> QED BY <1>1, Invariance, PTL

(* The request goes down the layers one by one, however often and from         *)
(* wherever next() is called, and reaches the fallbacks only at the end or     *)
(* with an error (advance, next).                                              *)
THEOREM InTurn == Spec => []LayersInTurn
<1>1. IInv => LayersInTurn
  <2> SUFFICES ASSUME IInv PROVE LayersInTurn
    OBVIOUS
  <2>1. Layers \subseteq 1..NotFound
    BY HttpAssumption DEF Layers, NotFound
  <2>2. \A k \in Entered : k <= index
    BY <2>1 DEF IInv, Scanned, Entered
  <2>3. ASSUME NEW j \in Matching, j < index
        PROVE  j \in handedOff /\ continuation[j] = "advance"
    <3>1. j \in Layers /\ j <= index
      BY <2>3, HttpAssumption DEF IInv, Shape, Layers, NotFound
    <3>2. frame[j] # "none"
      BY <2>1, <3>1 DEF IInv, Scanned
    <3> QED BY <2>3, <3>1, <3>2 DEF IInv, Scanned
  <2>4. EntersInOrder
    BY <2>2, <2>3, HttpAssumption DEF EntersInOrder, Entered, IInv, Shape, Layers, NotFound
  <2>5. index = NotFound => Matching \subseteq handedOff
    BY <2>3, HttpAssumption DEF Layers, NotFound
  <2>6. FallbackHasReason
    BY <2>5 DEF FallbackHasReason, IInv, Reasons
  <2> QED BY <2>4, <2>6 DEF LayersInTurn
<1> QED BY <1>1, Invariance, PTL

(* A response is serialised only when somebody has answered or a handler chose *)
(* not to: no failure and no unmatched path goes unanswered                    *)
(* (writeLastResortResponse).                                                  *)
THEOREM NothingUnanswered == Spec => [](serialized => Answered)
<1>1. IInv => (serialized => Answered)
  <2>1. LayerAfter(0) \in 1..NotFound
    BY NextLayer, HttpAssumption
  <2> QED BY <2>1 DEF IInv, Outermost, Responded
<1> QED BY <1>1, Invariance, PTL

(* An answer that is committed is never replaced by a fallback                 *)
(* (writeLastResortResponse).                                                  *)
THEOREM CommittedStays == Spec => AnswerStays
<1>1. IInv /\ [Next]_vars =>
        [response.headersSent => response' = response \/ response'.by \in Layers]_vars
  <2> SUFFICES ASSUME IInv, [Next]_vars, response.headersSent
               PROVE  response' = response \/ response'.by \in Layers
    OBVIOUS
  <2>1. ASSUME NEW k \in Layers, Respond(k) PROVE response'.by \in Layers
    BY <2>1 DEF Respond, Write
  <2>2. ASSUME NEW k \in Layers, HandlerStep(k), ~Respond(k) PROVE response' = response
    BY <2>2 DEF HandlerStep, CallNext, CallNextWithError, Suspend, ReturnWithCallback, Return,
       Throw, Resume
  <2>3. ASSUME NEW k \in Layers, PipelineStep(k) PROVE response' = response
    BY <2>3 DEF PipelineStep, OutcomeSettles, ContinuationSettles, ErrorLayerSettles,
       ErrorHopSettles, AnswerUnlessSent
  <2>4. NotFoundSettles \/ Serialize \/ UNCHANGED vars => response' = response
    BY DEF NotFoundSettles, Serialize, AnswerUnlessSent, vars
  <2> QED BY <2>1, <2>2, <2>3, <2>4 DEF Next
<1> QED BY <1>1, Invariance, PTL DEF Spec, AnswerStays
=============================================================================
