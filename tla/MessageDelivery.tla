--------------------------- MODULE MessageDelivery ---------------------------
(***************************************************************************)
(* What the queue transport promises the producer of a message: a message  *)
(* leaves the queue once, after every handler has processed it or, in the  *)
(* degrade mode, after it was put into the dead letter queue.  It is lost  *)
(* only where the documentation says so (specs/005-connector-mq-partial-   *)
(* failure, FR-006): degrade mode without a working dead letter queue.     *)
(***************************************************************************)
CONSTANTS Messages, LossAllowed

VARIABLE fate

Fates == {"handled", "deadLettered"} \cup (IF LossAllowed THEN {"lost"} ELSE {})

Init == fate = [m \in Messages |-> "pending"]

(* A delivered batch is acknowledged: all its messages leave the queue. *)
Settle ==
    \E batch \in SUBSET {m \in Messages : fate[m] = "pending"} :
        \E outcome \in [batch -> Fates] :
            fate' = [m \in Messages |-> IF m \in batch THEN outcome[m] ELSE fate[m]]

Spec == Init /\ [][Settle]_fate
=============================================================================
