------------------------------- MODULE Moves -------------------------------
(* .ycsf/moved.yaml: the history of renamed resources, checked and turned  *)
(* into Terraform's moved blocks (pilot/src/moves).                        *)
(*                                                                         *)
(* An endpoint is [idl, idt]: the logical name <<domain, name>> and the    *)
(* Terraform address <<type, name>>. An entry is [from, to, wellFormed].   *)
EXTENDS Integers, Sequences, FiniteSets, SequencesExt

MoveCodes == {"MOV_INVALID", "MOV_DUPLICATE", "MOV_TYPE_CHANGE", "MOV_CONTRADICTORY", "MOV_CYCLE",
              "MOV_TARGET_UNRESOLVED"}

\* The document: a flawed entry or an entry that moves nothing refuses it.
ParseMoves(doc) ==
  IF doc.form = "absent" THEN [ok |-> TRUE, moves |-> <<>>]
  ELSE [ok |-> doc.form = "ok" /\ \A e \in Range(doc.moves) : e.wellFormed /\ e.from # e.to,
        moves |-> doc.moves]

-----------------------------------------------------------------------------
(* The history as a partial function, first entry wins.                    *)

NoEdges == [errors |-> {}, out |-> <<>>, into |-> {}]

EntryError(seen, e) ==
  IF ~e.wellFormed \/ e.from = e.to THEN "MOV_INVALID"
  ELSE IF e.from.idt[1] # e.to.idt[1] THEN "MOV_TYPE_CHANGE"
  ELSE IF e.from \in DOMAIN seen.out /\ seen.out[e.from] = e.to THEN "MOV_DUPLICATE"
  ELSE IF e.from \in DOMAIN seen.out \/ e.to \in seen.into THEN "MOV_CONTRADICTORY"
  ELSE "none"

AddEntry(seen, e) ==
  LET error == EntryError(seen, e)
  IN  IF error # "none" THEN [seen EXCEPT !.errors = @ \cup {error}]
      ELSE [seen EXCEPT !.out = [k \in DOMAIN @ \cup {e.from} |->
                                   IF k = e.from THEN e.to ELSE @[k]],
                        !.into = @ \cup {e.to}]

ValidateMoves(moves) ==
  LET seen[n \in 0..Len(moves)] == IF n = 0 THEN NoEdges ELSE AddEntry(seen[n - 1], moves[n])
  IN  seen[Len(moves)]

-----------------------------------------------------------------------------
(* Chains: from an endpoint nothing moves to, along the history.           *)

Sources(valid) == DOMAIN valid.out \ valid.into

Chain(valid, source) ==
  LET walk[n \in 0..Cardinality(DOMAIN valid.out)] ==
        IF n = 0 THEN <<source>>
        ELSE LET path == walk[n - 1]
             IN  IF Last(path) \in DOMAIN valid.out THEN Append(path, valid.out[Last(path)])
                 ELSE path
  IN  walk[Cardinality(DOMAIN valid.out)]

Chains(valid) == {Chain(valid, source) : source \in Sources(valid)}

\* Mutant: nobody looks where a chain ends.
ChainErrorsUnresolved(valid, current) ==
  IF DOMAIN valid.out \subseteq UNION {Range(c) : c \in Chains(valid)} THEN {} ELSE {"MOV_CYCLE"}

ChainErrors(valid, current) ==
  {"MOV_TARGET_UNRESOLVED" : c \in {d \in Chains(valid) : Last(d) \notin current}}
  \cup (IF DOMAIN valid.out \subseteq UNION {Range(c) : c \in Chains(valid)} THEN {}
        ELSE {"MOV_CYCLE"})

\* One block per change of the address; a change of the logical name alone gives none.
Blocks(chain) ==
  {<<chain[i].idt, chain[i + 1].idt>> :
     i \in {j \in 1..Len(chain) - 1 : chain[j].idt # chain[j + 1].idt}}

BuildMoves(current, moves) ==
  LET valid  == ValidateMoves(moves)
      errors == IF valid.errors # {} THEN valid.errors ELSE ChainErrors(valid, current)
  IN  [errors |-> errors,
       moved  |-> IF errors = {} THEN UNION {Blocks(c) : c \in Chains(valid)} ELSE {}]

-----------------------------------------------------------------------------
(* What Terraform does with the blocks, and what they promise.             *)

\* Terraform refuses two moves from, or two moves to, one address.
Unambiguous(moved) ==
  \A a, b \in moved : a[1] = b[1] \/ a[2] = b[2] => a = b

\* The address an object at idt has after the blocks are applied.
Follow(moved, idt) ==
  LET at[n \in 0..Cardinality(moved)] ==
        IF n = 0 THEN idt
        ELSE LET here == at[n - 1]
             IN  IF \E b \in moved : b[1] = here
                 THEN (CHOOSE b \in moved : b[1] = here)[2] ELSE here
  IN  at[Cardinality(moved)]

\* At one address the history has one object at most, whose logical name may change
\* in place: the names it has there are one run of entries.
OneObjectEach(entries) ==
  LET ends == {e.from : e \in entries} \cup {e.to : e \in entries}
      kept == {e \in entries : e.from.idt = e.to.idt}
  IN  \A a, b \in ends : a.idt = b.idt =>
        /\ (\A e \in kept : e.from \notin {a, b}) => a = b
        /\ (\A e \in kept : e.to \notin {a, b}) => a = b
=============================================================================
