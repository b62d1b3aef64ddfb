----------------------------- MODULE DependsOn -----------------------------
(* The dependency graph of the apps of a project: its validation and its   *)
(* topological order (model/depends-on.ts), and the alphabetical order in  *)
(* which the artifacts are materialised (materialize/select.ts).           *)
(*                                                                         *)
(* apps is the list of .ycsf/apps.yaml in file order: records with an id   *)
(* and the sequence deps of the ids of its depends_on.                     *)
EXTENDS Integers, Sequences, FiniteSets, SequencesExt, Subsequences

CONSTANT Alphabet        \* every app id, in the order of Array.prototype.sort

IdsOf(apps) == {apps[i].id : i \in DOMAIN apps}

\* The keys of a mapping, each with a list: what apps.yaml holds once it is parsed.
IsAppList(apps) ==
  /\ apps \in Seq(Range(apps))
  /\ \A a \in Range(apps) : a.deps \in Seq(Range(a.deps)) /\ a.id \in Range(Alphabet)
  /\ \A i, j \in DOMAIN apps : apps[i].id = apps[j].id => i = j

\* What stays of depends_on when the app itself and unknown apps are dropped.
Adjacency(apps) ==
  [id \in IdsOf(apps) |->
     LET app == apps[CHOOSE i \in DOMAIN apps : apps[i].id = id]
     IN  Only(app.deps, IdsOf(apps) \ {id})]

EdgeErrors(apps) ==
  {<<"PML_DEPENDS_SELF", a.id>> : a \in {b \in Range(apps) : b.id \in Range(b.deps)}}
  \cup {<<"PML_DEPENDS_UNKNOWN", a.id>> :
          a \in {b \in Range(apps) : Range(b.deps) \ IdsOf(apps) # {}}}

-----------------------------------------------------------------------------
(* The depth-first search. A state of it: the next root, the stack of      *)
(* frames, the colours, the finished nodes and the cycles seen so far.     *)

White(apps) == [id \in IdsOf(apps) |-> "white"]
Start(apps) == [root |-> 1, stack |-> <<>>, colour |-> White(apps), post |-> <<>>, cycles |-> {}]

Push(s, node) == [s EXCEPT !.stack = Append(@, [node |-> node, idx |-> 0]),
                           !.colour[node] = "gray"]

NextRoot(s, apps) ==
  IF s.colour[apps[s.root].id] = "white"
  THEN [Push(s, apps[s.root].id) EXCEPT !.root = @ + 1]
  ELSE [s EXCEPT !.root = @ + 1]

Finish(s) == [s EXCEPT !.post = Append(@, Last(s.stack).node),
                       !.colour[Last(s.stack).node] = "black",
                       !.stack = Front(@)]

\* The chain that closes on a gray node, as the set by which cycles are told apart.
CycleAt(s, target) ==
  LET nodes == [i \in DOMAIN s.stack |-> s.stack[i].node]
      start == CHOOSE i \in DOMAIN nodes : nodes[i] = target
  IN  {nodes[i] : i \in start..Len(nodes)}

Visit(s, target) ==
  LET advanced == [s EXCEPT !.stack[Len(s.stack)].idx = @ + 1]
  IN  IF s.colour[target] = "black" THEN advanced
      ELSE IF s.colour[target] = "gray"
           THEN [advanced EXCEPT !.cycles = @ \cup {CycleAt(s, target)}]
      ELSE Push(advanced, target)

Step(s, apps) ==
  IF s.stack = <<>> THEN IF s.root > Len(apps) THEN s ELSE NextRoot(s, apps)
  ELSE LET top  == Last(s.stack)
           deps == Adjacency(apps)[top.node]
       IN  IF top.idx = Len(deps) THEN Finish(s) ELSE Visit(s, deps[top.idx + 1])

\* Every step takes a root, finishes a node or follows an edge.
Work(apps) ==
  {<<"root", i, 0>> : i \in DOMAIN apps} \cup {<<"node", id, 0>> : id \in IdsOf(apps)}
  \cup UNION {{<<"edge", id, k>> : k \in DOMAIN Adjacency(apps)[id]} : id \in IdsOf(apps)}

Fuel(apps) == Cardinality(Work(apps))

Search(apps) ==
  LET run[n \in 0..Fuel(apps)] == IF n = 0 THEN Start(apps) ELSE Step(run[n - 1], apps)
  IN  run[Fuel(apps)]

BuildDependsOnGraph(apps) ==
  LET end    == Search(apps)
      errors == EdgeErrors(apps) \cup {<<"PML_DEPENDS_CYCLE", c>> : c \in end.cycles}
  IN  [errors |-> errors, order |-> IF errors = {} THEN end.post ELSE <<>>]

-----------------------------------------------------------------------------
(* The order of materialisation: the first ready app of the alphabet.      *)

\* Mutant: every app that is left is ready.
ReadyAlways(apps, done) == IdsOf(apps) \ done

Ready(apps, done) ==
  {id \in IdsOf(apps) \ done : Range(Adjacency(apps)[id]) \subseteq done}

First(ids) == Only(Alphabet, ids)[1]

TakeNext(apps, sofar) ==
  LET ready == Ready(apps, Range(sofar))
  IN  IF ready = {} THEN sofar ELSE Append(sofar, First(ready))

DeterministicOrder(apps) ==
  LET order[n \in 0..Cardinality(IdsOf(apps))] ==
        IF n = 0 THEN <<>> ELSE TakeNext(apps, order[n - 1])
  IN  order[Cardinality(IdsOf(apps))]

-----------------------------------------------------------------------------
(* What the search is meant to decide, by the relation alone.              *)

\* What the apps ids depend on directly.
Direct(apps, ids) == UNION {Range(a.deps) : a \in {b \in Range(apps) : b.id \in ids}}

\* id depends on other, directly or through apps of the project: other is in every
\* set that holds what id depends on, and what its own members depend on.
DependsOn(apps, id, other) ==
  \A set \in SUBSET Direct(apps, IdsOf(apps)) :
    Direct(apps, set \cup {id}) \subseteq set => other \in set

Acceptable(apps) ==
  /\ \A a \in Range(apps) : Range(a.deps) \subseteq IdsOf(apps)
  /\ \A a \in Range(apps) : ~DependsOn(apps, a.id, a.id)
=============================================================================
