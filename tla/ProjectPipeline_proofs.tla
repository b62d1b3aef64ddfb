----------------------- MODULE ProjectPipeline_proofs -----------------------
(***************************************************************************)
(* Proved of ProjectPipeline, for any projects, any versions of their      *)
(* files, any faults and any number of commands: BuildOrder;               *)
(* GeneratedExactly, where resources have addresses of their own; where no *)
(* app can be called moved, NothingDangles, CheckAgrees, and, if every     *)
(* history has one object at an address, MovesLead.  First what the        *)
(* helpers return (Only, the walk over the dependency graph of DependsOn,  *)
(* the two orders, the rules, the files), for every list of apps, rules or *)
(* products; then what the commands do with it.                            *)
(***************************************************************************)
EXTENDS ProjectPipeline, FiniteSetTheorems, SequenceTheorems, WellFoundedInduction, TLAPS

-----------------------------------------------------------------------------
(* Numbers, subsequences, and the graph of a list of apps. *)

(* Recursion without an induction theorem: a set of numbers with 0 and with  *)
(* every successor has every number.                                         *)

LEMMA EveryNumber ==
  ASSUME NEW S, 0 \in S, \A n \in Nat : n \in S => n + 1 \in S
  PROVE  \A n \in Nat : n \in S
<1> DEFINE bad == Nat \ S
<1>1. SUFFICES ASSUME bad # {} PROVE FALSE OBVIOUS
<1>2. PICK m \in bad : \A n \in bad : ~(<<n, m>> \in OpToRel(<, Nat))
  <2> HIDE DEF bad
  <2>1. bad \in SUBSET Nat BY DEF bad
  <2> QED BY <1>1, <2>1, NatLessThanWellFounded, WFMin
<1>3. m \in Nat /\ m # 0 /\ m \notin S OBVIOUS
<1>4. m - 1 \in Nat /\ m - 1 < m /\ (m - 1) + 1 = m BY <1>3
<1>5. m - 1 \in bad BY <1>3, <1>4
<1>6. <<m - 1, m>> \in OpToRel(<, Nat) BY <1>3, <1>4 DEF OpToRel
<1> QED BY <1>2, <1>5, <1>6

(* Only: what is left of a sequence.                                         *)

Kept(seq, set, n, f) ==
  f = [i \in 0..n |-> IF i = 0 THEN <<>>
                      ELSE IF seq[i] \in set THEN Append(f[i - 1], seq[i]) ELSE f[i - 1]]

(* The prefixes of the recursion in Only. *)
LEMMA KeptExists ==
  ASSUME NEW seq, NEW set, NEW n \in Nat
  PROVE  \E f : Kept(seq, set, n, f)
<1> DEFINE good == {m \in Nat : \E f : Kept(seq, set, m, f)}
<1>1. 0 \in good
  <2> DEFINE f == [i \in 0..0 |-> <<>>]
  <2>1. Kept(seq, set, 0, f)
    <3>1. f = [i \in 0..0 |-> IF i = 0 THEN <<>>
                    ELSE IF seq[i] \in set THEN Append(f[i - 1], seq[i]) ELSE f[i - 1]]
      OBVIOUS
    <3> QED BY <3>1 DEF Kept
  <2> QED BY <2>1
<1>2. \A m \in Nat : m \in good => m + 1 \in good
  <2> SUFFICES ASSUME NEW m \in Nat, NEW f, Kept(seq, set, m, f)
               PROVE  \E g : Kept(seq, set, m + 1, g) OBVIOUS
  <2> DEFINE next == IF seq[m + 1] \in set THEN Append(f[m], seq[m + 1]) ELSE f[m]
             g == [i \in 0..(m + 1) |-> IF i = m + 1 THEN next ELSE f[i]]
  <2>1. \A i \in 0..m : g[i] = f[i] OBVIOUS
  <2>2. \A i \in 0..m : f[i] = IF i = 0 THEN <<>>
           ELSE IF seq[i] \in set THEN Append(f[i - 1], seq[i]) ELSE f[i - 1]
    BY DEF Kept
  <2>3. g[m + 1] = next OBVIOUS
  <2>4. DOMAIN g = 0..(m + 1) /\ g = [i \in 0..(m + 1) |-> g[i]] OBVIOUS
  <2> HIDE DEF g
  <2>5. ASSUME NEW i \in 0..(m + 1)
        PROVE  g[i] = IF i = 0 THEN <<>>
           ELSE IF seq[i] \in set THEN Append(g[i - 1], seq[i]) ELSE g[i - 1]
    <3>1. CASE i = m + 1
      <4>1. i - 1 = m /\ g[i - 1] = f[m] /\ i # 0 BY <2>1, <3>1
      <4> QED BY <2>3, <3>1, <4>1
    <3>2. CASE i # m + 1
      <4>1. i \in 0..m BY <3>2
      <4>2. i # 0 => i - 1 \in 0..m BY <4>1
      <4> QED BY <2>1, <2>2, <4>1, <4>2
    <3> QED BY <3>1, <3>2
  <2>6. Kept(seq, set, m + 1, g) BY <2>4, <2>5 DEF Kept
  <2> QED BY <2>6
<1> HIDE DEF good
<1>3. n \in good BY <1>1, <1>2, EveryNumber
<1> QED BY <1>3 DEF good

(* What is left are the elements in the set, one place for one place and in  *)
(* their order.                                                              *)
Left(seq, set, n, t, at) ==
  /\ t \in Seq(Range(seq) \cap set)
  /\ at \in [DOMAIN t -> 1..n]
  /\ \A i \in DOMAIN t : t[i] = seq[at[i]]
  /\ \A i, j \in DOMAIN t : i < j => at[i] < at[j]
  /\ \A k \in 1..n : seq[k] \in set => \E i \in DOMAIN t : at[i] = k

LEMMA OnlyLeft ==
  ASSUME NEW T, NEW seq \in Seq(T), NEW set
  PROVE  \E at : Left(seq, set, Len(seq), Only(seq, set), at)
<1> DEFINE N == Len(seq)
           f == CHOOSE f : Kept(seq, set, N, f)
<1>1. N \in Nat /\ DOMAIN seq = 1..N /\ \A k \in 1..N : seq[k] \in Range(seq)
  BY DEF Range
<1>2. Kept(seq, set, N, f) BY <1>1, KeptExists
<1>3. Only(seq, set) = f[N] BY DEF Only, Kept
<1>4. \A i \in 0..N : f[i] = IF i = 0 THEN <<>>
        ELSE IF seq[i] \in set THEN Append(f[i - 1], seq[i]) ELSE f[i - 1]
  BY <1>2 DEF Kept
<1> HIDE DEF f, N
<1> DEFINE good == {n \in Nat : n <= N => \E at : Left(seq, set, n, f[n], at)}
<1>5. 0 \in good
  <2>1. f[0] = <<>> BY <1>1, <1>4
  <2> DEFINE at == [i \in {} |-> 0]
  <2>2. at \in [{} -> 1..0] /\ DOMAIN <<>> = {} OBVIOUS
  <2> HIDE DEF at
  <2>3. Left(seq, set, 0, <<>>, at) BY <2>2 DEF Left
  <2> QED BY <2>1, <2>3
<1>6. \A n \in Nat : n \in good => n + 1 \in good
  <2> SUFFICES ASSUME NEW n \in Nat, n \in good PROVE n + 1 \in good OBVIOUS
  <2> SUFFICES ASSUME n + 1 <= N PROVE \E at : Left(seq, set, n + 1, f[n + 1], at) OBVIOUS
  <2> DEFINE t == f[n]
             x == seq[n + 1]
  <2>1. PICK at : Left(seq, set, n, t, at) BY <1>1
  <2>2. f[n + 1] = IF x \in set THEN Append(t, x) ELSE t
    <3>1. n + 1 \in 0..N /\ n + 1 # 0 /\ (n + 1) - 1 = n BY <1>1
    <3> QED BY <1>4, <3>1
  <2>3. x \in Range(seq) BY <1>1
  <2> HIDE DEF t, x, good
  <2>4. t \in Seq(Range(seq) \cap set) /\ Len(t) \in Nat /\ DOMAIN t = 1..Len(t) BY <2>1 DEF Left
  <2>5. /\ at \in [DOMAIN t -> 1..n]
        /\ \A i \in DOMAIN t : t[i] = seq[at[i]]
        /\ \A i, j \in DOMAIN t : i < j => at[i] < at[j]
        /\ \A k \in 1..n : seq[k] \in set => \E i \in DOMAIN t : at[i] = k
    BY <2>1 DEF Left
  <2>6. CASE x \notin set
    <3>1. at \in [DOMAIN t -> 1..(n + 1)] BY <2>5
    <3>2. \A k \in 1..(n + 1) : seq[k] \in set => \E i \in DOMAIN t : at[i] = k
      <4> SUFFICES ASSUME NEW k \in 1..(n + 1), seq[k] \in set PROVE \E i \in DOMAIN t : at[i] = k
        OBVIOUS
      <4>1. k # n + 1 BY <2>6 DEF x
      <4>2. k \in 1..n BY <4>1
      <4> QED BY <2>5, <4>2
    <3>3. Left(seq, set, n + 1, t, at) BY <2>4, <2>5, <3>1, <3>2 DEF Left
    <3> QED BY <2>2, <2>6, <3>3
  <2>7. CASE x \in set
    <3> DEFINE u == Append(t, x)
               to == [i \in DOMAIN u |-> IF i \in DOMAIN t THEN at[i] ELSE n + 1]
    <3>1. /\ u \in Seq(Range(seq) \cap set) /\ DOMAIN u = 1..(Len(t) + 1)
          /\ u[Len(t) + 1] = x /\ \A i \in DOMAIN t : u[i] = t[i]
      BY <2>3, <2>4, <2>7
    <3>2. /\ DOMAIN to = DOMAIN u /\ to[Len(t) + 1] = n + 1 /\ \A i \in DOMAIN t : to[i] = at[i]
          /\ \A i \in DOMAIN u : i \in DOMAIN t \/ i = Len(t) + 1
      BY <2>4, <3>1
    <3>3. to \in [DOMAIN u -> 1..(n + 1)]
      <4>1. \A i \in DOMAIN u : to[i] \in 1..(n + 1) BY <2>5, <3>2
      <4>2. to = [i \in DOMAIN u |-> to[i]] OBVIOUS
      <4> HIDE DEF to, u
      <4> QED BY <4>1, <4>2
    <3> HIDE DEF u, to
    <3>4. \A i \in DOMAIN u : u[i] = seq[to[i]] BY <2>5, <3>1, <3>2 DEF x
    <3>5. \A i, j \in DOMAIN u : i < j => to[i] < to[j]
      <4> SUFFICES ASSUME NEW i \in DOMAIN u, NEW j \in DOMAIN u, i < j PROVE to[i] < to[j]
        OBVIOUS
      <4>1. i \in DOMAIN t /\ i \in Nat /\ j \in Nat BY <2>4, <3>1
      <4>2. to[i] = at[i] /\ at[i] \in 1..n BY <2>5, <3>2, <4>1
      <4>3. CASE j = Len(t) + 1 BY <3>2, <4>2, <4>3
      <4>4. CASE j \in DOMAIN t BY <2>5, <3>2, <4>1, <4>2, <4>4
      <4> QED BY <3>2, <4>3, <4>4
    <3>6. \A k \in 1..(n + 1) : seq[k] \in set => \E i \in DOMAIN u : to[i] = k
      <4> SUFFICES ASSUME NEW k \in 1..(n + 1), seq[k] \in set PROVE \E i \in DOMAIN u : to[i] = k
        OBVIOUS
      <4>1. CASE k = n + 1
        <5>1. Len(t) + 1 \in DOMAIN u BY <2>4, <3>1
        <5> QED BY <3>2, <4>1, <5>1
      <4>2. CASE k # n + 1
        <5>1. k \in 1..n BY <4>2
        <5>2. PICK i \in DOMAIN t : at[i] = k BY <2>5, <5>1
        <5>3. i \in DOMAIN u BY <2>4, <3>1
        <5> QED BY <3>2, <5>2, <5>3
      <4> QED BY <4>1, <4>2
    <3>7. Left(seq, set, n + 1, u, to) BY <3>1, <3>3, <3>4, <3>5, <3>6 DEF Left
    <3> QED BY <2>2, <2>7, <3>7 DEF u
  <2> QED BY <2>6, <2>7
<1> HIDE DEF good
<1>7. N \in good BY <1>1, <1>5, <1>6, EveryNumber
<1> QED BY <1>1, <1>3, <1>7 DEF good, N

(* What Only returns, without the places. *)
LEMMA OnlyIs ==
  ASSUME NEW T, NEW seq \in Seq(T), NEW set
  PROVE  /\ Only(seq, set) \in Seq(T)
         /\ Range(Only(seq, set)) = Range(seq) \cap set
<1> DEFINE t == Only(seq, set)
<1>1. PICK at : Left(seq, set, Len(seq), t, at) BY OnlyLeft
<1> HIDE DEF t
<1>2. t \in Seq(Range(seq) \cap set) BY <1>1 DEF Left
<1>3. Range(seq) \subseteq T /\ DOMAIN seq = 1..Len(seq) BY DEF Range
<1>4. DOMAIN t = 1..Len(t) /\ \A i \in DOMAIN t : t[i] \in Range(seq) \cap set BY <1>2
<1>5. t \in Seq(T) BY <1>2, <1>3, <1>4, SeqDef
<1>6. \A x \in Range(seq) \cap set : x \in Range(t)
  <2> SUFFICES ASSUME NEW k \in DOMAIN seq, seq[k] \in set PROVE seq[k] \in Range(t)
    BY DEF Range
  <2>1. PICK i \in DOMAIN t : at[i] = k BY <1>1, <1>3 DEF Left
  <2> QED BY <1>1, <2>1 DEF Left, Range
<1>7. Range(t) \subseteq Range(seq) \cap set BY <1>4 DEF Range
<1> QED BY <1>5, <1>6, <1>7 DEF t

-----------------------------------------------------------------------------
(* The search *)

Ran(apps, n, f) == f = [i \in 0..n |-> IF i = 0 THEN Start(apps) ELSE Step(f[i - 1], apps)]

(* The states of the search after 0..n steps. *)
LEMMA RanExists ==
  ASSUME NEW apps, NEW n \in Nat
  PROVE  \E f : Ran(apps, n, f)
<1> DEFINE good == {m \in Nat : \E f : Ran(apps, m, f)}
<1>1. 0 \in good
  <2> DEFINE f == [i \in 0..0 |-> Start(apps)]
  <2>1. f = [i \in 0..0 |-> IF i = 0 THEN Start(apps) ELSE Step(f[i - 1], apps)] OBVIOUS
  <2>2. Ran(apps, 0, f) BY <2>1 DEF Ran
  <2> QED BY <2>2
<1>2. \A m \in Nat : m \in good => m + 1 \in good
  <2> SUFFICES ASSUME NEW m \in Nat, NEW f, Ran(apps, m, f)
               PROVE  \E g : Ran(apps, m + 1, g) OBVIOUS
  <2> DEFINE g == [i \in 0..(m + 1) |-> IF i = m + 1 THEN Step(f[m], apps) ELSE f[i]]
  <2>1. \A i \in 0..m : g[i] = f[i] OBVIOUS
  <2>2. \A i \in 0..m : f[i] = IF i = 0 THEN Start(apps) ELSE Step(f[i - 1], apps) BY DEF Ran
  <2>3. g[m + 1] = Step(f[m], apps) OBVIOUS
  <2>4. DOMAIN g = 0..(m + 1) /\ g = [i \in 0..(m + 1) |-> g[i]] OBVIOUS
  <2> HIDE DEF g
  <2>5. ASSUME NEW i \in 0..(m + 1)
        PROVE  g[i] = IF i = 0 THEN Start(apps) ELSE Step(g[i - 1], apps)
    <3>1. CASE i = m + 1
      <4>1. i - 1 = m /\ g[i - 1] = f[m] /\ i # 0 BY <2>1, <3>1
      <4> QED BY <2>3, <3>1, <4>1
    <3>2. CASE i # m + 1
      <4>1. i \in 0..m BY <3>2
      <4>2. i # 0 => i - 1 \in 0..m BY <4>1
      <4> QED BY <2>1, <2>2, <4>1, <4>2
    <3> QED BY <3>1, <3>2
  <2>6. Ran(apps, m + 1, g) BY <2>4, <2>5 DEF Ran
  <2> QED BY <2>6
<1> HIDE DEF good
<1>3. n \in good BY <1>1, <1>2, EveryNumber
<1> QED BY <1>3 DEF good

(* The edges of an app: the apps of the project it names, itself left out. *)
LEMMA AdjacencyIs ==
  ASSUME NEW apps, IsAppList(apps)
  PROVE  /\ DOMAIN Adjacency(apps) = IdsOf(apps)
         /\ \A i \in DOMAIN apps :
              /\ apps[i].id \in IdsOf(apps)
              /\ Adjacency(apps)[apps[i].id] \in Seq(IdsOf(apps))
              /\ Range(Adjacency(apps)[apps[i].id])
                  = Range(apps[i].deps) \cap (IdsOf(apps) \ {apps[i].id})
<1>1. DOMAIN Adjacency(apps) = IdsOf(apps) BY DEF Adjacency
<1> SUFFICES ASSUME NEW i \in DOMAIN apps
             PROVE  /\ apps[i].id \in IdsOf(apps)
                    /\ Adjacency(apps)[apps[i].id] \in Seq(IdsOf(apps))
                    /\ Range(Adjacency(apps)[apps[i].id])
                        = Range(apps[i].deps) \cap (IdsOf(apps) \ {apps[i].id})
  BY <1>1
<1> DEFINE id == apps[i].id
           deps == apps[i].deps
           set == IdsOf(apps) \ {id}
<1>2. id \in IdsOf(apps) BY DEF IdsOf
<1>3. apps[CHOOSE j \in DOMAIN apps : apps[j].id = id] = apps[i]
  <2>1. \A j \in DOMAIN apps : apps[j].id = id => j = i BY DEF IsAppList
  <2>2. (CHOOSE j \in DOMAIN apps : apps[j].id = id) = i BY <2>1
  <2> QED BY <2>2
<1>4. Adjacency(apps)[id] = Only(deps, set) BY <1>2, <1>3 DEF Adjacency
<1>5. deps \in Seq(Range(deps)) BY DEF IsAppList, Range
<1> HIDE DEF deps, id, set
<1> DEFINE t == Only(deps, set)
<1>6. t \in Seq(Range(deps)) /\ Range(t) = Range(deps) \cap set BY <1>5, OnlyIs
<1> HIDE DEF t
<1>7. t \in Seq(IdsOf(apps))
  <2>1. DOMAIN t = 1..Len(t) /\ Len(t) \in Nat BY <1>6
  <2>2. \A k \in 1..Len(t) : t[k] \in IdsOf(apps) BY <1>6, <2>1 DEF Range, set
  <2>3. t = [k \in 1..Len(t) |-> t[k]] BY <1>6
  <2>4. t \in [1..Len(t) -> IdsOf(apps)] BY <2>2, <2>3
  <2> QED BY <2>1, <2>4
<1> QED BY <1>2, <1>4, <1>6, <1>7 DEF t, id, deps, set

(* What the theorems about the search need to know of a graph: names, edges,  *)
(* and the list in which its roots are taken.                                 *)
IsGraph(apps, ids, edges) ==
  /\ Len(apps) \in Nat /\ DOMAIN apps = 1..Len(apps)
  /\ \A i \in 1..Len(apps) : apps[i].id \in ids
  /\ \A id \in ids : \E i \in 1..Len(apps) : apps[i].id = id
  /\ DOMAIN edges = ids
  /\ \A id \in ids : edges[id] \in Seq(ids)

(* A list of apps is a graph. *)
LEMMA GraphOf ==
  ASSUME NEW apps, IsAppList(apps)
  PROVE  IsGraph(apps, IdsOf(apps), Adjacency(apps))
<1>1. Len(apps) \in Nat /\ DOMAIN apps = 1..Len(apps) BY DEF IsAppList
<1>2. \A id \in IdsOf(apps) : \E i \in 1..Len(apps) : apps[i].id = id BY <1>1 DEF IdsOf
<1>3. \A id \in IdsOf(apps) : Adjacency(apps)[id] \in Seq(IdsOf(apps))
  BY <1>1, <1>2, AdjacencyIs
<1> QED BY <1>1, <1>2, <1>3, AdjacencyIs DEF IsGraph, IdsOf

-----------------------------------------------------------------------------
(* The search for the order (DependsOn.Search): what is true of its state, and what
   of its work is done.  A step keeps Sound and does one piece more: Advances.        *)

(* A state of the search. *)
Typed(apps, ids, s) ==
  /\ DOMAIN s = {"root", "stack", "colour", "post", "cycles"}
  /\ s.root \in 1..(Len(apps) + 1)
  /\ s.stack \in Seq([node : ids, idx : Nat])
  /\ s.colour \in [ids -> {"white", "gray", "black"}]
  /\ s.post \in Seq(ids)

(* The gray nodes are those on the stack, each once.                         *)
GrayOnStack(ids, stack, colour) ==
  /\ \A id \in ids : colour[id] = "gray" <=> \E i \in DOMAIN stack : stack[i].node = id
  /\ \A i, j \in DOMAIN stack : stack[i].node = stack[j].node => i = j

(* The black nodes are the finished ones, each once.                         *)
BlackInPost(ids, post, colour) ==
  /\ \A id \in ids : colour[id] = "black" <=> \E i \in DOMAIN post : post[i] = id
  /\ \A i, j \in DOMAIN post : post[i] = post[j] => i = j

(* A frame stands above the one whose edge has led to it.                    *)
Chained(edges, stack) ==
  \A i \in DOMAIN stack :
    /\ stack[i].idx <= Len(edges[stack[i].node])
    /\ i < Len(stack) => /\ stack[i].idx >= 1
                         /\ edges[stack[i].node][stack[i].idx] = stack[i + 1].node

(* An edge that a frame has followed leads to a finished node, or to the     *)
(* frame above, or there is a cycle.                                         *)
Followed(edges, stack, colour, cycles) ==
  \A i \in DOMAIN stack : \A k \in 1..stack[i].idx :
    \/ i < Len(stack) /\ k = stack[i].idx
    \/ colour[edges[stack[i].node][k]] = "black"
    \/ cycles # {}

(* What is finished comes after all it leads to, or there is a cycle.        *)
Ordered(edges, post, cycles) ==
  \A i \in DOMAIN post : \A k \in DOMAIN edges[post[i]] :
    (\E j \in 1..(i - 1) : post[j] = edges[post[i]][k]) \/ cycles # {}

(* No root that was taken is white any more.                                 *)
RootsTaken(apps, root, colour) == \A k \in 1..(root - 1) : colour[apps[k].id] # "white"

(* What the search calls a cycle is one.                                     *)
Leads(edges, a, b) == \E k \in DOMAIN edges[a] : edges[a][k] = b

Circle(ids, edges) ==
  \E n \in Nat \ {0} : \E c \in [1..n -> ids] :
    /\ \A i \in 1..n : i < n => Leads(edges, c[i], c[i + 1])
    /\ Leads(edges, c[n], c[1])

Sound(apps, ids, edges, s) ==
  /\ Typed(apps, ids, s)
  /\ GrayOnStack(ids, s.stack, s.colour)
  /\ BlackInPost(ids, s.post, s.colour)
  /\ Chained(edges, s.stack)
  /\ Followed(edges, s.stack, s.colour, s.cycles)
  /\ Ordered(edges, s.post, s.cycles)
  /\ RootsTaken(apps, s.root, s.colour)
  /\ s.cycles # {} => Circle(ids, edges)

(* The work that is done.                                                    *)
RootsDone(root) == {<<"root", k, 0>> : k \in 1..(root - 1)}
NodesDone(ids, colour) == {<<"node", id, 0>> : id \in {x \in ids : colour[x] = "black"}}
EdgeDone(edges, stack, colour, id, k) ==
  /\ k \in DOMAIN edges[id]
  /\ colour[id] = "black" \/ \E i \in DOMAIN stack : stack[i].node = id /\ k <= stack[i].idx
EdgesDone(ids, edges, stack, colour) ==
  {<<"edge", p[1], p[2]>> : p \in {q \in ids \X Nat : EdgeDone(edges, stack, colour, q[1], q[2])}}
Done(ids, edges, s) ==
  RootsDone(s.root) \cup NodesDone(ids, s.colour) \cup EdgesDone(ids, edges, s.stack, s.colour)

AllWork(apps, ids, edges) ==
  {<<"root", i, 0>> : i \in DOMAIN apps} \cup {<<"node", id, 0>> : id \in ids}
  \cup UNION {{<<"edge", id, k>> : k \in DOMAIN edges[id]} : id \in ids}

Advances(apps, ids, edges, s, t) ==
  \E w \in AllWork(apps, ids, edges) :
    w \notin Done(ids, edges, s) /\ Done(ids, edges, t) = Done(ids, edges, s) \cup {w}

(* The edges that are done depend on the stack and the colours alone. *)
LEMMA EdgesSame ==
  ASSUME NEW ids, NEW edges, NEW stack, NEW colour, NEW newStack, NEW newColour,
         \A id \in ids, k \in Nat :
           EdgeDone(edges, newStack, newColour, id, k) <=> EdgeDone(edges, stack, colour, id, k)
  PROVE  EdgesDone(ids, edges, newStack, newColour) = EdgesDone(ids, edges, stack, colour)
<1>1. {q \in ids \X Nat : EdgeDone(edges, stack, colour, q[1], q[2])}
      = {q \in ids \X Nat : EdgeDone(edges, newStack, newColour, q[1], q[2])}
  OBVIOUS
<1> QED BY <1>1 DEF EdgesDone

OneEdgeMore(ids, edges, stack, colour, newStack, newColour, node, n) ==
  /\ node \in ids /\ n \in Nat
  /\ \A id \in ids, k \in Nat :
       EdgeDone(edges, newStack, newColour, id, k)
         <=> EdgeDone(edges, stack, colour, id, k) \/ (id = node /\ k = n)

(* One edge more is done. *)
LEMMA EdgesOneMore ==
  ASSUME NEW ids, NEW edges, NEW stack, NEW colour, NEW newStack, NEW newColour,
         NEW node, NEW n,
         OneEdgeMore(ids, edges, stack, colour, newStack, newColour, node, n)
  PROVE  EdgesDone(ids, edges, newStack, newColour)
         = EdgesDone(ids, edges, stack, colour) \cup {<<"edge", node, n>>}
<1> DEFINE P == {q \in ids \X Nat : EdgeDone(edges, stack, colour, q[1], q[2])}
           Q == {q \in ids \X Nat : EdgeDone(edges, newStack, newColour, q[1], q[2])}
<1>1. Q = P \cup {<<node, n>>} BY DEF OneEdgeMore
<1>2. EdgesDone(ids, edges, stack, colour) = {<<"edge", p[1], p[2]>> : p \in P} BY DEF EdgesDone
<1>3. EdgesDone(ids, edges, newStack, newColour) = {<<"edge", p[1], p[2]>> : p \in Q}
  BY DEF EdgesDone
<1> HIDE DEF P, Q
<1>4. \A p \in Q : p \in P \/ p = <<node, n>> BY <1>1
<1>5. <<node, n>>[1] = node /\ <<node, n>>[2] = n OBVIOUS
<1> QED BY <1>1, <1>2, <1>3, <1>4, <1>5

(* Nothing is done at the start. *)
LEMMA StartSound ==
  ASSUME NEW apps, NEW ids, NEW edges, IsGraph(apps, ids, edges), ids = IdsOf(apps)
  PROVE  Sound(apps, ids, edges, Start(apps)) /\ Done(ids, edges, Start(apps)) = {}
<1> DEFINE s == Start(apps)
<1>1. /\ DOMAIN s = {"root", "stack", "colour", "post", "cycles"}
      /\ s.root = 1 /\ s.stack = <<>> /\ s.post = <<>> /\ s.cycles = {}
      /\ s.colour = [id \in ids |-> "white"]
  BY DEF Start, White
<1>2. Len(apps) \in Nat BY DEF IsGraph
<1> HIDE DEF s
<1>3. <<>> \in Seq([node : ids, idx : Nat]) /\ <<>> \in Seq(ids) /\ DOMAIN <<>> = {} OBVIOUS
<1>4. Typed(apps, ids, s) BY <1>1, <1>2, <1>3 DEF Typed
<1>5. Sound(apps, ids, edges, s)
  BY <1>1, <1>3, <1>4
  DEF Sound, GrayOnStack, BlackInPost, Chained, Followed, Ordered, RootsTaken
<1>6. RootsDone(s.root) = {} BY <1>1 DEF RootsDone
<1>7. NodesDone(ids, s.colour) = {} BY <1>1 DEF NodesDone
<1>8. EdgesDone(ids, edges, s.stack, s.colour) = {} BY <1>1, <1>3 DEF EdgesDone, EdgeDone
<1> QED BY <1>5, <1>6, <1>7, <1>8 DEF s, Done

-----------------------------------------------------------------------------
(* A root is passed over.                                                    *)
LEMMA RootAdvances ==
  ASSUME NEW apps, NEW ids, NEW edges, NEW s, NEW t, s.root \in DOMAIN apps, s.root \in Nat \ {0},
         t.root = s.root + 1, NodesDone(ids, t.colour) = NodesDone(ids, s.colour),
         EdgesDone(ids, edges, t.stack, t.colour) = EdgesDone(ids, edges, s.stack, s.colour)
  PROVE  Advances(apps, ids, edges, s, t)
<1> DEFINE w == <<"root", s.root, 0>>
<1>1. w \in AllWork(apps, ids, edges) BY DEF AllWork
<1>2. w \notin RootsDone(s.root) BY DEF RootsDone
<1>3. w \notin NodesDone(ids, s.colour) /\ w \notin EdgesDone(ids, edges, s.stack, s.colour)
  BY DEF NodesDone, EdgesDone
<1>4. RootsDone(t.root) = RootsDone(s.root) \cup {w}
  <2>1. 1..(t.root - 1) = 1..(s.root - 1) \cup {s.root} OBVIOUS
  <2> QED BY <2>1 DEF RootsDone
<1> HIDE DEF w
<1> QED BY <1>1, <1>2, <1>3, <1>4 DEF Advances, Done

(* A root that is not white is passed over. *)
LEMMA SkipSound ==
  ASSUME NEW apps, NEW ids, NEW edges, IsGraph(apps, ids, edges), NEW s, Sound(apps, ids, edges, s),
         s.root <= Len(apps), s.colour[apps[s.root].id] # "white"
  PROVE  /\ Sound(apps, ids, edges, [s EXCEPT !.root = @ + 1])
         /\ Advances(apps, ids, edges, s, [s EXCEPT !.root = @ + 1])
<1> DEFINE t == [s EXCEPT !.root = @ + 1]
<1>1. /\ Typed(apps, ids, s) /\ s.root \in Nat \ {0} /\ Len(apps) \in Nat /\ s.root >= 1
      /\ s.root \in DOMAIN apps
  BY DEF Sound, Typed, IsGraph
<1>2. /\ DOMAIN t = DOMAIN s /\ t.root = s.root + 1 /\ t.stack = s.stack /\ t.colour = s.colour
      /\ t.post = s.post /\ t.cycles = s.cycles
  BY <1>1 DEF Typed
<1> HIDE DEF t
<1>3. Typed(apps, ids, t) BY <1>1, <1>2 DEF Typed
<1>4. RootsTaken(apps, t.root, t.colour)
  <2>1. \A k \in 1..(t.root - 1) : k = s.root \/ k \in 1..(s.root - 1) BY <1>1, <1>2
  <2> QED BY <1>2, <2>1 DEF Sound, RootsTaken
<1>5. Sound(apps, ids, edges, t) BY <1>2, <1>3, <1>4 DEF Sound
<1>6. Advances(apps, ids, edges, s, t) BY <1>1, <1>2, RootAdvances
<1> QED BY <1>5, <1>6 DEF t

(* A root is pushed.                                                         *)
LEMMA RootSound ==
  ASSUME NEW apps, NEW ids, NEW edges, IsGraph(apps, ids, edges), NEW s, Sound(apps, ids, edges, s),
         s.root <= Len(apps), s.stack = <<>>, s.colour[apps[s.root].id] = "white"
  PROVE  LET t == [Push(s, apps[s.root].id) EXCEPT !.root = @ + 1]
         IN  Sound(apps, ids, edges, t) /\ Advances(apps, ids, edges, s, t)
<1> DEFINE node == apps[s.root].id
           t == [Push(s, node) EXCEPT !.root = @ + 1]
           frame == [node |-> node, idx |-> 0]
<1>1. /\ Typed(apps, ids, s) /\ s.root \in Nat \ {0} /\ Len(apps) \in Nat
      /\ s.root \in DOMAIN apps /\ node \in ids
  BY DEF Sound, Typed, IsGraph
<1>2. /\ DOMAIN t = DOMAIN s /\ t.root = s.root + 1 /\ t.stack = Append(s.stack, frame)
      /\ t.colour = [s.colour EXCEPT ![node] = "gray"] /\ t.post = s.post /\ t.cycles = s.cycles
  BY <1>1 DEF Typed, Push
<1>3. frame \in [node : ids, idx : Nat] /\ frame.node = node /\ frame.idx = 0 BY <1>1
<1> HIDE DEF t, frame, node
<1>4. /\ t.stack \in Seq([node : ids, idx : Nat]) /\ DOMAIN t.stack = {1} /\ Len(t.stack) = 1
      /\ t.stack[1] = frame
  BY <1>2, <1>3
<1>5. /\ t.colour \in [ids -> {"white", "gray", "black"}] /\ t.colour[node] = "gray"
      /\ \A id \in ids : id # node => t.colour[id] = s.colour[id]
      /\ s.colour[node] = "white"
  BY <1>1, <1>2 DEF Typed, node
<1>6. Typed(apps, ids, t) BY <1>1, <1>2, <1>4, <1>5 DEF Typed
<1>7. \A id \in ids : s.colour[id] # "gray" BY DEF Sound, GrayOnStack
<1>8. GrayOnStack(ids, t.stack, t.colour) BY <1>3, <1>4, <1>5, <1>7 DEF GrayOnStack
<1>9. BlackInPost(ids, t.post, t.colour)
  <2>1. \A id \in ids : t.colour[id] = "black" <=> s.colour[id] = "black" BY <1>5
  <2> QED BY <1>2, <2>1 DEF Sound, BlackInPost
<1>10. Chained(edges, t.stack)
  <2>1. Len(edges[node]) \in Nat BY <1>1 DEF IsGraph
  <2> QED BY <1>3, <1>4, <2>1 DEF Chained
<1>11. Followed(edges, t.stack, t.colour, t.cycles) BY <1>3, <1>4 DEF Followed
<1>12. RootsTaken(apps, t.root, t.colour)
  <2>1. \A k \in 1..(t.root - 1) : k = s.root \/ k \in 1..(s.root - 1) BY <1>1, <1>2
  <2>2. \A k \in 1..(s.root - 1) : k \in 1..Len(apps) BY <1>1 DEF Typed
  <2>3. \A k \in 1..(s.root - 1) : apps[k].id \in ids /\ s.colour[apps[k].id] # "white"
    BY <2>2 DEF Sound, RootsTaken, IsGraph
  <2> QED BY <1>5, <2>1, <2>3 DEF RootsTaken, node
<1>13. Sound(apps, ids, edges, t) BY <1>2, <1>6, <1>8, <1>9, <1>10, <1>11, <1>12 DEF Sound
<1>14. NodesDone(ids, t.colour) = NodesDone(ids, s.colour)
  <2>1. {x \in ids : t.colour[x] = "black"} = {x \in ids : s.colour[x] = "black"} BY <1>5
  <2> QED BY <2>1 DEF NodesDone
<1>15. EdgesDone(ids, edges, t.stack, t.colour) = EdgesDone(ids, edges, s.stack, s.colour)
  <2>1. \A id \in ids, k \in Nat :
          EdgeDone(edges, t.stack, t.colour, id, k) <=> EdgeDone(edges, s.stack, s.colour, id, k)
    <3> SUFFICES ASSUME NEW id \in ids, NEW k \in Nat
                 PROVE  EdgeDone(edges, t.stack, t.colour, id, k)
                          <=> EdgeDone(edges, s.stack, s.colour, id, k)
      OBVIOUS
    <3>1. k \in DOMAIN edges[id] => k >= 1 BY DEF IsGraph
    <3>2. (t.colour[id] = "black") <=> (s.colour[id] = "black") BY <1>5
    <3>3. ~ \E i \in DOMAIN s.stack : s.stack[i].node = id /\ k <= s.stack[i].idx OBVIOUS
    <3>4. k >= 1 => ~ \E i \in DOMAIN t.stack : t.stack[i].node = id /\ k <= t.stack[i].idx
      BY <1>3, <1>4
    <3> QED BY <3>1, <3>2, <3>3, <3>4 DEF EdgeDone
  <2> QED BY <2>1, EdgesSame
<1>16. Advances(apps, ids, edges, s, t) BY <1>1, <1>2, <1>14, <1>15, RootAdvances
<1> QED BY <1>13, <1>16 DEF t, node

-----------------------------------------------------------------------------
(* The search: a frame whose edges are all followed is finished. *)

(* The frame on top of the stack. *)
TopKnown(ids, edges, stack, colour, L, node, idx) ==
  /\ L \in Nat /\ L >= 1 /\ DOMAIN stack = 1..L
  /\ Last(stack) = stack[L] /\ stack[L].node = node /\ stack[L].idx = idx
  /\ node \in ids /\ idx \in Nat
  /\ \A i \in 1..L : stack[i].node \in ids /\ stack[i].idx \in Nat
  /\ edges[node] \in Seq(ids) /\ DOMAIN edges[node] = 1..Len(edges[node])
  /\ Len(edges[node]) \in Nat /\ idx <= Len(edges[node])
  /\ colour[node] = "gray"

(* What is known of the frame on top. *)
LEMMA TopFrame ==
  ASSUME NEW apps, NEW ids, NEW edges, IsGraph(apps, ids, edges), NEW s, Sound(apps, ids, edges, s),
         s.stack # <<>>
  PROVE  TopKnown(ids, edges, s.stack, s.colour, Len(s.stack), Last(s.stack).node, Last(s.stack).idx)
<1> DEFINE L == Len(s.stack)
           S == [node : ids, idx : Nat]
<1>1. s.stack \in Seq(S) BY DEF Sound, Typed
<1> HIDE DEF S
<1>2. L \in Nat /\ L >= 1 /\ DOMAIN s.stack = 1..L /\ \A i \in 1..L : s.stack[i] \in S BY <1>1
<1>3. Last(s.stack) = s.stack[L] BY DEF Last
<1>4. L \in DOMAIN s.stack BY <1>2
<1>5. \A i \in 1..L : s.stack[i].node \in ids /\ s.stack[i].idx \in Nat BY <1>2 DEF S
<1> DEFINE node == s.stack[L].node
           out == edges[node]
<1>6. node \in ids /\ s.stack[L].idx \in Nat BY <1>2, <1>5
<1>7. out \in Seq(ids) BY <1>6 DEF IsGraph
<1>8. s.stack[L].idx <= Len(out) BY <1>4 DEF Sound, Chained
<1>9. s.colour[node] = "gray" BY <1>4, <1>6 DEF Sound, GrayOnStack
<1>10. DOMAIN out = 1..Len(out) /\ Len(out) \in Nat BY <1>7
<1> QED BY <1>2, <1>3, <1>5, <1>6, <1>7, <1>8, <1>9, <1>10 DEF TopKnown

(* A node is finished.                                                       *)
LEMMA FinishSound ==
  ASSUME NEW apps, NEW ids, NEW edges, IsGraph(apps, ids, edges), NEW s, Sound(apps, ids, edges, s),
         s.stack # <<>>, Last(s.stack).idx = Len(edges[Last(s.stack).node])
  PROVE  Sound(apps, ids, edges, Finish(s)) /\ Advances(apps, ids, edges, s, Finish(s))
<1> DEFINE t == Finish(s)
           L == Len(s.stack)
           node == Last(s.stack).node
           P == Len(s.post)
<1>1. /\ L \in Nat /\ L >= 1 /\ DOMAIN s.stack = 1..L /\ node \in ids
      /\ s.stack[L].node = node /\ s.stack[L].idx = Len(edges[node])
      /\ \A i \in DOMAIN s.stack : s.stack[i].node \in ids /\ s.stack[i].idx \in Nat
      /\ DOMAIN edges[node] = 1..Len(edges[node]) /\ Len(edges[node]) \in Nat
      /\ s.colour[node] = "gray"
  BY TopFrame DEF TopKnown
<1>2. Typed(apps, ids, s) BY DEF Sound
<1>3. /\ DOMAIN t = DOMAIN s /\ t.root = s.root /\ t.stack = Front(s.stack)
      /\ t.colour = [s.colour EXCEPT ![node] = "black"] /\ t.post = Append(s.post, node)
      /\ t.cycles = s.cycles
  BY <1>2 DEF Typed, Finish
<1> HIDE DEF t, node
<1>4. /\ t.stack \in Seq([node : ids, idx : Nat]) /\ DOMAIN t.stack = 1..(L - 1)
      /\ Len(t.stack) = L - 1 /\ \A i \in 1..(L - 1) : t.stack[i] = s.stack[i]
  <2> DEFINE S == [node : ids, idx : Nat]
  <2>1. s.stack \in Seq(S) BY <1>2 DEF Typed
  <2> HIDE DEF S
  <2>2. Front(s.stack) = SubSeq(s.stack, 1, L - 1) BY DEF Front
  <2>3. SubSeq(s.stack, 1, L - 1) \in Seq(S) BY <1>1, <2>1
  <2> QED BY <1>1, <1>3, <2>1, <2>2, <2>3 DEF S
<1>5. /\ t.post \in Seq(ids) /\ P \in Nat /\ DOMAIN s.post = 1..P /\ DOMAIN t.post = 1..(P + 1)
      /\ t.post[P + 1] = node /\ \A i \in 1..P : t.post[i] = s.post[i] /\ s.post[i] \in ids
  BY <1>1, <1>2, <1>3 DEF Typed
<1>6. /\ t.colour \in [ids -> {"white", "gray", "black"}] /\ t.colour[node] = "black"
      /\ \A id \in ids : id # node => t.colour[id] = s.colour[id]
  BY <1>1, <1>2, <1>3 DEF Typed
<1>7. Typed(apps, ids, t) BY <1>2, <1>3, <1>4, <1>5, <1>6 DEF Typed
<1>8. GrayOnStack(ids, s.stack, s.colour) BY DEF Sound
<1>9. GrayOnStack(ids, t.stack, t.colour)
  <2>1. ASSUME NEW id \in ids
        PROVE  t.colour[id] = "gray" <=> \E i \in DOMAIN t.stack : t.stack[i].node = id
    <3>1. CASE id = node
      <4>1. \A i \in 1..(L - 1) : s.stack[i].node # node BY <1>1, <1>8, SMTT(40) DEF GrayOnStack
      <4> QED BY <1>4, <1>6, <3>1, <4>1
    <3>2. CASE id # node
      <4>1. t.colour[id] = "gray" <=> \E i \in 1..L : s.stack[i].node = id
        BY <1>1, <1>6, <1>8, <3>2 DEF GrayOnStack
      <4>2. (\E i \in 1..L : s.stack[i].node = id) <=> \E i \in 1..(L - 1) : s.stack[i].node = id
        BY <1>1, <3>2
      <4> QED BY <1>4, <4>1, <4>2
    <3> QED BY <3>1, <3>2
  <2>2. \A i, j \in DOMAIN t.stack : t.stack[i].node = t.stack[j].node => i = j
    <3>1. \A i \in DOMAIN t.stack : i \in DOMAIN s.stack /\ t.stack[i] = s.stack[i]
      BY <1>1, <1>4, SMTT(40)
    <3> QED BY <1>8, <3>1 DEF GrayOnStack
  <2> QED BY <2>1, <2>2 DEF GrayOnStack
<1>10. BlackInPost(ids, s.post, s.colour) BY DEF Sound
<1>11. \A i \in 1..P : s.post[i] # node
  <2>1. s.colour[node] # "black" BY <1>1
  <2> QED BY <1>1, <1>5, <1>10, <2>1 DEF BlackInPost
<1>12. BlackInPost(ids, t.post, t.colour)
  <2>1. ASSUME NEW id \in ids
        PROVE  t.colour[id] = "black" <=> \E i \in DOMAIN t.post : t.post[i] = id
    <3>1. CASE id = node
      <4>1. P + 1 \in DOMAIN t.post BY <1>5
      <4> QED BY <1>5, <1>6, <3>1, <4>1
    <3>2. CASE id # node
      <4>1. t.colour[id] = "black" <=> \E i \in 1..P : s.post[i] = id
        BY <1>5, <1>6, <1>10, <3>2 DEF BlackInPost
      <4>2. \A i \in DOMAIN t.post : i \in 1..P \/ i = P + 1 BY <1>5
      <4>3. \A i \in 1..P : i \in DOMAIN t.post BY <1>5
      <4> QED BY <1>5, <3>2, <4>1, <4>2, <4>3
    <3> QED BY <3>1, <3>2
  <2>2. ASSUME NEW i \in DOMAIN t.post, NEW j \in DOMAIN t.post, t.post[i] = t.post[j]
        PROVE  i = j
    <3>1. i \in 1..P \/ i = P + 1 BY <1>5
    <3>2. j \in 1..P \/ j = P + 1 BY <1>5
    <3>3. CASE i \in 1..P /\ j \in 1..P BY <1>5, <1>10, <2>2, <3>3 DEF BlackInPost
    <3> QED BY <1>5, <1>11, <2>2, <3>1, <3>2, <3>3
  <2> QED BY <2>1, <2>2 DEF BlackInPost
<1>13. Chained(edges, s.stack) /\ Followed(edges, s.stack, s.colour, s.cycles)
       /\ Ordered(edges, s.post, s.cycles) /\ RootsTaken(apps, s.root, s.colour)
  BY DEF Sound
<1>14. Chained(edges, t.stack)
  <2> SUFFICES ASSUME NEW i \in 1..(L - 1)
               PROVE  /\ t.stack[i].idx <= Len(edges[t.stack[i].node])
                      /\ i < L - 1 => /\ t.stack[i].idx >= 1
                           /\ edges[t.stack[i].node][t.stack[i].idx] = t.stack[i + 1].node
    BY <1>4 DEF Chained
  <2>1. i \in 1..L /\ i < L BY <1>1
  <2>2. /\ s.stack[i].idx <= Len(edges[s.stack[i].node]) /\ s.stack[i].idx >= 1
        /\ edges[s.stack[i].node][s.stack[i].idx] = s.stack[i + 1].node
    BY <1>1, <1>13, <2>1 DEF Chained
  <2>3. i < L - 1 => i + 1 \in 1..(L - 1) BY <1>1
  <2> QED BY <1>4, <2>2, <2>3
<1>15. \A id \in ids : s.colour[id] = "black" => t.colour[id] = "black" BY <1>6
<1>16. \A i \in DOMAIN s.stack : \A k \in 1..s.stack[i].idx :
         /\ k \in DOMAIN edges[s.stack[i].node] /\ edges[s.stack[i].node][k] \in ids
  <2> SUFFICES ASSUME NEW i \in DOMAIN s.stack, NEW k \in 1..s.stack[i].idx
               PROVE  /\ k \in DOMAIN edges[s.stack[i].node] /\ edges[s.stack[i].node][k] \in ids
    OBVIOUS
  <2>1. edges[s.stack[i].node] \in Seq(ids) BY <1>1 DEF IsGraph
  <2>2. s.stack[i].idx <= Len(edges[s.stack[i].node]) BY <1>13 DEF Chained
  <2> QED BY <1>1, <2>1, <2>2
<1>17. Followed(edges, t.stack, t.colour, t.cycles)
  <2> SUFFICES ASSUME NEW i \in 1..(L - 1), NEW k \in 1..s.stack[i].idx, s.cycles = {}
               PROVE  \/ i < L - 1 /\ k = s.stack[i].idx
                      \/ t.colour[edges[s.stack[i].node][k]] = "black"
    <3>1. \A i \in DOMAIN t.stack : i \in 1..(L - 1) /\ t.stack[i] = s.stack[i] BY <1>4
    <3>2. Len(t.stack) = L - 1 /\ t.cycles = s.cycles BY <1>3, <1>4
    <3> QED BY <3>1, <3>2 DEF Followed
  <2>1. i \in DOMAIN s.stack /\ i < L BY <1>1
  <2>2. k = s.stack[i].idx \/ s.colour[edges[s.stack[i].node][k]] = "black"
    BY <1>1, <1>13, <2>1 DEF Followed
  <2>3. CASE k = s.stack[i].idx /\ ~(i < L - 1)
    <3>1. i = L - 1 /\ i + 1 = L BY <1>1, <2>3
    <3>2. edges[s.stack[i].node][k] = s.stack[i + 1].node BY <1>13, <2>1, <2>3, <1>1 DEF Chained
    <3>3. edges[s.stack[i].node][k] = node BY <1>1, <3>1, <3>2
    <3> QED BY <1>6, <3>3
  <2>4. CASE s.colour[edges[s.stack[i].node][k]] = "black" BY <1>15, <1>16, <2>1, <2>4
  <2> QED BY <2>2, <2>3, <2>4
<1>18. Ordered(edges, t.post, t.cycles)
  <2> SUFFICES ASSUME NEW i \in DOMAIN t.post, NEW k \in DOMAIN edges[t.post[i]], s.cycles = {}
               PROVE  \E j \in 1..(i - 1) : t.post[j] = edges[t.post[i]][k]
    BY <1>3, ZenonT(60) DEF Ordered
  <2>1. CASE i \in 1..P
    <3>1. k \in DOMAIN edges[s.post[i]] /\ i \in DOMAIN s.post BY <1>5, <2>1
    <3>2. PICK j \in 1..(i - 1) : s.post[j] = edges[s.post[i]][k] BY <1>13, <3>1 DEF Ordered
    <3>3. j \in 1..P BY <1>5, <2>1
    <3> QED BY <1>5, <2>1, <3>2, <3>3
  <2>2. CASE i = P + 1
    <3>1. k \in 1..s.stack[L].idx /\ L \in DOMAIN s.stack BY <1>1, <1>5, <2>2
    <3>2. ~(L < L) BY <1>1
    <3>3. s.colour[edges[node][k]] = "black" BY <1>1, <1>13, <3>1, <3>2 DEF Followed
    <3>4. edges[node][k] \in ids BY <1>1, <1>16, <3>1
    <3>5. PICK j \in DOMAIN s.post : s.post[j] = edges[node][k]
      BY <1>10, <3>3, <3>4 DEF BlackInPost
    <3>6. j \in 1..(i - 1) /\ t.post[j] = s.post[j] BY <1>5, <2>2
    <3> QED BY <1>5, <2>2, <3>5, <3>6
  <2> QED BY <1>5, <2>1, <2>2
<1>19. RootsTaken(apps, t.root, t.colour)
  <2> SUFFICES ASSUME NEW k \in 1..(s.root - 1) PROVE t.colour[apps[k].id] # "white"
    BY <1>3 DEF RootsTaken
  <2>1. apps[k].id \in ids BY <1>2 DEF Typed, IsGraph
  <2>2. s.colour[apps[k].id] # "white" BY <1>13 DEF RootsTaken
  <2> QED BY <1>6, <2>1, <2>2
<1>20. Sound(apps, ids, edges, t)
  BY <1>3, <1>7, <1>9, <1>12, <1>14, <1>17, <1>18, <1>19 DEF Sound
<1> DEFINE w == <<"node", node, 0>>
<1>21. w \in AllWork(apps, ids, edges) BY <1>1 DEF AllWork
<1>22. w \notin NodesDone(ids, s.colour) BY <1>1 DEF NodesDone
<1>23. w \notin RootsDone(s.root) /\ w \notin EdgesDone(ids, edges, s.stack, s.colour)
  BY DEF RootsDone, EdgesDone
<1>24. NodesDone(ids, t.colour) = NodesDone(ids, s.colour) \cup {w}
  <2>1. {x \in ids : t.colour[x] = "black"} = {x \in ids : s.colour[x] = "black"} \cup {node}
    BY <1>1, <1>6
  <2> QED BY <2>1 DEF NodesDone
<1>25. EdgesDone(ids, edges, t.stack, t.colour) = EdgesDone(ids, edges, s.stack, s.colour)
  <2>1. ASSUME NEW id \in ids, NEW k \in Nat
        PROVE  EdgeDone(edges, t.stack, t.colour, id, k)
                 <=> EdgeDone(edges, s.stack, s.colour, id, k)
    <3>1. CASE id = node
      <4>1. k \in DOMAIN edges[id] => k <= s.stack[L].idx /\ s.stack[L].node = id
        BY <1>1, <3>1
      <4>2. L \in DOMAIN s.stack BY <1>1
      <4> QED BY <1>6, <3>1, <4>1, <4>2 DEF EdgeDone
    <3>2. CASE id # node
      <4>1. t.colour[id] = s.colour[id] BY <1>6, <3>2
      <4>2. (\E i \in DOMAIN s.stack : s.stack[i].node = id /\ k <= s.stack[i].idx)
              <=> \E i \in DOMAIN t.stack : t.stack[i].node = id /\ k <= t.stack[i].idx
        <5>1. \A i \in DOMAIN s.stack : i \in DOMAIN t.stack \/ i = L BY <1>1, <1>4
        <5>2. \A i \in DOMAIN t.stack : i \in DOMAIN s.stack /\ t.stack[i] = s.stack[i]
          BY <1>1, <1>4, SMTT(40)
        <5> QED BY <1>1, <3>2, <5>1, <5>2
      <4> QED BY <4>1, <4>2 DEF EdgeDone
    <3> QED BY <3>1, <3>2
  <2> QED BY <2>1, EdgesSame
<1> HIDE DEF w
<1>26. Advances(apps, ids, edges, s, t)
  BY <1>3, <1>21, <1>22, <1>23, <1>24, <1>25 DEF Advances, Done
<1> QED BY <1>20, <1>26 DEF t

-----------------------------------------------------------------------------
(* The search: an edge to a node that is being visited, or that is finished. *)

(* An edge more is a piece of work more. *)
LEMMA EdgeAdvances ==
  ASSUME NEW apps, NEW ids, NEW edges, NEW s, NEW t, NEW node \in ids, NEW n \in DOMAIN edges[node],
         ~EdgeDone(edges, s.stack, s.colour, node, n), t.root = s.root, n \in Nat,
         NodesDone(ids, t.colour) = NodesDone(ids, s.colour),
         EdgesDone(ids, edges, t.stack, t.colour)
           = EdgesDone(ids, edges, s.stack, s.colour) \cup {<<"edge", node, n>>}
  PROVE  Advances(apps, ids, edges, s, t)
<1> DEFINE w == <<"edge", node, n>>
<1>1. w \in AllWork(apps, ids, edges) BY DEF AllWork
<1>2. w \notin EdgesDone(ids, edges, s.stack, s.colour) BY DEF EdgesDone
<1>3. w \notin NodesDone(ids, s.colour) /\ w \notin RootsDone(s.root) BY DEF NodesDone, RootsDone
<1> HIDE DEF w
<1> QED BY <1>1, <1>2, <1>3 DEF Advances, Done, w

(* The top frame goes on to its next edge.                                   *)
OneEdgeOn(stack, next, L, n) ==
  /\ DOMAIN next = 1..L /\ Len(next) = L /\ n = stack[L].idx + 1
  /\ \A i \in 1..L : next[i].node = stack[i].node
  /\ \A i \in 1..L : i # L => next[i].idx = stack[i].idx
  /\ next[L].idx = n

(* The top frame has gone on to its next edge. *)
LEMMA AdvancedStack ==
  ASSUME NEW apps, NEW ids, NEW edges, IsGraph(apps, ids, edges), NEW s, Sound(apps, ids, edges, s),
         s.stack # <<>>
  PROVE  LET next == [s.stack EXCEPT ![Len(s.stack)].idx = @ + 1]
         IN  /\ next \in Seq([node : ids, idx : Nat])
             /\ OneEdgeOn(s.stack, next, Len(s.stack), Last(s.stack).idx + 1)
<1> DEFINE L == Len(s.stack)
           S == [node : ids, idx : Nat]
           next == [s.stack EXCEPT ![L].idx = @ + 1]
           top == [s.stack[L] EXCEPT !.idx = @ + 1]
<1>1. TopKnown(ids, edges, s.stack, s.colour, L, Last(s.stack).node, Last(s.stack).idx) BY TopFrame
<1>2. s.stack \in Seq(S) BY DEF Sound, Typed
<1>3. L \in 1..L /\ DOMAIN s.stack = 1..L /\ L \in Nat BY <1>1 DEF TopKnown
<1>4. s.stack[L] \in S
  <2> HIDE DEF S
  <2> QED BY <1>2, <1>3
<1>5. top \in S /\ top.node = s.stack[L].node /\ top.idx = s.stack[L].idx + 1 BY <1>4
<1>6. next = [s.stack EXCEPT ![L] = top] OBVIOUS
<1> HIDE DEF S, next, top
<1>7. next \in Seq(S) /\ Len(next) = L BY <1>2, <1>3, <1>5, <1>6
<1>8. DOMAIN next = 1..L /\ next[L] = top /\ \A i \in 1..L : i # L => next[i] = s.stack[i]
  BY <1>3, <1>6
<1>9. Last(s.stack) = s.stack[L] BY <1>1 DEF TopKnown
<1> QED BY <1>3, <1>5, <1>7, <1>8, <1>9 DEF OneEdgeOn, S, next

(* From s to t the search has gone on to edge n of its top frame, the one of *)
(* node, and that edge leads to a black node or closes a circle.             *)
Follows(ids, edges, s, t, L, node, n) ==
  /\ s.stack # <<>> /\ L = Len(s.stack) /\ node = Last(s.stack).node
  /\ n = Last(s.stack).idx + 1 /\ Last(s.stack).idx # Len(edges[node])
  /\ DOMAIN t = DOMAIN s /\ t.root = s.root /\ t.colour = s.colour /\ t.post = s.post
  /\ t.stack \in Seq([node : ids, idx : Nat]) /\ OneEdgeOn(s.stack, t.stack, L, n)
  /\ s.cycles # {} => t.cycles # {}
  /\ s.colour[edges[node][n]] = "black" \/ t.cycles # {}
  /\ t.cycles # {} => Circle(ids, edges)

(* An edge to a node that is not white.                                      *)
LEMMA FollowSound ==
  ASSUME NEW apps, NEW ids, NEW edges, IsGraph(apps, ids, edges), NEW s, Sound(apps, ids, edges, s),
         NEW t, NEW node, NEW n, NEW L, Follows(ids, edges, s, t, L, node, n)
  PROVE  Sound(apps, ids, edges, t) /\ Advances(apps, ids, edges, s, t)
<1>20. s.colour[edges[node][n]] = "black" \/ t.cycles # {} BY DEF Follows
<1>21. DOMAIN t = DOMAIN s /\ t.root = s.root /\ t.colour = s.colour /\ t.post = s.post BY DEF Follows
<1>22. s.cycles # {} => t.cycles # {} BY DEF Follows
<1>1. TopKnown(ids, edges, s.stack, s.colour, L, node, n - 1)
  <2>1. /\ s.stack # <<>> /\ L = Len(s.stack) /\ node = Last(s.stack).node
        /\ n = Last(s.stack).idx + 1 /\ Last(s.stack).idx # Len(edges[node])
    BY DEF Follows
  <2>2. TopKnown(ids, edges, s.stack, s.colour, L, node, Last(s.stack).idx) BY <2>1, TopFrame
  <2>3. Last(s.stack).idx \in Nat BY <2>2 DEF TopKnown
  <2> QED BY <2>1, <2>2, <2>3
<1>2. /\ L \in Nat /\ L >= 1 /\ DOMAIN s.stack = 1..L /\ Len(s.stack) = L
      /\ node \in ids /\ n \in Nat /\ n >= 1
      /\ s.stack[L].node = node /\ s.stack[L].idx = n - 1 /\ n \in DOMAIN edges[node]
      /\ n <= Len(edges[node]) /\ \A i \in 1..L : s.stack[i].node \in ids /\ s.stack[i].idx \in Nat
  <2>1. n - 1 # Len(edges[node]) /\ n \in Int
    <3>1. Last(s.stack).idx # Len(edges[node]) /\ n = Last(s.stack).idx + 1 BY DEF Follows
    <3>2. TopKnown(ids, edges, s.stack, s.colour, L, node, Last(s.stack).idx) BY TopFrame DEF Follows
    <3>3. Last(s.stack).idx \in Nat BY <3>2 DEF TopKnown
    <3> QED BY <3>1, <3>3
  <2>2. Len(s.stack) = L BY DEF Follows
  <2> QED BY <1>1, <2>1, <2>2 DEF TopKnown
<1>3. /\ DOMAIN t.stack = 1..L /\ Len(t.stack) = L /\ t.stack[L].idx = n
      /\ \A i \in 1..L : t.stack[i].node = s.stack[i].node
      /\ \A i \in 1..L : i # L => t.stack[i].idx = s.stack[i].idx
  BY DEF Follows, OneEdgeOn
<1>4. Typed(apps, ids, t) BY DEF Sound, Typed, Follows
<1>5. /\ GrayOnStack(ids, s.stack, s.colour) /\ BlackInPost(ids, s.post, s.colour)
      /\ Chained(edges, s.stack) /\ Followed(edges, s.stack, s.colour, s.cycles)
      /\ Ordered(edges, s.post, s.cycles) /\ RootsTaken(apps, s.root, s.colour)
  BY DEF Sound
<1>17. L \in 1..L BY <1>2
<1>18. /\ \A id \in ids : s.colour[id] = "gray" <=> \E i \in 1..L : s.stack[i].node = id
       /\ \A i, j \in 1..L : s.stack[i].node = s.stack[j].node => i = j
  BY <1>2, <1>5, Zenon DEF GrayOnStack
<1>6. GrayOnStack(ids, t.stack, t.colour)
  <2>1. ASSUME NEW id \in ids
        PROVE  t.colour[id] = "gray" <=> \E i \in 1..L : t.stack[i].node = id
    <3>1. s.colour[id] = "gray" <=> \E i \in 1..L : s.stack[i].node = id BY <1>18
    <3> QED BY <1>3, <1>21, <3>1, Zenon
  <2>2. \A i, j \in 1..L : t.stack[i].node = t.stack[j].node => i = j BY <1>3, <1>18, Zenon
  <2> QED BY <1>3, <2>1, <2>2, Zenon DEF GrayOnStack
<1>7. Chained(edges, t.stack)
  <2> SUFFICES ASSUME NEW i \in 1..L
               PROVE  /\ t.stack[i].idx <= Len(edges[t.stack[i].node])
                      /\ i < L => /\ t.stack[i].idx >= 1
                           /\ edges[t.stack[i].node][t.stack[i].idx] = t.stack[i + 1].node
    BY <1>3 DEF Chained
  <2>1. CASE i = L BY <1>2, <1>3, <2>1
  <2>2. CASE i # L
    <3>1. i < L /\ i + 1 \in 1..L BY <1>2, <2>2
    <3>2. /\ s.stack[i].idx <= Len(edges[s.stack[i].node]) /\ s.stack[i].idx >= 1
          /\ edges[s.stack[i].node][s.stack[i].idx] = s.stack[i + 1].node
      BY <1>2, <1>5, <3>1 DEF Chained
    <3> QED BY <1>3, <2>2, <3>1, <3>2
  <2> QED BY <2>1, <2>2
<1>8. Followed(edges, t.stack, t.colour, t.cycles)
  <2> SUFFICES ASSUME NEW i \in 1..L, NEW k \in 1..t.stack[i].idx, t.cycles = {}
               PROVE  \/ i < L /\ k = t.stack[i].idx
                      \/ s.colour[edges[s.stack[i].node][k]] = "black"
    <3>1. \A i \in DOMAIN t.stack : i \in 1..L BY <1>3
    <3> QED BY <1>3, <1>21, <3>1, ZenonT(60) DEF Followed
  <2>1. CASE i = L /\ k = n BY <1>2, <1>20, <2>1
  <2>2. CASE ~(i = L /\ k = n)
    <3>1. k \in 1..s.stack[i].idx BY <1>2, <1>3, <2>2
    <3>2. s.cycles = {} BY <1>22
    <3>3. \/ i < L /\ k = s.stack[i].idx
          \/ s.colour[edges[s.stack[i].node][k]] = "black"
      BY <1>2, <1>5, <3>1, <3>2 DEF Followed
    <3> QED BY <1>2, <1>3, <3>3
  <2> QED BY <2>1, <2>2
<1>9. Ordered(edges, t.post, t.cycles) BY <1>5, <1>21, <1>22 DEF Ordered
<1>10. Sound(apps, ids, edges, t) BY <1>4, <1>5, <1>6, <1>7, <1>8, <1>9, <1>21 DEF Sound, Follows
<1>11. s.colour[node] = "gray" BY <1>1 DEF TopKnown
<1>12. \A i \in 1..L : s.stack[i].node = node => i = L BY <1>2, <1>17, <1>18, Zenon
<1>13. ~EdgeDone(edges, s.stack, s.colour, node, n)
  <2>1. ~ \E i \in DOMAIN s.stack : s.stack[i].node = node /\ n <= s.stack[i].idx BY <1>2, <1>12
  <2> QED BY <1>11, <2>1 DEF EdgeDone
<1>14. ASSUME NEW id \in ids, NEW k \in Nat
       PROVE  EdgeDone(edges, t.stack, t.colour, id, k)
                <=> EdgeDone(edges, s.stack, s.colour, id, k) \/ (id = node /\ k = n)
  <2>1. CASE id = node
    <3>1. (\E i \in DOMAIN t.stack : t.stack[i].node = id /\ k <= t.stack[i].idx) <=> k <= n
      <4>1. \A i \in 1..L : t.stack[i].node = node <=> i = L BY <1>2, <1>3, <1>12, Zenon
      <4> QED BY <1>3, <1>17, <2>1, <4>1, Zenon
    <3>2. (\E i \in DOMAIN s.stack : s.stack[i].node = id /\ k <= s.stack[i].idx) <=> k <= n - 1
      <4>1. \A i \in 1..L : s.stack[i].node = node <=> i = L BY <1>2, <1>12, Zenon
      <4>2. (\E i \in DOMAIN s.stack : s.stack[i].node = id /\ k <= s.stack[i].idx) <=> k <= s.stack[L].idx
        BY <1>2, <1>17, <2>1, <4>1, Zenon
      <4> QED BY <1>2, <4>2, Zenon
    <3> QED BY <1>2, <1>11, <1>21, <2>1, <3>1, <3>2 DEF EdgeDone
  <2>2. CASE id # node
    <3>1. \A i \in 1..L : s.stack[i].node = id => i # L BY <1>2, <2>2
    <3>2. (\E i \in DOMAIN t.stack : t.stack[i].node = id /\ k <= t.stack[i].idx)
            <=> \E i \in DOMAIN s.stack : s.stack[i].node = id /\ k <= s.stack[i].idx
      BY <1>2, <1>3, <3>1
    <3> QED BY <1>21, <2>2, <3>2 DEF EdgeDone
  <2> QED BY <2>1, <2>2
<1>15. EdgesDone(ids, edges, t.stack, t.colour)
         = EdgesDone(ids, edges, s.stack, s.colour) \cup {<<"edge", node, n>>}
  <2>1. node \in ids /\ n \in Nat BY <1>2
  <2>2. \A x \in ids, k \in Nat :
          EdgeDone(edges, t.stack, t.colour, x, k)
            <=> EdgeDone(edges, s.stack, s.colour, x, k) \/ (x = node /\ k = n)
    BY <1>14, Zenon
  <2>3. OneEdgeMore(ids, edges, s.stack, s.colour, t.stack, t.colour, node, n)
    BY <2>1, <2>2, Zenon DEF OneEdgeMore
  <2> QED BY <2>3, EdgesOneMore
<1>16. Advances(apps, ids, edges, s, t) BY <1>2, <1>13, <1>15, <1>21, EdgeAdvances
<1> QED BY <1>10, <1>16

(* An edge to a gray node closes a circle.                                   *)
LEMMA GrayCircle ==
  ASSUME NEW apps, NEW ids, NEW edges, IsGraph(apps, ids, edges), NEW s, Sound(apps, ids, edges, s),
         s.stack # <<>>, Last(s.stack).idx # Len(edges[Last(s.stack).node]),
         s.colour[edges[Last(s.stack).node][Last(s.stack).idx + 1]] = "gray"
  PROVE  Circle(ids, edges)
<1> DEFINE L == Len(s.stack)
           node == Last(s.stack).node
           n == Last(s.stack).idx + 1
           target == edges[node][n]
<1>1. TopKnown(ids, edges, s.stack, s.colour, L, node, Last(s.stack).idx) BY TopFrame
<1>2. /\ L \in Nat /\ L >= 1 /\ DOMAIN s.stack = 1..L /\ node \in ids
      /\ s.stack[L].node = node /\ n \in DOMAIN edges[node] /\ target \in ids
      /\ \A i \in 1..L : s.stack[i].node \in ids /\ s.stack[i].idx \in Nat
  BY <1>1 DEF TopKnown
<1> HIDE DEF L, node, n, target
<1>3. PICK m \in 1..L : s.stack[m].node = target
  <2>1. GrayOnStack(ids, s.stack, s.colour) BY DEF Sound
  <2>2. s.colour[target] = "gray" BY DEF target, node, n
  <2> QED BY <1>2, <2>1, <2>2 DEF GrayOnStack
<1> DEFINE N == L - m + 1
           c == [i \in 1..N |-> s.stack[m + i - 1].node]
<1>4. N \in Nat \ {0} BY <1>2
<1>5. \A i \in 1..N : m + i - 1 \in 1..L BY <1>2
<1>6. c \in [1..N -> ids] BY <1>2, <1>5
<1>7. ASSUME NEW i \in 1..N, i < N PROVE Leads(edges, c[i], c[i + 1])
  <2> DEFINE j == m + i - 1
  <2>1. j \in 1..L /\ j < L /\ j + 1 = m + (i + 1) - 1 /\ i + 1 \in 1..N BY <1>2, <1>7
  <2>2. c[i] = s.stack[j].node /\ c[i + 1] = s.stack[j + 1].node BY <2>1
  <2> HIDE DEF c, j, N
  <2>3. /\ s.stack[j].idx <= Len(edges[s.stack[j].node]) /\ s.stack[j].idx >= 1
        /\ edges[s.stack[j].node][s.stack[j].idx] = s.stack[j + 1].node
    <3>1. Chained(edges, s.stack) BY DEF Sound
    <3> QED BY <1>2, <2>1, <3>1 DEF Chained, L
  <2>4. edges[s.stack[j].node] \in Seq(ids) BY <1>2, <2>1 DEF IsGraph
  <2>5. s.stack[j].idx \in DOMAIN edges[s.stack[j].node] BY <1>2, <2>1, <2>3, <2>4
  <2> QED BY <2>2, <2>3, <2>5 DEF Leads
<1>8. Leads(edges, c[N], c[1])
  <2>1. c[N] = node /\ c[1] = target BY <1>2, <1>3, <1>4
  <2> HIDE DEF c, N
  <2> QED BY <1>2, <2>1 DEF Leads, target
<1> HIDE DEF c, N
<1> QED BY <1>4, <1>6, <1>7, <1>8 DEF Circle

-----------------------------------------------------------------------------
(* The search: an edge to a new node. *)

(* An edge to a white node: it is pushed.                                    *)
Pushes(ids, edges, s, t, L, node, n, target, next) ==
  /\ s.stack # <<>>
  /\ L = Len(s.stack) /\ node = Last(s.stack).node /\ n = Last(s.stack).idx + 1
  /\ Last(s.stack).idx # Len(edges[node]) /\ target = edges[node][n]
  /\ s.colour[target] = "white"
  /\ DOMAIN t = DOMAIN s /\ t.root = s.root /\ t.post = s.post /\ t.cycles = s.cycles
  /\ t.colour = [s.colour EXCEPT ![target] = "gray"]
  /\ t.stack = Append(next, [node |-> target, idx |-> 0])
  /\ next \in Seq([node : ids, idx : Nat]) /\ OneEdgeOn(s.stack, next, L, n)

(* The node is gray then, and none of its edges is followed yet. *)
LEMMA PushSound ==
  ASSUME NEW apps, NEW ids, NEW edges, IsGraph(apps, ids, edges), NEW s, Sound(apps, ids, edges, s),
         NEW t, NEW node, NEW n, NEW L, NEW target, NEW next,
         Pushes(ids, edges, s, t, L, node, n, target, next)
  PROVE  Sound(apps, ids, edges, t) /\ Advances(apps, ids, edges, s, t)
<1>1. TopKnown(ids, edges, s.stack, s.colour, L, node, n - 1)
  <2>1. TopKnown(ids, edges, s.stack, s.colour, L, node, Last(s.stack).idx)
    BY TopFrame DEF Pushes
  <2>2. Last(s.stack).idx \in Nat BY <2>1 DEF TopKnown
  <2>3. n - 1 = Last(s.stack).idx BY <2>2 DEF Pushes
  <2> QED BY <2>1, <2>3
<1>2. /\ L \in Nat /\ L >= 1 /\ DOMAIN s.stack = 1..L /\ node \in ids /\ n \in Nat /\ n >= 1
      /\ s.stack[L].node = node /\ s.stack[L].idx = n - 1 /\ n \in DOMAIN edges[node]
      /\ n <= Len(edges[node]) /\ \A i \in 1..L : s.stack[i].node \in ids /\ s.stack[i].idx \in Nat
  <2>1. n \in Int /\ n - 1 # Len(edges[node])
    <3>1. Last(s.stack).idx = s.stack[L].idx /\ s.stack[L].idx = n - 1 /\ n - 1 \in Nat
      BY <1>1 DEF TopKnown
    <3> QED BY <3>1 DEF Pushes
  <2> QED BY <1>1, <2>1 DEF TopKnown
<1>3. target \in ids /\ target = edges[node][n] /\ s.colour[target] = "white"
  <2>1. target = edges[node][n] /\ s.colour[target] = "white" BY DEF Pushes
  <2>2. edges[node] \in Seq(ids) BY <1>1 DEF TopKnown
  <2> QED BY <1>2, <2>1, <2>2
<1> DEFINE S == [node : ids, idx : Nat]
           frame == [node |-> target, idx |-> 0]
<1>4. frame \in S /\ frame.node = target /\ frame.idx = 0 BY <1>3
<1>5. next \in Seq(S) /\ t.stack = Append(next, frame) BY DEF Pushes
<1> HIDE DEF S, frame
<1>30. OneEdgeOn(s.stack, next, L, n) BY DEF Pushes
<1>31. DOMAIN t = DOMAIN s /\ t.root = s.root /\ t.post = s.post /\ t.cycles = s.cycles BY DEF Pushes
<1>6. Len(next) = L /\ DOMAIN next = 1..L BY <1>30 DEF OneEdgeOn
<1>7. /\ t.stack \in Seq(S) /\ Len(t.stack) = L + 1 /\ DOMAIN t.stack = 1..(L + 1)
      /\ t.stack[L + 1] = frame /\ \A i \in 1..L : t.stack[i] = next[i]
  BY <1>2, <1>4, <1>5, <1>6
<1>8. /\ t.stack[L].idx = n /\ t.stack[L + 1].node = target /\ t.stack[L + 1].idx = 0
      /\ \A i \in 1..L : t.stack[i].node = s.stack[i].node
      /\ \A i \in 1..L : i # L => t.stack[i].idx = s.stack[i].idx
  BY <1>2, <1>4, <1>7, <1>30 DEF OneEdgeOn
<1>9. Typed(apps, ids, s) BY DEF Sound
<1>10. /\ t.colour \in [ids -> {"white", "gray", "black"}] /\ t.colour[target] = "gray"
       /\ \A id \in ids : id # target => t.colour[id] = s.colour[id]
  <2>1. t.colour = [s.colour EXCEPT ![target] = "gray"] BY DEF Pushes
  <2> QED BY <1>3, <1>9, <2>1 DEF Typed
<1>11. Typed(apps, ids, t) BY <1>7, <1>9, <1>10, <1>31 DEF Typed, S
<1>12. /\ GrayOnStack(ids, s.stack, s.colour) /\ BlackInPost(ids, s.post, s.colour)
       /\ Chained(edges, s.stack) /\ Followed(edges, s.stack, s.colour, s.cycles)
       /\ Ordered(edges, s.post, s.cycles) /\ RootsTaken(apps, s.root, s.colour)
       /\ s.cycles # {} => Circle(ids, edges)
  BY DEF Sound
<1>13. L \in 1..L /\ L + 1 \in 1..(L + 1) /\ (\A i \in 1..L : i \in 1..(L + 1))
       /\ (\A i \in 1..(L + 1) : i \in 1..L \/ i = L + 1)
  BY <1>2
<1>14. /\ \A id \in ids : s.colour[id] = "gray" <=> \E i \in 1..L : s.stack[i].node = id
       /\ \A i, j \in 1..L : s.stack[i].node = s.stack[j].node => i = j
  BY <1>2, <1>12, Zenon DEF GrayOnStack
<1>15. \A i \in 1..L : s.stack[i].node # target
  <2>1. s.colour[target] # "gray" BY <1>3
  <2> QED BY <1>3, <1>14, <2>1, Zenon
<1>16. GrayOnStack(ids, t.stack, t.colour)
  <2>1. ASSUME NEW id \in ids
        PROVE  t.colour[id] = "gray" <=> \E i \in 1..(L + 1) : t.stack[i].node = id
    <3>1. CASE id = target BY <1>8, <1>10, <1>13, <3>1, Zenon
    <3>2. CASE id # target
      <4>1. t.colour[id] = "gray" <=> \E i \in 1..L : s.stack[i].node = id
        BY <1>10, <1>14, <3>2, Zenon
      <4>2. t.stack[L + 1].node # id BY <1>8, <3>2
      <4> QED BY <1>8, <1>13, <4>1, <4>2, Zenon
    <3> QED BY <3>1, <3>2
  <2>2. ASSUME NEW i \in 1..(L + 1), NEW j \in 1..(L + 1), t.stack[i].node = t.stack[j].node
        PROVE  i = j
    <3>1. CASE i \in 1..L /\ j \in 1..L BY <1>8, <1>14, <2>2, <3>1, Zenon
    <3>2. CASE i \in 1..L /\ j = L + 1 BY <1>8, <1>15, <2>2, <3>2, Zenon
    <3>3. CASE i = L + 1 /\ j \in 1..L BY <1>8, <1>15, <2>2, <3>3, Zenon
    <3> QED BY <1>13, <3>1, <3>2, <3>3
  <2> QED BY <1>7, <2>1, <2>2, Zenon DEF GrayOnStack
<1>17. \A id \in ids : (t.colour[id] = "black") <=> (s.colour[id] = "black") BY <1>3, <1>10
<1>18. BlackInPost(ids, t.post, t.colour) BY <1>12, <1>17, <1>31 DEF BlackInPost
<1>19. Chained(edges, t.stack)
  <2> SUFFICES ASSUME NEW i \in 1..(L + 1)
               PROVE  /\ t.stack[i].idx <= Len(edges[t.stack[i].node])
                      /\ i < L + 1 => /\ t.stack[i].idx >= 1
                           /\ edges[t.stack[i].node][t.stack[i].idx] = t.stack[i + 1].node
    BY <1>7 DEF Chained
  <2>1. CASE i = L + 1
    <3>1. edges[target] \in Seq(ids) BY <1>3 DEF IsGraph
    <3>2. Len(edges[target]) \in Nat BY <3>1
    <3> QED BY <1>2, <1>8, <2>1, <3>2
  <2>2. CASE i = L BY <1>2, <1>3, <1>8, <1>13, <2>2
  <2>3. CASE i \in 1..L /\ i # L
    <3>1. i < L /\ i + 1 \in 1..L BY <1>2, <2>3
    <3>2. /\ s.stack[i].idx <= Len(edges[s.stack[i].node]) /\ s.stack[i].idx >= 1
          /\ edges[s.stack[i].node][s.stack[i].idx] = s.stack[i + 1].node
      BY <1>2, <1>12, <3>1 DEF Chained
    <3> QED BY <1>8, <2>3, <3>1, <3>2
  <2> QED BY <1>13, <2>1, <2>2, <2>3
<1>20. Followed(edges, t.stack, t.colour, t.cycles)
  <2> SUFFICES ASSUME NEW i \in 1..(L + 1), NEW k \in 1..t.stack[i].idx, s.cycles = {}
               PROVE  \/ i < L + 1 /\ k = t.stack[i].idx
                      \/ t.colour[edges[t.stack[i].node][k]] = "black"
    <3>1. \A i \in DOMAIN t.stack : i \in 1..(L + 1) BY <1>7
    <3> QED BY <1>7, <1>31, <3>1, Zenon DEF Followed
  <2>1. CASE i = L + 1 BY <1>8, <2>1
  <2>2. CASE i \in 1..L /\ k = t.stack[i].idx BY <1>2, <2>2
  <2>3. CASE i \in 1..L /\ k # t.stack[i].idx
    <3>1. k \in 1..s.stack[i].idx /\ (i # L => k # s.stack[i].idx) BY <1>2, <1>8, <2>3
    <3>2. \/ i < L /\ k = s.stack[i].idx
          \/ s.colour[edges[s.stack[i].node][k]] = "black"
      <4>1. i \in DOMAIN s.stack /\ L = Len(s.stack) BY <1>2, <2>3 DEF Pushes
      <4>2. Followed(edges, s.stack, s.colour, {}) BY <1>12
      <4>3. \/ i < Len(s.stack) /\ k = s.stack[i].idx
            \/ s.colour[edges[s.stack[i].node][k]] = "black"
        BY <3>1, <4>1, <4>2, Zenon DEF Followed
      <4> QED BY <4>1, <4>3
    <3>3. s.colour[edges[s.stack[i].node][k]] = "black" BY <1>2, <3>1, <3>2
    <3>4. edges[s.stack[i].node][k] \in ids
      <4>1. edges[s.stack[i].node] \in Seq(ids) BY <1>2, <2>3 DEF IsGraph
      <4>2. s.stack[i].idx <= Len(edges[s.stack[i].node]) BY <1>2, <1>12, <2>3 DEF Chained
      <4> QED BY <1>2, <2>3, <3>1, <4>1, <4>2
    <3> QED BY <1>8, <1>17, <2>3, <3>3, <3>4
  <2> QED BY <1>13, <2>1, <2>2, <2>3
<1>21. RootsTaken(apps, t.root, t.colour)
  <2> SUFFICES ASSUME NEW k \in 1..(s.root - 1) PROVE t.colour[apps[k].id] # "white"
    BY <1>31 DEF RootsTaken
  <2>1. apps[k].id \in ids BY <1>9 DEF Typed, IsGraph
  <2>2. s.colour[apps[k].id] # "white" BY <1>12 DEF RootsTaken
  <2> QED BY <1>10, <2>1, <2>2
<1>22. Sound(apps, ids, edges, t)
  BY <1>11, <1>12, <1>16, <1>18, <1>19, <1>20, <1>21, <1>31 DEF Sound
<1>23. \A i \in 1..L : s.stack[i].node = node => i = L BY <1>2, <1>13, <1>14, Zenon
<1>24. s.colour[node] = "gray" /\ t.colour[node] = "gray" /\ node # target
  BY <1>1, <1>3, <1>10 DEF TopKnown
<1>25. ~EdgeDone(edges, s.stack, s.colour, node, n)
  <2>1. ~ \E i \in DOMAIN s.stack : s.stack[i].node = node /\ n <= s.stack[i].idx BY <1>2, <1>23
  <2> QED BY <1>24, <2>1 DEF EdgeDone
<1>26. ASSUME NEW id \in ids, NEW k \in Nat
       PROVE  EdgeDone(edges, t.stack, t.colour, id, k)
                <=> EdgeDone(edges, s.stack, s.colour, id, k) \/ (id = node /\ k = n)
  <2>1. CASE id = node
    <3>1. (\E i \in DOMAIN t.stack : t.stack[i].node = id /\ k <= t.stack[i].idx) <=> k <= n
      <4>1. \A i \in 1..L : t.stack[i].node = node <=> i = L BY <1>2, <1>8, <1>23, Zenon
      <4> QED BY <1>7, <1>8, <1>13, <1>24, <2>1, <4>1, Zenon
    <3>2. (\E i \in DOMAIN s.stack : s.stack[i].node = id /\ k <= s.stack[i].idx) <=> k <= n - 1
      <4>1. \A i \in 1..L : s.stack[i].node = node <=> i = L BY <1>2, <1>23, Zenon
      <4>2. s.stack[L].idx = n - 1 /\ DOMAIN s.stack = 1..L BY <1>2
      <4> QED BY <1>13, <2>1, <4>1, <4>2, Zenon
    <3> QED BY <1>2, <1>24, <2>1, <3>1, <3>2 DEF EdgeDone
  <2>2. CASE id # node
    <3>1. \A i \in 1..L : s.stack[i].node = id => i # L BY <1>2, <2>2
    <3>2. CASE id = target
      <4>1. \A j \in DOMAIN edges[id] : j >= 1 BY DEF IsGraph
      <4>2. t.colour[id] # "black" /\ s.colour[id] # "black" BY <1>3, <1>10, <3>2
      <4>3. ~ \E i \in DOMAIN s.stack : s.stack[i].node = id BY <1>2, <1>15, <3>2
      <4>4. \A i \in DOMAIN t.stack : t.stack[i].node = id => t.stack[i].idx = 0
        BY <1>7, <1>8, <1>13, <1>15, <3>2
      <4>5. \A i \in DOMAIN t.stack : t.stack[i].node = id /\ k \in DOMAIN edges[id] => ~(k <= t.stack[i].idx)
        <5>1. k \in DOMAIN edges[id] => k \in Nat /\ ~(k <= 0) BY <4>1 DEF IsGraph
        <5> QED BY <4>4, <5>1
      <4> QED BY <2>2, <4>2, <4>3, <4>5 DEF EdgeDone
    <3>3. CASE id # target
      <4>1. (\E i \in DOMAIN t.stack : t.stack[i].node = id /\ k <= t.stack[i].idx)
              <=> \E i \in DOMAIN s.stack : s.stack[i].node = id /\ k <= s.stack[i].idx
        <5>1. DOMAIN s.stack = 1..L /\ DOMAIN t.stack = 1..(L + 1) BY <1>2, <1>7
        <5>2. \A i \in 1..L : s.stack[i].node = id => t.stack[i].idx = s.stack[i].idx
          BY <1>8, <3>1, Zenon
        <5> QED BY <1>8, <1>13, <3>3, <5>1, <5>2, Zenon
      <4> QED BY <1>17, <2>2, <4>1 DEF EdgeDone
    <3> QED BY <3>2, <3>3
  <2> QED BY <2>1, <2>2
<1>27. OneEdgeMore(ids, edges, s.stack, s.colour, t.stack, t.colour, node, n)
  <2>1. \A x \in ids, k \in Nat :
          EdgeDone(edges, t.stack, t.colour, x, k)
            <=> EdgeDone(edges, s.stack, s.colour, x, k) \/ (x = node /\ k = n)
    BY <1>26, Zenon
  <2> QED BY <1>2, <2>1, Zenon DEF OneEdgeMore
<1>28. EdgesDone(ids, edges, t.stack, t.colour)
         = EdgesDone(ids, edges, s.stack, s.colour) \cup {<<"edge", node, n>>}
  BY <1>27, EdgesOneMore
<1>29. NodesDone(ids, t.colour) = NodesDone(ids, s.colour)
  <2>1. {x \in ids : t.colour[x] = "black"} = {x \in ids : s.colour[x] = "black"} BY <1>17
  <2> QED BY <2>1 DEF NodesDone
<1>32. Advances(apps, ids, edges, s, t) BY <1>2, <1>25, <1>28, <1>29, <1>31, EdgeAdvances
<1> QED BY <1>22, <1>32

-----------------------------------------------------------------------------
(* The search: any step. *)

(* An edge is followed.                                                      *)
LEMMA VisitSound ==
  ASSUME NEW apps, NEW ids, NEW edges, IsGraph(apps, ids, edges), NEW s, Sound(apps, ids, edges, s),
         s.stack # <<>>, NEW node, NEW n, NEW target, node = Last(s.stack).node,
         n = Last(s.stack).idx + 1, Last(s.stack).idx # Len(edges[node]), target = edges[node][n]
  PROVE  Sound(apps, ids, edges, Visit(s, target)) /\ Advances(apps, ids, edges, s, Visit(s, target))
<1> DEFINE L == Len(s.stack)
           next == [s.stack EXCEPT ![L].idx = @ + 1]
           advanced == [s EXCEPT !.stack[Len(s.stack)].idx = @ + 1]
<1>1. next \in Seq([node : ids, idx : Nat]) /\ OneEdgeOn(s.stack, next, L, n) BY AdvancedStack
<1>2. TopKnown(ids, edges, s.stack, s.colour, L, node, Last(s.stack).idx) BY TopFrame
<1>3. Typed(apps, ids, s) BY DEF Sound
<1>4. /\ DOMAIN advanced = DOMAIN s /\ advanced.stack = next /\ advanced.root = s.root
      /\ advanced.colour = s.colour /\ advanced.post = s.post /\ advanced.cycles = s.cycles
  BY <1>3 DEF Typed
<1>5. target \in ids
  <2>1. n \in 1..Len(edges[node]) /\ edges[node] \in Seq(ids) BY <1>2 DEF TopKnown
  <2> QED BY <2>1
<1>6. s.colour[target] \in {"white", "gray", "black"} BY <1>3, <1>5 DEF Typed
<1>7. Visit(s, target) = IF s.colour[target] = "black" THEN advanced
        ELSE IF s.colour[target] = "gray"
             THEN [advanced EXCEPT !.cycles = @ \cup {CycleAt(s, target)}]
        ELSE Push(advanced, target)
  BY DEF Visit
<1>8. s.cycles # {} => Circle(ids, edges) BY DEF Sound
<1> HIDE DEF advanced, next
<1>9. CASE s.colour[target] = "black"
  <2>1. Visit(s, target) = advanced BY <1>7, <1>9
  <2> QED BY <1>1, <1>4, <1>8, <1>9, <2>1, FollowSound DEF Follows
<1>10. CASE s.colour[target] = "gray"
  <2> DEFINE t == [advanced EXCEPT !.cycles = @ \cup {CycleAt(s, target)}]
  <2>1. Visit(s, target) = t BY <1>7, <1>10
  <2>2. Circle(ids, edges) BY <1>10, GrayCircle
  <2>3. /\ DOMAIN t = DOMAIN s /\ t.stack = next /\ t.root = s.root /\ t.cycles # {}
        /\ t.colour = s.colour /\ t.post = s.post
    BY <1>3, <1>4 DEF Typed
  <2> HIDE DEF t
  <2> QED BY <1>1, <2>1, <2>2, <2>3, FollowSound DEF Follows
<1>11. CASE s.colour[target] = "white"
  <2> DEFINE t == Push(advanced, target)
  <2>1. Visit(s, target) = t BY <1>7, <1>11
  <2>2. /\ DOMAIN t = DOMAIN s /\ t.stack = Append(next, [node |-> target, idx |-> 0])
        /\ t.root = s.root /\ t.cycles = s.cycles
        /\ t.colour = [s.colour EXCEPT ![target] = "gray"] /\ t.post = s.post
    BY <1>3, <1>4 DEF Typed, Push
  <2> HIDE DEF t
  <2>3. Pushes(ids, edges, s, t, L, node, n, target, next) BY <1>1, <1>11, <2>2 DEF Pushes
  <2> QED BY <2>1, <2>3, PushSound
<1> QED BY <1>6, <1>9, <1>10, <1>11

Ended(apps, s) == s.stack = <<>> /\ s.root > Len(apps)

(* A step of the search keeps what is true of it and does one piece of work more. *)
LEMMA StepSound ==
  ASSUME NEW apps, IsAppList(apps), NEW s, Sound(apps, IdsOf(apps), Adjacency(apps), s)
  PROVE  /\ Ended(apps, s) => Step(s, apps) = s
         /\ Sound(apps, IdsOf(apps), Adjacency(apps), Step(s, apps))
         /\ ~Ended(apps, s) => Advances(apps, IdsOf(apps), Adjacency(apps), s, Step(s, apps))
<1> DEFINE ids == IdsOf(apps)
           edges == Adjacency(apps)
<1>1. IsGraph(apps, ids, edges) BY GraphOf
<1>2. s.root \in Nat /\ Len(apps) \in Nat BY <1>1 DEF Sound, Typed, IsGraph
<1>3. CASE Ended(apps, s)
  <2>1. Step(s, apps) = s BY <1>3 DEF Ended, Step
  <2> QED BY <1>3, <2>1
<1>4. CASE s.stack = <<>> /\ s.root <= Len(apps)
  <2>1. Step(s, apps) = NextRoot(s, apps) BY <1>2, <1>4 DEF Step
  <2> HIDE DEF ids, edges
  <2>2. CASE s.colour[apps[s.root].id] = "white"
    <3>1. Step(s, apps) = [Push(s, apps[s.root].id) EXCEPT !.root = @ + 1]
      BY <2>1, <2>2 DEF NextRoot
    <3>2. Sound(apps, ids, edges, s) BY DEF ids, edges
    <3> QED BY <1>1, <1>2, <1>4, <2>2, <3>1, <3>2, RootSound DEF Ended, ids, edges
  <2>3. CASE s.colour[apps[s.root].id] # "white"
    <3>1. Step(s, apps) = [s EXCEPT !.root = @ + 1] BY <2>1, <2>3 DEF NextRoot
    <3>2. Sound(apps, ids, edges, s) BY DEF ids, edges
    <3> QED BY <1>1, <1>2, <1>4, <2>3, <3>1, <3>2, SkipSound DEF Ended, ids, edges
  <2> QED BY <2>2, <2>3
<1>5. CASE s.stack # <<>>
  <2>1. Step(s, apps) = IF Last(s.stack).idx = Len(edges[Last(s.stack).node]) THEN Finish(s)
                        ELSE Visit(s, edges[Last(s.stack).node][Last(s.stack).idx + 1])
    BY <1>5 DEF Step
  <2>2. ~Ended(apps, s) BY <1>5 DEF Ended
  <2>3. Sound(apps, ids, edges, s) OBVIOUS
  <2> SUFFICES Sound(apps, ids, edges, Step(s, apps)) /\ Advances(apps, ids, edges, s, Step(s, apps))
    BY <2>2
  <2> HIDE DEF ids, edges
  <2>4. CASE Last(s.stack).idx = Len(edges[Last(s.stack).node])
    BY <1>1, <1>5, <2>1, <2>3, <2>4, FinishSound
  <2>5. CASE Last(s.stack).idx # Len(edges[Last(s.stack).node])
    BY <1>1, <1>5, <2>1, <2>3, <2>5, VisitSound
  <2> QED BY <2>4, <2>5
<1> QED BY <1>2, <1>3, <1>4, <1>5 DEF Ended

-----------------------------------------------------------------------------
(* The search ends: there is only so much work. *)

(* FS_Image of FiniteSetTheorems takes an operator; for a function: *)
LEMMA ImageFinite ==
  ASSUME NEW S, IsFiniteSet(S), NEW f, DOMAIN f = S
  PROVE  IsFiniteSet({f[x] : x \in S})
<1> DEFINE T == {f[x] : x \in S}
           g == [x \in S |-> f[x]]
<1>1. g \in [S -> T] /\ \A t \in T : \E s \in S : g[s] = t OBVIOUS
<1> HIDE DEF g, T
<1>2. g \in Surjection(S, T) BY <1>1 DEF Surjection
<1>3. IsFiniteSet(T) BY <1>2, FS_Surjection
<1> QED BY <1>3 DEF T

(* The work of a project is finite. *)
LEMMA WorkFinite ==
  ASSUME NEW apps, IsAppList(apps)
  PROVE  /\ IsFiniteSet(IdsOf(apps)) /\ IsFiniteSet(Work(apps))
         /\ AllWork(apps, IdsOf(apps), Adjacency(apps)) = Work(apps)
<1> DEFINE ids == IdsOf(apps)
           edges == Adjacency(apps)
           roots == {<<"root", i, 0>> : i \in DOMAIN apps}
           nodes == {<<"node", id, 0>> : id \in ids}
           of(id) == {<<"edge", id, k>> : k \in DOMAIN edges[id]}
           sets == {of(id) : id \in ids}
<1>1. Len(apps) \in Nat /\ DOMAIN apps = 1..Len(apps) BY DEF IsAppList
<1>2. IsFiniteSet(DOMAIN apps) BY <1>1, FS_Interval
<1>3. IsFiniteSet(ids)
  <2> DEFINE f == [i \in DOMAIN apps |-> apps[i].id]
  <2>1. ids = {f[i] : i \in DOMAIN apps} BY DEF IdsOf
  <2>2. DOMAIN f = DOMAIN apps OBVIOUS
  <2> HIDE DEF f
  <2> QED BY <1>2, <2>1, <2>2, ImageFinite
<1>4. IsFiniteSet(roots)
  <2> DEFINE f == [i \in DOMAIN apps |-> <<"root", i, 0>>]
  <2>1. roots = {f[i] : i \in DOMAIN apps} OBVIOUS
  <2>2. DOMAIN f = DOMAIN apps OBVIOUS
  <2> HIDE DEF f
  <2> QED BY <1>2, <2>1, <2>2, ImageFinite
<1>5. \A id \in ids : IsFiniteSet(of(id))
  <2> SUFFICES ASSUME NEW id \in ids PROVE IsFiniteSet(of(id)) OBVIOUS
  <2>1. edges[id] \in Seq(ids) BY GraphOf DEF IsGraph
  <2>2. Len(edges[id]) \in Nat /\ DOMAIN edges[id] = 1..Len(edges[id]) BY <2>1
  <2>3. IsFiniteSet(DOMAIN edges[id]) BY <2>2, FS_Interval
  <2> DEFINE f == [k \in DOMAIN edges[id] |-> <<"edge", id, k>>]
  <2>4. of(id) = {f[k] : k \in DOMAIN edges[id]} OBVIOUS
  <2>5. DOMAIN f = DOMAIN edges[id] OBVIOUS
  <2> HIDE DEF edges, f
  <2> QED BY <2>3, <2>4, <2>5, ImageFinite
<1>6. Work(apps) = roots \cup nodes \cup UNION sets BY DEF Work
<1>7. AllWork(apps, ids, edges) = Work(apps) BY DEF AllWork, Work
<1> HIDE DEF ids, edges
<1>8. IsFiniteSet(nodes)
  <2> DEFINE f == [id \in ids |-> <<"node", id, 0>>]
  <2>1. nodes = {f[id] : id \in ids} OBVIOUS
  <2>2. DOMAIN f = ids OBVIOUS
  <2> HIDE DEF f
  <2> QED BY <1>3, <2>1, <2>2, ImageFinite
<1> HIDE DEF of
<1>9. IsFiniteSet(sets)
  <2> DEFINE f == [id \in ids |-> of(id)]
  <2>1. sets = {f[id] : id \in ids} OBVIOUS
  <2>2. DOMAIN f = ids OBVIOUS
  <2> HIDE DEF f
  <2> QED BY <1>3, <2>1, <2>2, ImageFinite
<1>10. \A S \in sets : IsFiniteSet(S) BY <1>5
<1>11. IsFiniteSet(UNION sets)
  <2> HIDE DEF sets
  <2> QED BY <1>9, <1>10, FS_UNION
<1> HIDE DEF roots, nodes, sets
<1>12. IsFiniteSet(roots \cup nodes) BY <1>4, <1>8, FS_Union
<1>13. IsFiniteSet((roots \cup nodes) \cup UNION sets) BY <1>11, <1>12, FS_Union
<1> QED BY <1>3, <1>6, <1>7, <1>13 DEF ids, edges

(* The search comes to its end within its fuel.                              *)
Searched(apps, n, s) ==
  LET done == Done(IdsOf(apps), Adjacency(apps), s)
  IN  /\ Sound(apps, IdsOf(apps), Adjacency(apps), s)
      /\ done \subseteq Work(apps) /\ IsFiniteSet(done)
      /\ Ended(apps, s) \/ Cardinality(done) = n

(* A piece of work with every step. *)
LEMMA SearchedStep ==
  ASSUME NEW apps, IsAppList(apps), NEW n \in Nat, NEW s, Searched(apps, n, s)
  PROVE  Searched(apps, n + 1, Step(s, apps))
<1> DEFINE ids == IdsOf(apps)
           edges == Adjacency(apps)
           t == Step(s, apps)
<1>1. Sound(apps, ids, edges, s) BY DEF Searched
<1>2. CASE Ended(apps, s)
  <2>1. t = s BY <1>1, <1>2, StepSound
  <2> QED BY <1>2, <2>1 DEF Searched
<1>3. CASE ~Ended(apps, s)
  <2>1. Sound(apps, ids, edges, t) /\ Advances(apps, ids, edges, s, t) BY <1>1, <1>3, StepSound
  <2>2. AllWork(apps, ids, edges) = Work(apps) BY WorkFinite
  <2> DEFINE done == Done(ids, edges, s)
  <2>3. PICK w \in Work(apps) : w \notin done /\ Done(ids, edges, t) = done \cup {w}
    BY <2>1, <2>2 DEF Advances
  <2>4. done \subseteq Work(apps) /\ IsFiniteSet(done) /\ Cardinality(done) = n
    BY <1>3 DEF Searched
  <2> HIDE DEF t
  <2> SUFFICES /\ done \cup {w} \subseteq Work(apps) /\ IsFiniteSet(done \cup {w})
               /\ Cardinality(done \cup {w}) = n + 1
    BY <2>1, <2>3 DEF Searched, t
  <2> HIDE DEF done
  <2> QED BY <2>3, <2>4, FS_AddElement
<1> QED BY <1>2, <1>3

(* After Fuel steps there is nothing left to do. *)
LEMMA SearchEnds ==
  ASSUME NEW apps, IsAppList(apps)
  PROVE  /\ Sound(apps, IdsOf(apps), Adjacency(apps), Search(apps))
         /\ Ended(apps, Search(apps))
<1> DEFINE ids == IdsOf(apps)
           edges == Adjacency(apps)
           N == Fuel(apps)
           f == CHOOSE f : Ran(apps, N, f)
<1>1. N \in Nat BY WorkFinite, FS_CardinalityType DEF Fuel
<1>2. Ran(apps, N, f) BY <1>1, RanExists
<1>3. Search(apps) = f[N] BY DEF Search, Ran
<1>4. \A i \in 0..N : f[i] = IF i = 0 THEN Start(apps) ELSE Step(f[i - 1], apps)
  BY <1>2 DEF Ran
<1> HIDE DEF f
<1> DEFINE good == {n \in Nat : n <= N => Searched(apps, n, f[n])}
<1>5. 0 \in good
  <2>1. f[0] = Start(apps) BY <1>1, <1>4
  <2>2. Sound(apps, ids, edges, Start(apps)) /\ Done(ids, edges, Start(apps)) = {}
    BY GraphOf, StartSound
  <2>3. Searched(apps, 0, Start(apps)) BY <2>2, FS_EmptySet DEF Searched
  <2> QED BY <2>1, <2>3
<1>6. \A n \in Nat : n \in good => n + 1 \in good
  <2> SUFFICES ASSUME NEW n \in Nat, n \in good, n + 1 <= N PROVE Searched(apps, n + 1, f[n + 1])
    OBVIOUS
  <2>1. Searched(apps, n, f[n]) BY <1>1
  <2>2. f[n + 1] = Step(f[n], apps)
    <3>1. n + 1 \in 0..N /\ n + 1 # 0 /\ (n + 1) - 1 = n BY <1>1
    <3> QED BY <1>4, <3>1
  <2> HIDE DEF good
  <2> QED BY <2>1, <2>2, SearchedStep
<1> HIDE DEF good
<1>7. N \in good BY <1>1, <1>5, <1>6, EveryNumber
<1> DEFINE s == f[N]
           done == Done(ids, edges, s)
<1>8. Searched(apps, N, s) BY <1>1, <1>7 DEF good
<1> HIDE DEF s
<1>9. Sound(apps, ids, edges, s) BY <1>8 DEF Searched
<1>10. Ended(apps, s)
  <2> SUFFICES ASSUME ~Ended(apps, s) PROVE FALSE OBVIOUS
  <2>1. done \subseteq Work(apps) /\ IsFiniteSet(done) /\ Cardinality(done) = N
    BY <1>8 DEF Searched
  <2>2. IsFiniteSet(Work(apps)) /\ Cardinality(Work(apps)) = N BY WorkFinite DEF Fuel
  <2>3. PICK w \in Work(apps) : w \notin done
    BY <1>9, StepSound, WorkFinite DEF Advances
  <2> HIDE DEF done
  <2> QED BY <2>1, <2>2, <2>3, FS_Subset
<1> QED BY <1>3, <1>9, <1>10 DEF s

-----------------------------------------------------------------------------
(* What the loader takes from the search: an order, or the proof that there is none. *)

(* The whole graph is searched.                                              *)
LEMMA SearchResult ==
  ASSUME NEW apps, IsAppList(apps)
  PROVE  /\ Search(apps).post \in Seq(IdsOf(apps))
         /\ \A i, j \in DOMAIN Search(apps).post : Search(apps).post[i] = Search(apps).post[j] => i = j
         /\ \A id \in IdsOf(apps) : \E i \in DOMAIN Search(apps).post : Search(apps).post[i] = id
         /\ Ordered(Adjacency(apps), Search(apps).post, Search(apps).cycles)
         /\ Search(apps).cycles # {} => Circle(IdsOf(apps), Adjacency(apps))
<1> DEFINE ids == IdsOf(apps)
           edges == Adjacency(apps)
           s == Search(apps)
<1>1. IsGraph(apps, ids, edges) BY GraphOf
<1>2. Sound(apps, ids, edges, s) /\ Ended(apps, s) BY SearchEnds
<1> HIDE DEF ids, edges, s
<1>3. \A id \in ids : s.colour[id] = "black"
  <2> SUFFICES ASSUME NEW id \in ids PROVE s.colour[id] = "black" OBVIOUS
  <2>1. PICK k \in 1..Len(apps) : apps[k].id = id BY <1>1 DEF IsGraph
  <2>2. k \in 1..(s.root - 1)
    BY <1>1, <1>2 DEF Sound, Typed, IsGraph, Ended
  <2>3. s.colour[id] # "white" BY <1>2, <2>1, <2>2 DEF Sound, RootsTaken
  <2>4. s.colour[id] # "gray"
    <3>1. DOMAIN s.stack = {} BY <1>2 DEF Ended
    <3> QED BY <1>2, <3>1 DEF Sound, GrayOnStack
  <2> QED BY <1>2, <2>3, <2>4 DEF Sound, Typed
<1>4. /\ s.post \in Seq(ids) /\ BlackInPost(ids, s.post, s.colour) /\ Ordered(edges, s.post, s.cycles)
      /\ s.cycles # {} => Circle(ids, edges)
  BY <1>2 DEF Sound, Typed
<1> QED BY <1>3, <1>4 DEF BlackInPost, ids, edges, s

(* Topological: every app once, after all it depends on.                     *)
Placed(apps, order, i) ==
  \A a \in Range(apps) : a.id = order[i] =>
    \A d \in Range(a.deps) : \E j \in 1..(i - 1) : order[j] = d

Topological(apps, order) ==
  /\ order \in Seq(IdsOf(apps))
  /\ \A i, j \in DOMAIN order : order[i] = order[j] => i = j
  /\ \A id \in IdsOf(apps) : \E i \in DOMAIN order : order[i] = id
  /\ \A i \in DOMAIN order : Placed(apps, order, i)

(* AdjacencyIs, by the app instead of its place. *)
LEMMA EdgesOf ==
  ASSUME NEW apps, IsAppList(apps), NEW a \in Range(apps)
  PROVE  /\ a.id \in IdsOf(apps)
         /\ Range(Adjacency(apps)[a.id]) = Range(a.deps) \cap (IdsOf(apps) \ {a.id})
<1>1. PICK i \in DOMAIN apps : apps[i] = a BY DEF Range
<1> QED BY <1>1, AdjacencyIs

(* An accepted graph is in the order of its edges. *)
LEMMA OrderTopological ==
  ASSUME NEW apps, IsAppList(apps), BuildDependsOnGraph(apps).errors = {}
  PROVE  Topological(apps, BuildDependsOnGraph(apps).order)
<1> DEFINE end == Search(apps)
           order == end.post
           edges == Adjacency(apps)
<1>1. EdgeErrors(apps) = {} /\ end.cycles = {} BY DEF BuildDependsOnGraph
<1>2. BuildDependsOnGraph(apps).order = order BY DEF BuildDependsOnGraph
<1>3. \A a \in Range(apps) : a.id \notin Range(a.deps) /\ Range(a.deps) \subseteq IdsOf(apps)
  BY <1>1 DEF EdgeErrors
<1>4. order \in Seq(IdsOf(apps)) /\ Ordered(edges, order, {})
  <2>1. order \in Seq(IdsOf(apps)) /\ Ordered(edges, order, end.cycles) BY SearchResult, Zenon
  <2> HIDE DEF order, edges, end
  <2> QED BY <1>1, <2>1
<1>5. ASSUME NEW i \in DOMAIN order PROVE Placed(apps, order, i)
  <2> SUFFICES ASSUME NEW a \in Range(apps), a.id = order[i], NEW d \in Range(a.deps)
               PROVE  \E j \in 1..(i - 1) : order[j] = d
    BY DEF Placed
  <2>1. d \in Range(edges[order[i]])
    <3>1. d \in IdsOf(apps) /\ d # a.id BY <1>3
    <3>2. Range(edges[a.id]) = Range(a.deps) \cap (IdsOf(apps) \ {a.id}) BY EdgesOf
    <3> HIDE DEF order, edges
    <3> QED BY <3>1, <3>2
  <2>2. PICK k \in DOMAIN edges[order[i]] : edges[order[i]][k] = d BY <2>1 DEF Range
  <2> HIDE DEF order, edges
  <2> QED BY <1>4, <2>2 DEF Ordered
<1> QED BY <1>2, <1>4, <1>5, SearchResult DEF Topological

(* What is in a closed set does not lead out of it.                          *)
LEMMA ClosedSet ==
  ASSUME NEW apps, NEW set, NEW id \in IdsOf(apps), NEW other,
         Direct(apps, set \cup {id}) \subseteq set, other \notin set
  PROVE  ~DependsOn(apps, id, other)
<1> DEFINE inner == set \cap Direct(apps, IdsOf(apps))
<1>1. Direct(apps, inner \cup {id}) \subseteq Direct(apps, set \cup {id}) BY DEF Direct
<1>2. Direct(apps, inner \cup {id}) \subseteq Direct(apps, IdsOf(apps))
  <2>1. \A b \in Range(apps) : b.id \in IdsOf(apps) BY DEF Range, IdsOf
  <2> QED BY <2>1 DEF Direct
<1>3. inner \in SUBSET Direct(apps, IdsOf(apps)) /\ Direct(apps, inner \cup {id}) \subseteq inner
  BY <1>1, <1>2
<1> QED BY <1>3 DEF DependsOn

(* No app of a topological order depends on itself or on a later one. *)
LEMMA TopologicalIndependent ==
  ASSUME NEW apps, NEW order, Topological(apps, order), NEW i \in DOMAIN order, NEW j \in DOMAIN order,
         i <= j
  PROVE  ~DependsOn(apps, order[i], order[j])
<1> DEFINE set == {order[k] : k \in 1..(i - 1)}
<1>1. Len(order) \in Nat /\ DOMAIN order = 1..Len(order) /\ order[i] \in IdsOf(apps)
  BY DEF Topological
<1>2. order[j] \notin set
  <2> SUFFICES ASSUME NEW k \in 1..(i - 1), order[k] = order[j] PROVE FALSE OBVIOUS
  <2>1. k \in DOMAIN order /\ k < j BY <1>1
  <2> QED BY <1>1, <2>1 DEF Topological
<1>3. Direct(apps, set \cup {order[i]}) \subseteq set
  <2> SUFFICES ASSUME NEW a \in Range(apps), a.id \in set \cup {order[i]}, NEW d \in Range(a.deps)
               PROVE  d \in set
    BY DEF Direct
  <2>1. PICK k \in 1..i : order[k] = a.id BY <1>1
  <2>2. k \in DOMAIN order BY <1>1
  <2>3. PICK m \in 1..(k - 1) : order[m] = d BY <2>1, <2>2, ZenonT(60) DEF Topological, Placed
  <2>4. m \in 1..(i - 1) BY <1>1
  <2> QED BY <2>3, <2>4
<1> HIDE DEF set
<1> QED BY <1>1, <1>2, <1>3, ClosedSet

(* What can be ordered has no cycle and no unknown app. *)
LEMMA TopologicalAcceptable ==
  ASSUME NEW apps, IsAppList(apps), NEW order, Topological(apps, order)
  PROVE  Acceptable(apps)
<1> SUFFICES ASSUME NEW a \in Range(apps)
             PROVE  Range(a.deps) \subseteq IdsOf(apps) /\ ~DependsOn(apps, a.id, a.id)
  BY DEF Acceptable
<1>1. a.id \in IdsOf(apps) BY EdgesOf
<1>2. PICK i \in DOMAIN order : order[i] = a.id BY <1>1 DEF Topological
<1>3. i <= i BY DEF Topological
<1>4. ~DependsOn(apps, a.id, a.id) BY <1>2, <1>3, TopologicalIndependent
<1>5. Range(a.deps) \subseteq IdsOf(apps)
  <2> SUFFICES ASSUME NEW d \in Range(a.deps) PROVE d \in IdsOf(apps) OBVIOUS
  <2>1. PICK j \in 1..(i - 1) : order[j] = d BY <1>2, SMTT(40) DEF Topological, Placed
  <2>2. j \in DOMAIN order /\ order \in Seq(IdsOf(apps)) BY DEF Topological
  <2> QED BY <2>1, <2>2
<1> QED BY <1>4, <1>5

(* What is refused could not be ordered.                                     *)
LEMMA CircleRefuted ==
  ASSUME NEW apps, IsAppList(apps), Circle(IdsOf(apps), Adjacency(apps))
  PROVE  ~Acceptable(apps)
<1> DEFINE ids == IdsOf(apps)
           edges == Adjacency(apps)
<1>1. \A a \in Range(apps) : a.id \in ids /\ Range(edges[a.id]) \subseteq Range(a.deps) BY EdgesOf
<1>2. \A id \in ids : \E a \in Range(apps) : a.id = id BY DEF Range, IdsOf
<1>3. Circle(ids, edges) OBVIOUS
<1> HIDE DEF ids, edges
<1>4. PICK n \in Nat \ {0} : \E c \in [1..n -> ids] :
        /\ \A i \in 1..n : i < n => Leads(edges, c[i], c[i + 1])
        /\ Leads(edges, c[n], c[1])
  BY <1>3 DEF Circle
<1>5. PICK c \in [1..n -> ids] :
        /\ \A i \in 1..n : i < n => Leads(edges, c[i], c[i + 1])
        /\ Leads(edges, c[n], c[1])
  BY <1>4
<1>6. c[1] \in ids /\ 1 \in 1..n OBVIOUS
<1>7. \A set, y : \A x \in ids : x \in set /\ Leads(edges, x, y) => y \in Direct(apps, set)
  <2> SUFFICES ASSUME NEW set, NEW y, NEW x \in ids, x \in set, Leads(edges, x, y)
               PROVE  y \in Direct(apps, set) OBVIOUS
  <2>1. PICK a \in Range(apps) : a.id = x BY <1>2
  <2>2. y \in Range(edges[x]) BY DEF Leads, Range
  <2> QED BY <1>1, <2>1, <2>2 DEF Direct
<1>8. DependsOn(apps, c[1], c[1])
  <2> SUFFICES ASSUME NEW set, Direct(apps, set \cup {c[1]}) \subseteq set PROVE c[1] \in set
    BY DEF DependsOn
  <2> DEFINE good == {m \in Nat : m + 1 <= n => c[m + 1] \in set \cup {c[1]}}
  <2>1. 0 \in good OBVIOUS
  <2>2. \A m \in Nat : m \in good => m + 1 \in good
    <3> SUFFICES ASSUME NEW m \in Nat, m \in good, (m + 1) + 1 <= n
                 PROVE  c[(m + 1) + 1] \in set OBVIOUS
    <3>1. m + 1 \in 1..n /\ m + 1 < n OBVIOUS
    <3>2. c[m + 1] \in ids /\ c[m + 1] \in set \cup {c[1]} BY <3>1
    <3>3. Leads(edges, c[m + 1], c[(m + 1) + 1]) BY <1>5, <3>1
    <3> HIDE DEF good
    <3> QED BY <1>7, <3>2, <3>3
  <2> HIDE DEF good
  <2>3. n - 1 \in good BY <2>1, <2>2, EveryNumber
  <2>4. c[n] \in set \cup {c[1]} /\ c[n] \in ids BY <2>3 DEF good
  <2> QED BY <1>5, <1>7, <2>4
<1>9. PICK a \in Range(apps) : a.id = c[1] BY <1>2, <1>6
<1> QED BY <1>8, <1>9 DEF Acceptable

(* Every error of the graph is one: it could not be ordered. *)
LEMMA RefusedRightly ==
  ASSUME NEW apps, IsAppList(apps), BuildDependsOnGraph(apps).errors # {}
  PROVE  ~Acceptable(apps)
<1>1. CASE Search(apps).cycles # {} BY <1>1, CircleRefuted, SearchResult
<1>2. CASE EdgeErrors(apps) # {}
  <2>1. PICK a \in Range(apps) : a.id \in Range(a.deps) \/ Range(a.deps) \ IdsOf(apps) # {}
    BY <1>2 DEF EdgeErrors
  <2>2. CASE a.id \in Range(a.deps)
    <3>1. \A set : a.id \in Direct(apps, set \cup {a.id}) BY <2>2 DEF Direct
    <3>2. DependsOn(apps, a.id, a.id) BY <3>1 DEF DependsOn
    <3> QED BY <3>2 DEF Acceptable
  <2>3. CASE Range(a.deps) \ IdsOf(apps) # {} BY <2>3 DEF Acceptable
  <2> QED BY <2>1, <2>2, <2>3
<1>3. Search(apps).cycles # {} \/ EdgeErrors(apps) # {}
  <2> DEFINE cyclic == {<<"PML_DEPENDS_CYCLE", c>> : c \in Search(apps).cycles}
  <2>1. BuildDependsOnGraph(apps).errors = EdgeErrors(apps) \cup cyclic BY DEF BuildDependsOnGraph
  <2>2. Search(apps).cycles = {} => cyclic = {} OBVIOUS
  <2> HIDE DEF cyclic
  <2> QED BY <2>1, <2>2
<1> QED BY <1>1, <1>2, <1>3

(* The search of the loader decides the graph: it reports an unknown app, an   *)
(* app that names itself or a cycle if and only if there is one                *)
(* (depends-on.ts, buildDependsOnGraph).                                       *)
THEOREM GraphDecided ==
  ASSUME NEW apps, IsAppList(apps)
  PROVE  BuildDependsOnGraph(apps).errors = {} <=> Acceptable(apps)
<1>1. CASE BuildDependsOnGraph(apps).errors = {}
  BY <1>1, OrderTopological, TopologicalAcceptable
<1>2. CASE BuildDependsOnGraph(apps).errors # {}
  BY <1>2, RefusedRightly
<1> QED BY <1>1, <1>2

-----------------------------------------------------------------------------
(* The order of materialisation (DependsOn.DeterministicOrder). *)

Took(apps, n, f) == f = [i \in 0..n |-> IF i = 0 THEN <<>> ELSE TakeNext(apps, f[i - 1])]

(* The recursion in DeterministicOrder. *)
LEMMA TookExists ==
  ASSUME NEW apps, NEW n \in Nat
  PROVE  \E f : Took(apps, n, f)
<1> DEFINE good == {m \in Nat : \E f : Took(apps, m, f)}
<1>1. 0 \in good
  <2> DEFINE f == [i \in 0..0 |-> <<>>]
  <2>1. f = [i \in 0..0 |-> IF i = 0 THEN <<>> ELSE TakeNext(apps, f[i - 1])] OBVIOUS
  <2>2. Took(apps, 0, f) BY <2>1 DEF Took
  <2> QED BY <2>2
<1>2. \A m \in Nat : m \in good => m + 1 \in good
  <2> SUFFICES ASSUME NEW m \in Nat, NEW f, Took(apps, m, f)
               PROVE  \E g : Took(apps, m + 1, g) OBVIOUS
  <2> DEFINE g == [i \in 0..(m + 1) |-> IF i = m + 1 THEN TakeNext(apps, f[m]) ELSE f[i]]
  <2>1. \A i \in 0..m : g[i] = f[i] OBVIOUS
  <2>2. \A i \in 0..m : f[i] = IF i = 0 THEN <<>> ELSE TakeNext(apps, f[i - 1]) BY DEF Took
  <2>3. g[m + 1] = TakeNext(apps, f[m]) OBVIOUS
  <2>4. DOMAIN g = 0..(m + 1) /\ g = [i \in 0..(m + 1) |-> g[i]] OBVIOUS
  <2> HIDE DEF g
  <2>5. ASSUME NEW i \in 0..(m + 1)
        PROVE  g[i] = IF i = 0 THEN <<>> ELSE TakeNext(apps, g[i - 1])
    <3>1. CASE i = m + 1
      <4>1. i - 1 = m /\ g[i - 1] = f[m] /\ i # 0 BY <2>1, <3>1
      <4> QED BY <2>3, <3>1, <4>1
    <3>2. CASE i # m + 1
      <4>1. i \in 0..m BY <3>2
      <4>2. i # 0 => i - 1 \in 0..m BY <4>1
      <4> QED BY <2>1, <2>2, <4>1, <4>2
    <3> QED BY <3>1, <3>2
  <2>6. Took(apps, m + 1, g) BY <2>4, <2>5 DEF Took
  <2> QED BY <2>6
<1> HIDE DEF good
<1>3. n \in good BY <1>1, <1>2, EveryNumber
<1> QED BY <1>3 DEF good

(* A part of the order.                                                      *)
Begun(apps, t) ==
  /\ t \in Seq(IdsOf(apps))
  /\ \A i, j \in DOMAIN t : t[i] = t[j] => i = j
  /\ \A i \in DOMAIN t : Placed(apps, t, i)

(* A sequence without repetitions is as long as it has elements. *)
LEMMA RangeCounted ==
  ASSUME NEW S, NEW t \in Seq(S), \A i, j \in DOMAIN t : t[i] = t[j] => i = j
  PROVE  IsFiniteSet(Range(t)) /\ Cardinality(Range(t)) = Len(t)
<1> DEFINE T == Range(t)
           N == Len(t)
<1>1. N \in Nat /\ DOMAIN t = 1..N /\ t = [i \in 1..N |-> t[i]] OBVIOUS
<1>2. T = {t[i] : i \in 1..N} BY <1>1 DEF Range
<1> HIDE DEF T, N
<1>3. t \in [1..N -> T] BY <1>1, <1>2
<1>4. t \in Surjection(1..N, T) BY <1>2, <1>3 DEF Surjection
<1>5. t \in Injection(1..N, T) BY <1>1, <1>3 DEF Injection, IsInjective
<1>6. IsFiniteSet(1..N) /\ Cardinality(1..N) = N BY <1>1, FS_Interval
<1> QED BY <1>4, <1>5, <1>6, FS_Surjection DEF T, N

(* As long as an app is left, one is ready.                                  *)
LEMMA SomeReady ==
  ASSUME NEW apps, IsAppList(apps), NEW order, Topological(apps, order), NEW done,
         NEW left \in IdsOf(apps), left \notin done
  PROVE  Ready(apps, done) # {}
<1>1. order \in Seq(IdsOf(apps)) /\ Len(order) \in Nat /\ DOMAIN order = 1..Len(order)
  BY DEF Topological
<1> DEFINE waiting == {i \in DOMAIN order : order[i] \notin done}
<1>2. waiting # {} BY DEF Topological
<1>3. PICK m \in waiting : \A i \in waiting : ~(<<i, m>> \in OpToRel(<, Nat))
  <2> HIDE DEF waiting
  <2>1. waiting \in SUBSET Nat BY <1>1 DEF waiting
  <2> QED BY <1>2, <2>1, NatLessThanWellFounded, WFMin
<1>4. m \in Nat /\ m \in DOMAIN order /\ order[m] \in IdsOf(apps) \ done BY <1>1
<1>5. \A j \in 1..(m - 1) : order[j] \in done
  <2> SUFFICES ASSUME NEW j \in 1..(m - 1), order[j] \notin done PROVE FALSE OBVIOUS
  <2>1. j \in waiting /\ j \in Nat /\ j < m BY <1>1, <1>4
  <2>2. <<j, m>> \in OpToRel(<, Nat) BY <1>4, <2>1 DEF OpToRel
  <2> QED BY <1>3, <2>1, <2>2
<1>6. PICK a \in Range(apps) : a.id = order[m] BY <1>4 DEF Range, IdsOf
<1>7. Range(a.deps) \subseteq done
  <2> SUFFICES ASSUME NEW d \in Range(a.deps) PROVE d \in done OBVIOUS
  <2>1. Placed(apps, order, m) BY <1>4 DEF Topological
  <2>2. PICK j \in 1..(m - 1) : order[j] = d BY <1>6, <2>1 DEF Placed
  <2> QED BY <1>5, <2>2
<1>8. Range(Adjacency(apps)[order[m]]) \subseteq Range(a.deps) BY <1>6, EdgesOf
<1>9. order[m] \in Ready(apps, done) BY <1>4, <1>7, <1>8 DEF Ready
<1> QED BY <1>9

(* The first of some apps is one of them. *)
LEMMA FirstIn ==
  ASSUME NEW S, Alphabet \in Seq(S), NEW ids, ids # {}, ids \subseteq Range(Alphabet)
  PROVE  First(ids) \in ids
<1> DEFINE t == Only(Alphabet, ids)
<1>1. t \in Seq(S) /\ Range(t) = Range(Alphabet) \cap ids BY OnlyIs
<1> HIDE DEF t
<1>2. Range(t) = ids BY <1>1
<1>3. DOMAIN t = 1..Len(t) /\ Len(t) \in Nat BY <1>1
<1>4. 1 \in DOMAIN t BY <1>2, <1>3 DEF Range
<1>5. t[1] \in ids BY <1>2, <1>4 DEF Range
<1> QED BY <1>5 DEF First, t

(* One app more is in the order, after all it depends on. *)
LEMMA TakeNextBegun ==
  ASSUME NEW apps, IsAppList(apps), NEW S, Alphabet \in Seq(S),
         NEW order, Topological(apps, order), NEW t, Begun(apps, t),
         Len(t) < Cardinality(IdsOf(apps))
  PROVE  Begun(apps, TakeNext(apps, t)) /\ Len(TakeNext(apps, t)) = Len(t) + 1
<1> DEFINE ids == IdsOf(apps)
           done == Range(t)
           ready == Ready(apps, done)
           x == First(ready)
           u == Append(t, x)
<1>1. t \in Seq(ids) /\ (\A i, j \in DOMAIN t : t[i] = t[j] => i = j) BY DEF Begun
<1>2. \A i \in DOMAIN t : Placed(apps, t, i) BY DEF Begun
<1>3. IsFiniteSet(done) /\ Cardinality(done) = Len(t) BY <1>1, RangeCounted
<1>4. done \subseteq ids BY <1>1 DEF Range
<1>5. PICK left \in ids : left \notin done
  <2> HIDE DEF done, ids
  <2>1. done # ids BY <1>1, <1>3 DEF ids
  <2> QED BY <1>4, <2>1
<1>6. ready # {} BY <1>5, SomeReady
<1>7. ready \subseteq ids \ done BY DEF Ready
<1>8. ids \subseteq Range(Alphabet) BY DEF IsAppList, IdsOf, Range
<1>9. x \in ready BY <1>6, <1>7, <1>8, FirstIn
<1>10. TakeNext(apps, t) = u BY <1>6 DEF TakeNext
<1>11. x \in ids /\ x \notin done /\ Range(Adjacency(apps)[x]) \subseteq done BY <1>7, <1>9 DEF Ready
<1>12. Acceptable(apps) BY TopologicalAcceptable
<1>13. \A a \in Range(apps) : a.id = x => Range(a.deps) \subseteq done
  <2> SUFFICES ASSUME NEW a \in Range(apps), a.id = x, NEW d \in Range(a.deps) PROVE d \in done
    OBVIOUS
  <2>1. d \in ids BY <1>12 DEF Acceptable
  <2>2. d # a.id
    <3> SUFFICES ASSUME d = a.id PROVE FALSE OBVIOUS
    <3>1. \A set : a.id \in Direct(apps, set \cup {a.id}) BY DEF Direct
    <3>2. DependsOn(apps, a.id, a.id) BY <3>1 DEF DependsOn
    <3> QED BY <1>12, <3>2 DEF Acceptable
  <2>3. d \in Range(Adjacency(apps)[x]) BY <2>1, <2>2, EdgesOf
  <2> QED BY <1>11, <2>3
<1> HIDE DEF ready, x, ids
<1>14. /\ u \in Seq(ids) /\ Len(u) = Len(t) + 1 /\ DOMAIN u = 1..(Len(t) + 1) /\ Len(t) \in Nat
       /\ DOMAIN t = 1..Len(t) /\ u[Len(t) + 1] = x /\ \A i \in DOMAIN t : u[i] = t[i]
  BY <1>1, <1>11
<1> HIDE DEF u
<1>15. \A i \in DOMAIN t : t[i] # x BY <1>11 DEF Range
<1>16. \A i \in DOMAIN u : i \in DOMAIN t \/ i = Len(t) + 1 BY <1>14
<1>17. ASSUME NEW i \in DOMAIN u, NEW j \in DOMAIN u, u[i] = u[j] PROVE i = j
  BY <1>1, <1>14, <1>15, <1>16, <1>17
<1>18. ASSUME NEW i \in DOMAIN u PROVE Placed(apps, u, i)
  <2> SUFFICES ASSUME NEW a \in Range(apps), a.id = u[i], NEW d \in Range(a.deps)
               PROVE  \E j \in 1..(i - 1) : u[j] = d
    BY DEF Placed
  <2>1. CASE i \in DOMAIN t
    <3>1. PICK j \in 1..(i - 1) : t[j] = d BY <1>2, <1>14, <2>1 DEF Placed
    <3>2. j \in DOMAIN t BY <1>14, <2>1
    <3> QED BY <1>14, <3>1, <3>2
  <2>2. CASE i = Len(t) + 1
    <3>1. d \in done BY <1>13, <1>14, <2>2
    <3>2. PICK j \in DOMAIN t : t[j] = d BY <3>1 DEF Range
    <3>3. j \in 1..(i - 1) BY <1>14, <2>2
    <3> QED BY <1>14, <3>2, <3>3
  <2> QED BY <1>16, <2>1, <2>2
<1>19. Begun(apps, u) BY <1>14, <1>17, <1>18 DEF Begun, ids
<1> QED BY <1>10, <1>14, <1>19

(* What can be ordered is ordered: every app, after all it depends on. *)
LEMMA DeterministicTopological ==
  ASSUME NEW apps, IsAppList(apps), NEW S, Alphabet \in Seq(S), NEW order, Topological(apps, order)
  PROVE  Topological(apps, DeterministicOrder(apps))
<1> DEFINE ids == IdsOf(apps)
           N == Cardinality(ids)
           f == CHOOSE f : Took(apps, N, f)
<1>1. IsFiniteSet(ids) /\ N \in Nat BY WorkFinite, FS_CardinalityType
<1>2. Took(apps, N, f) BY <1>1, TookExists
<1>3. DeterministicOrder(apps) = f[N] BY DEF DeterministicOrder, Took
<1>4. \A i \in 0..N : f[i] = IF i = 0 THEN <<>> ELSE TakeNext(apps, f[i - 1]) BY <1>2 DEF Took
<1> HIDE DEF f, N
<1> DEFINE good == {n \in Nat : n <= N => Begun(apps, f[n]) /\ Len(f[n]) = n}
<1>5. 0 \in good
  <2>1. f[0] = <<>> BY <1>1, <1>4
  <2>2. Begun(apps, <<>>) BY DEF Begun
  <2> QED BY <2>1, <2>2
<1>6. \A n \in Nat : n \in good => n + 1 \in good
  <2> SUFFICES ASSUME NEW n \in Nat, n \in good, n + 1 <= N
               PROVE  Begun(apps, f[n + 1]) /\ Len(f[n + 1]) = n + 1
    OBVIOUS
  <2>1. Begun(apps, f[n]) /\ Len(f[n]) = n /\ n < N BY <1>1
  <2>2. f[n + 1] = TakeNext(apps, f[n])
    <3>1. n + 1 \in 0..N /\ n + 1 # 0 /\ (n + 1) - 1 = n BY <1>1
    <3> QED BY <1>4, <3>1
  <2> HIDE DEF good
  <2> QED BY <2>1, <2>2, TakeNextBegun DEF N
<1> HIDE DEF good
<1>7. N \in good BY <1>1, <1>5, <1>6, EveryNumber
<1> DEFINE t == f[N]
<1>8. Begun(apps, t) /\ Len(t) = N BY <1>1, <1>7 DEF good
<1> HIDE DEF t
<1>9. t \in Seq(ids) /\ (\A i, j \in DOMAIN t : t[i] = t[j] => i = j) BY <1>8 DEF Begun
<1>10. Range(t) = ids
  <2>1. IsFiniteSet(Range(t)) /\ Cardinality(Range(t)) = N BY <1>8, <1>9, RangeCounted
  <2>2. Range(t) \subseteq ids BY <1>9 DEF Range
  <2> HIDE DEF ids
  <2> QED BY <1>1, <2>1, <2>2, FS_Subset DEF N
<1>11. \A id \in ids : \E i \in DOMAIN t : t[i] = id BY <1>10 DEF Range
<1>12. Topological(apps, t) BY <1>8, <1>9, <1>11 DEF Begun, Topological
<1> QED BY <1>3, <1>12 DEF t

(* Every app of an acceptable project is materialized once, after all it       *)
(* depends on, whatever the order of the names (select.ts, deterministicOrder).*)
THEOREM MaterializedInOrder ==
  ASSUME NEW apps, IsAppList(apps), Acceptable(apps), NEW S, Alphabet \in Seq(S)
  PROVE  Topological(apps, DeterministicOrder(apps))
BY GraphDecided, OrderTopological, DeterministicTopological

-----------------------------------------------------------------------------
(* Who else reports errors does not report those of the graph. *)

(* The codes of the dependency graph come from its validation alone.          *)
GraphCodes == {"PML_DEPENDS_SELF", "PML_DEPENDS_UNKNOWN", "PML_DEPENDS_CYCLE"}
Foreign(errors) == errors \cap GraphCodes = {}

(* builders.yaml and what is asked of it. *)
LEMMA RegistryForeign ==
  /\ \A doc : Foreign(LoadRegistry(doc).errors)
  /\ \A model, records : Foreign(ValidateBuilders(model, records))
<1>1. \A doc : Foreign(ParseBuildersYaml(doc)) BY DEF Foreign, GraphCodes, ParseBuildersYaml
<1>2. \A package : Foreign(LoadPlugin(package))
  <2> SUFFICES ASSUME NEW package PROVE Foreign(LoadPlugin(package)) OBVIOUS
  <2>1. DetectPluginKind(package) \in {{"BRG_NOT_A_PLUGIN"}, {}}
    BY DEF DetectPluginKind
  <2>2. LoadPlugin(package) \in {{"BRG_PACKAGE_NOT_FOUND"}, {"BRG_LOAD_ERROR"}, {"BRG_NOT_A_PLUGIN"}, {}}
    BY <2>1 DEF LoadPlugin
  <2> QED BY <2>2 DEF Foreign, GraphCodes
<1>3. \A doc : Foreign(LoadRegistry(doc).errors)
  <2> SUFFICES ASSUME NEW doc PROVE Foreign(LoadRegistry(doc).errors) OBVIOUS
  <2> DEFINE plugins == {LoadPlugin(PackageOf(doc, e)) : e \in Entries(doc)}
             errors == IF ParseBuildersYaml(doc) # {} THEN ParseBuildersYaml(doc) ELSE UNION plugins
  <2>1. Foreign(UNION plugins) BY <1>2 DEF Foreign
  <2>2. Foreign(errors) BY <1>1, <2>1
  <2>3. LoadRegistry(doc).errors \in {{}, errors} BY DEF LoadRegistry
  <2> HIDE DEF errors
  <2> QED BY <2>2, <2>3 DEF Foreign
<1>4. \A model, records : Foreign(ValidateBuilders(model, records))
  BY DEF Foreign, GraphCodes, ValidateBuilders
<1> QED BY <1>3, <1>4

(* The rules and the files of the resources. *)
LEMMA RulesForeign ==
  /\ \A resources, rules : Foreign(ApplyRules(resources, rules).errors)
  /\ \A products, rules : Foreign(Grouped(products, rules).errors)
<1>1. \A resources, rules : Foreign(ApplyRules(resources, rules).errors)
  <2> SUFFICES ASSUME NEW resources, NEW rules PROVE Foreign(ApplyRules(resources, rules).errors)
    OBVIOUS
  <2>1. ApplyRules(resources, rules).errors = {e[1] : e \in RuleErrors(resources, rules)}
    BY DEF ApplyRules
  <2>2. \A e \in RuleErrors(resources, rules) :
          e[1] \in {"EXT_INVALID", "EXT_DUPLICATE_TARGET", "EXT_UNRESOLVED_TARGET"}
    BY DEF RuleErrors
  <2> QED BY <2>1, <2>2 DEF Foreign, GraphCodes
<1>2. \A products, rules : Foreign(Grouped(products, rules).errors)
  BY <1>1 DEF Grouped, Foreign
<1> QED BY <1>1, <1>2

(* outputs.yaml and the outputs of the materializers. *)
LEMMA OutputsForeign ==
  \A resources, entries, auto : Foreign(BuildOutputs(resources, entries, auto).errors)
<1> SUFFICES ASSUME NEW resources, NEW entries, NEW auto
             PROVE  Foreign(BuildOutputs(resources, entries, auto).errors)
  OBVIOUS
<1>1. BuildOutputs(resources, entries, auto).errors = UserErrors(resources, entries) \cup AutoErrors(entries, auto)
  BY DEF BuildOutputs
<1>2. \A ref : ReferenceError(resources, ref) \in {"OUT_INVALID_VALUE", "OUT_UNRESOLVED_IDL", "none"}
  BY DEF ReferenceError
<1>3. Foreign(UserErrors(resources, entries)) BY <1>2 DEF UserErrors, Foreign, GraphCodes
<1>4. Foreign(AutoErrors(entries, auto)) BY DEF AutoErrors, Foreign, GraphCodes
<1> QED BY <1>1, <1>3, <1>4 DEF Foreign

(* The history of moves.                                                     *)
Seen(moves, n, f) ==
  f = [i \in 0..n |-> IF i = 0 THEN NoEdges ELSE AddEntry(f[i - 1], moves[i])]

(* The recursion in ValidateMoves. *)
LEMMA SeenExists ==
  ASSUME NEW moves, NEW n \in Nat
  PROVE  \E f : Seen(moves, n, f)
<1> DEFINE good == {m \in Nat : \E f : Seen(moves, m, f)}
<1>1. 0 \in good
  <2> DEFINE f == [i \in 0..0 |-> NoEdges]
  <2>1. f = [i \in 0..0 |-> IF i = 0 THEN NoEdges ELSE AddEntry(f[i - 1], moves[i])] OBVIOUS
  <2>2. Seen(moves, 0, f) BY <2>1 DEF Seen
  <2> QED BY <2>2
<1>2. \A m \in Nat : m \in good => m + 1 \in good
  <2> SUFFICES ASSUME NEW m \in Nat, NEW f, Seen(moves, m, f)
               PROVE  \E g : Seen(moves, m + 1, g) OBVIOUS
  <2> DEFINE g == [i \in 0..(m + 1) |-> IF i = m + 1 THEN AddEntry(f[m], moves[m + 1]) ELSE f[i]]
  <2>1. \A i \in 0..m : g[i] = f[i] OBVIOUS
  <2>2. \A i \in 0..m : f[i] = IF i = 0 THEN NoEdges ELSE AddEntry(f[i - 1], moves[i]) BY DEF Seen
  <2>3. g[m + 1] = AddEntry(f[m], moves[m + 1]) OBVIOUS
  <2>4. DOMAIN g = 0..(m + 1) /\ g = [i \in 0..(m + 1) |-> g[i]] OBVIOUS
  <2> HIDE DEF g
  <2>5. ASSUME NEW i \in 0..(m + 1)
        PROVE  g[i] = IF i = 0 THEN NoEdges ELSE AddEntry(g[i - 1], moves[i])
    <3>1. CASE i = m + 1
      <4>1. i - 1 = m /\ g[i - 1] = f[m] /\ i # 0 BY <2>1, <3>1
      <4> QED BY <2>3, <3>1, <4>1
    <3>2. CASE i # m + 1
      <4>1. i \in 0..m BY <3>2
      <4>2. i # 0 => i - 1 \in 0..m BY <4>1
      <4> QED BY <2>1, <2>2, <4>1, <4>2
    <3> QED BY <3>1, <3>2
  <2>6. Seen(moves, m + 1, g) BY <2>4, <2>5 DEF Seen
  <2> QED BY <2>6
<1> HIDE DEF good
<1>3. n \in good BY <1>1, <1>2, EveryNumber
<1> QED BY <1>3 DEF good

(* The history of moves and what is derived from it. *)
LEMMA MovesForeign ==
  ASSUME NEW moves, Len(moves) \in Nat
  PROVE  /\ Foreign(ValidateMoves(moves).errors)
         /\ \A current : Foreign(BuildMoves(current, moves).errors)
<1> DEFINE N == Len(moves)
           f == CHOOSE f : Seen(moves, N, f)
<1>1. Seen(moves, N, f) BY SeenExists
<1>2. ValidateMoves(moves) = f[N] BY DEF ValidateMoves, Seen
<1>3. \A i \in 0..N : f[i] = IF i = 0 THEN NoEdges ELSE AddEntry(f[i - 1], moves[i])
  BY <1>1 DEF Seen
<1> HIDE DEF f
<1> DEFINE Clean(seen) == DOMAIN seen = {"errors", "out", "into"} /\ Foreign(seen.errors)
           good == {n \in Nat : n <= N => Clean(f[n])}
<1>4. 0 \in good
  <2>1. f[0] = NoEdges BY <1>3
  <2> QED BY <2>1 DEF NoEdges, Foreign
<1>5. ASSUME NEW seen, NEW e, Clean(seen) PROVE Clean(AddEntry(seen, e))
  <2>1. EntryError(seen, e) \notin GraphCodes BY DEF EntryError, GraphCodes
  <2>2. AddEntry(seen, e).errors \in {seen.errors, seen.errors \cup {EntryError(seen, e)}}
    BY <1>5 DEF AddEntry
  <2>3. DOMAIN AddEntry(seen, e) = DOMAIN seen BY DEF AddEntry
  <2> QED BY <1>5, <2>1, <2>2, <2>3 DEF Foreign
<1>6. \A n \in Nat : n \in good => n + 1 \in good
  <2> SUFFICES ASSUME NEW n \in Nat, n \in good, n + 1 <= N PROVE Clean(f[n + 1])
    OBVIOUS
  <2>1. Clean(f[n]) OBVIOUS
  <2>2. f[n + 1] = AddEntry(f[n], moves[n + 1])
    <3>1. n + 1 \in 0..N /\ n + 1 # 0 /\ (n + 1) - 1 = n OBVIOUS
    <3> QED BY <1>3, <3>1
  <2> HIDE DEF good, Clean
  <2> QED BY <1>5, <2>1, <2>2
<1> HIDE DEF good
<1>7. N \in good BY <1>4, <1>6, EveryNumber
<1>8. Foreign(ValidateMoves(moves).errors) BY <1>2, <1>7 DEF good
<1>9. ASSUME NEW current PROVE Foreign(BuildMoves(current, moves).errors)
  <2>1. Foreign(ChainErrors(ValidateMoves(moves), current))
    BY DEF ChainErrors, Foreign, GraphCodes
  <2> QED BY <1>8, <2>1 DEF BuildMoves, Foreign
<1> QED BY <1>8, <1>9

-----------------------------------------------------------------------------
(* The inductive invariant of the pipeline. *)

(* The project is made of files of the definitions there are.                *)
IsDefinition(p) ==
  /\ p.apps.form \in Forms /\ (p.apps.form = "ok" => IsAppList(p.apps.apps))
  /\ p.moves.form = "ok" => p.moves.moves \in Seq(Range(p.moves.moves))
  /\ p.extensions.form = "ok" => IsRuleList(p.extensions.rules)

Loaded(model) == IsAppList(model.apps) /\ Topological(model.apps, model.order)

Sorted(apps, t) ==
  /\ t \in Seq(IdsOf(apps))
  /\ \A i, j \in DOMAIN t : i < j => ~DependsOn(apps, t[i], t[j])

RefusedForGraph(errors, edited, apps) == (~Foreign(errors) /\ ~edited) => ~Acceptable(apps)

IInv ==
  /\ {"apps", "moves", "extensions"} \subseteq DOMAIN project /\ IsDefinition(project)
  /\ DOMAIN cmd = DOMAIN Idle
  /\ RefusedForGraph(cmd.errors, cmd.edited, project.apps.apps)
  /\ cmd.stage = "load" => cmd.name \in DOMAIN NextStage
  /\ cmd.stage \notin {"load", "done"} => Loaded(cmd.model)
  /\ cmd.stage \in {"build", "materialize"} => Sorted(cmd.model.apps, cmd.todo)

(* A history that was parsed is a list. *)
LEMMA ParsedMoves ==
  ASSUME IsDefinition(project), ParseMoves(project.moves).ok
  PROVE  Len(ParseMoves(project.moves).moves) \in Nat
<1> DEFINE doc == project.moves
           fine == doc.form = "ok" /\ \A e \in Range(doc.moves) : e.wellFormed /\ e.from # e.to
<1>1. CASE doc.form = "absent"
  <2>1. ParseMoves(doc) = [ok |-> TRUE, moves |-> <<>>] BY <1>1 DEF ParseMoves
  <2> QED BY <2>1
<1>2. CASE doc.form # "absent"
  <2>1. ParseMoves(doc) = [ok |-> fine, moves |-> doc.moves] BY <1>2 DEF ParseMoves
  <2> HIDE DEF fine
  <2>2. fine /\ ParseMoves(doc).moves = doc.moves BY <2>1
  <2>3. doc.form = "ok" BY <2>2 DEF fine
  <2> QED BY <2>2, <2>3 DEF IsDefinition
<1> QED BY <1>1, <1>2

(* A command that ends for another reason than the graph.                    *)
Fails(errors) == \E code : Fail(code, errors)

(* Such a command says nothing of the graph. *)
LEMMA FailsKept ==
  ASSUME IInv, UNCHANGED project, NEW errors, Foreign(errors), Fails(errors)
  PROVE  IInv'
<1>1. PICK code : cmd' = [cmd EXCEPT !.stage = "done", !.exit = code, !.errors = errors]
  BY DEF Fails, Fail
<1>2. DOMAIN cmd' = DOMAIN Idle /\ cmd'.stage = "done" /\ cmd'.errors = errors
  BY <1>1 DEF IInv, Idle
<1>3. {"apps", "moves", "extensions"} \subseteq DOMAIN project' /\ IsDefinition(project')
  BY DEF IInv
<1>4. DOMAIN (Idle') = DOMAIN Idle BY DEF Idle
<1> QED BY <1>2, <1>3, <1>4 DEF IInv, RefusedForGraph

(* A command that goes on.                                                   *)
LEMMA GoesOn ==
  ASSUME IInv, UNCHANGED project, DOMAIN cmd' = DOMAIN cmd, cmd'.errors = cmd.errors,
         cmd'.edited = cmd.edited, cmd'.stage # "load",
         cmd'.stage \notin {"load", "done"} => Loaded(cmd'.model),
         cmd'.stage \in {"build", "materialize"} => Sorted(cmd'.model.apps, cmd'.todo)
  PROVE  IInv'
<1>1. DOMAIN (Idle') = DOMAIN Idle BY DEF Idle
<1> QED BY <1>1 DEF IInv

(* A topological order may be built from its beginning. *)
LEMMA TopologicalSorted ==
  ASSUME NEW apps, NEW order, Topological(apps, order)
  PROVE  Sorted(apps, order)
<1>1. order \in Seq(IdsOf(apps)) BY DEF Topological
<1>2. ASSUME NEW i \in DOMAIN order, NEW j \in DOMAIN order, i < j
      PROVE  ~DependsOn(apps, order[i], order[j])
  <2>1. i <= j BY <1>1, <1>2
  <2> QED BY <2>1, TopologicalIndependent
<1> QED BY <1>1, <1>2 DEF Sorted

(* So may a part of it (--target), *)
LEMMA OnlySorted ==
  ASSUME NEW apps, NEW t, Sorted(apps, t), NEW set
  PROVE  Sorted(apps, Only(t, set))
<1> DEFINE u == Only(t, set)
<1>1. t \in Seq(IdsOf(apps)) BY DEF Sorted
<1>2. u \in Seq(IdsOf(apps)) BY <1>1, OnlyIs
<1>3. PICK at : Left(t, set, Len(t), u, at) BY <1>1, OnlyLeft
<1> HIDE DEF u
<1>4. /\ \A i \in DOMAIN u : at[i] \in DOMAIN t /\ u[i] = t[at[i]]
      /\ \A i, j \in DOMAIN u : i < j => at[i] < at[j]
  BY <1>1, <1>3 DEF Left
<1>5. \A i, j \in DOMAIN u : i < j => ~DependsOn(apps, u[i], u[j])
  BY <1>4 DEF Sorted
<1> QED BY <1>2, <1>5 DEF Sorted, u

(* and what is left of it. *)
LEMMA TailSorted ==
  ASSUME NEW apps, NEW t, Sorted(apps, t), t # <<>>
  PROVE  Sorted(apps, Tail(t))
<1>1. t \in Seq(IdsOf(apps)) BY DEF Sorted
<1>2. /\ Tail(t) \in Seq(IdsOf(apps)) /\ Len(t) \in Nat /\ DOMAIN t = 1..Len(t)
      /\ DOMAIN Tail(t) = 1..(Len(t) - 1) /\ \A i \in 1..(Len(t) - 1) : Tail(t)[i] = t[i + 1]
  BY <1>1
<1>3. ASSUME NEW i \in DOMAIN Tail(t), NEW j \in DOMAIN Tail(t), i < j
      PROVE  ~DependsOn(apps, Tail(t)[i], Tail(t)[j])
  <2>1. i + 1 \in DOMAIN t /\ j + 1 \in DOMAIN t /\ i + 1 < j + 1 BY <1>2, <1>3
  <2> QED BY <1>2, <2>1 DEF Sorted
<1> QED BY <1>2, <1>3 DEF Sorted

(* What the loader returns.                                                  *)
WellLoaded(model, apps) ==
  /\ ~Foreign(model.errors) => ~Acceptable(apps)
  /\ model.kind \notin {"missing", "invalid"} => Loaded(model)

(* The loader orders the apps, or refuses a graph that cannot be ordered. *)
LEMMA LoadSound ==
  ASSUME IsDefinition(project), NEW env
  PROVE  WellLoaded(LoadProjectModel(project, env), project.apps.apps)
<1> DEFINE apps == project.apps
           resources == LoadResources(project.resources)
           graph == BuildDependsOnGraph(apps.apps)
           collected == CollectErrors(project, env)
           model == LoadProjectModel(project, env)
           loaded == [kind |-> "ok", errors |-> {}, apps |-> apps.apps,
                      resources |-> resources.entries, order |-> graph.order]
<1>1. \A doc : Foreign(ParseErrors(doc)) /\ (ParseErrors(doc) = {} => doc.form \notin {"syntax", "duplicate", "version"})
  BY DEF ParseErrors, Foreign, GraphCodes
<1>2. \A condition \in BOOLEAN : Foreign(Invalid(condition)) BY DEF Invalid, Foreign, GraphCodes
<1>3. Foreign(ExtractApps(apps)) /\ (ExtractApps(apps) = {} => apps.form # "shape")
  BY DEF ExtractApps, Invalid, Foreign, GraphCodes
<1>4. Foreign(resources.errors)
  <2>1. Foreign(ExtractResources(project.resources)) BY DEF ExtractResources, Invalid, Foreign, GraphCodes
  <2> QED BY <1>1, <2>1 DEF LoadResources, Foreign
<1>5. (~Foreign(collected) => graph.errors # {}) /\ (collected = {} => graph.errors = {})
  <2> DEFINE ofApps == ConfigErrors(project, env)
             ofGraph == GraphErrors(apps.apps)
             collision == CheckIdentityCollision(apps.apps, resources.entries)
  <2>1. \A doc : Foreign(LoadAppBuildConfig(doc).errors)
    BY <1>1, <1>2 DEF LoadAppBuildConfig, Foreign
  <2>2. \A needs : Foreign(CheckEnvRequirements(needs, env))
    BY DEF CheckEnvRequirements, Foreign, GraphCodes
  <2>3. collected = ofApps \cup ofGraph \cup collision BY DEF CollectErrors
  <2>4. \A a : Foreign(AppErrors(project, env, a)) BY <2>1, <2>2 DEF AppErrors, Foreign
  <2>5. Foreign(ofApps) BY <2>4 DEF ConfigErrors, Foreign
  <2>6. Foreign(collision) BY DEF CheckIdentityCollision, Foreign, GraphCodes
  <2>7. ofGraph = {e[1] : e \in graph.errors} BY DEF GraphErrors
  <2> HIDE DEF collected, graph, ofApps, ofGraph, collision
  <2>8. graph.errors = {} <=> ofGraph = {} BY <2>7
  <2> QED BY <2>3, <2>5, <2>6, <2>8 DEF Foreign
<1>11. model = IF apps.form = "absent" THEN [Refused({}) EXCEPT !.kind = "missing"]
               ELSE IF ParseErrors(apps) # {} THEN Refused(ParseErrors(apps))
               ELSE IF ExtractApps(apps) # {} THEN Refused(ExtractApps(apps))
               ELSE IF resources.errors # {} THEN Refused(resources.errors)
               ELSE IF collected # {} THEN Refused(collected)
               ELSE loaded
  BY DEF LoadProjectModel
<1> HIDE DEF model, collected, graph, resources
<1>12. \A errors : Refused(errors).kind = "invalid" /\ Refused(errors).errors = errors BY DEF Refused
<1>13. CASE apps.form = "absent"
  <2>1. model.kind = "missing" /\ model.errors = {} BY <1>11, <1>13 DEF Refused
  <2> QED BY <2>1 DEF Foreign, model, WellLoaded
<1>14. CASE apps.form # "absent" /\ (ParseErrors(apps) # {} \/ ExtractApps(apps) # {} \/ resources.errors # {})
  <2>1. PICK errors : Foreign(errors) /\ model = Refused(errors) BY <1>1, <1>3, <1>4, <1>11, <1>14
  <2>2. model.kind = "invalid" /\ model.errors = errors BY <1>12, <2>1
  <2> QED BY <2>1, <2>2 DEF model, WellLoaded
<1>15. CASE apps.form # "absent" /\ ParseErrors(apps) = {} /\ ExtractApps(apps) = {} /\ resources.errors = {}
  <2>1. apps.form = "ok" BY <1>1, <1>3, <1>15 DEF IsDefinition, Forms
  <2>2. IsAppList(apps.apps) BY <2>1 DEF IsDefinition
  <2>3. CASE collected # {}
    <3>1. model.kind = "invalid" /\ model.errors = collected BY <1>11, <1>12, <1>15, <2>3
    <3>2. graph.errors # {} => ~Acceptable(apps.apps) BY <2>2, RefusedRightly DEF graph
    <3> QED BY <1>5, <3>1, <3>2 DEF model, WellLoaded
  <2>4. CASE collected = {}
    <3>1. model = loaded BY <1>11, <1>15, <2>4
    <3>2. model.errors = {} /\ model.apps = apps.apps /\ model.order = graph.order BY <3>1
    <3>3. Topological(apps.apps, graph.order) BY <1>5, <2>2, <2>4, OrderTopological DEF graph
    <3> QED BY <2>2, <3>2, <3>3 DEF model, Foreign, Loaded, WellLoaded
  <2> QED BY <2>3, <2>4
<1> QED BY <1>13, <1>14, <1>15

-----------------------------------------------------------------------------
(* Init, and the stages up to the selection. *)

(* No command has run. *)
LEMMA IInvInit == Init => IInv
<1> SUFFICES ASSUME Init PROVE IInv OBVIOUS
<1>1. project \in Projects /\ cmd = Idle BY DEF Init
<1>2. {"apps", "moves", "extensions"} \subseteq DOMAIN project /\ IsDefinition(project)
  BY <1>1, DefinitionsAssumption DEF IsDefinition
<1>3. cmd.stage = "done" /\ cmd.errors = {} BY <1>1 DEF Idle
<1> QED BY <1>1, <1>2, <1>3 DEF IInv, RefusedForGraph, Foreign

(* A command begins. *)
LEMMA BeginKept ==
  ASSUME IInv, NEW name \in DOMAIN NextStage, NEW target, NEW dir, NEW validateTf, Begin(name, target, dir, validateTf)
  PROVE  IInv'
<1>1. /\ cmd' = [Idle EXCEPT !.name = name, !.target = target, !.dir = dir,
                             !.validateTf = validateTf, !.stage = "load"]
      /\ UNCHANGED project
  BY DEF Begin
<1>2. DOMAIN cmd' = DOMAIN Idle /\ cmd'.stage = "load" /\ cmd'.errors = {} /\ cmd'.name = name
  BY <1>1 DEF Idle
<1>3. DOMAIN (Idle') = DOMAIN Idle BY DEF Idle
<1> QED BY <1>1, <1>2, <1>3 DEF IInv, RefusedForGraph, Foreign

(* The user edits the files: the running command is of the edited project no more. *)
LEMMA EditKept ==
  ASSUME IInv, Edit
  PROVE  IInv'
<1>1. cmd' = [cmd EXCEPT !.edited = TRUE] BY DEF Edit
<1>2. PICK p \in Versions, f \in DOMAIN project : project' = [project EXCEPT ![f] = p[f]] BY DEF Edit
<1>3. {"apps", "moves", "extensions"} \subseteq DOMAIN project' /\ IsDefinition(project')
  <2>1. {"apps", "moves", "extensions"} \subseteq DOMAIN project /\ IsDefinition(project) BY DEF IInv
  <2>2. DOMAIN project' = DOMAIN project BY <1>2
  <2>3. project'.apps = project.apps \/ project'.apps = p.apps BY <1>2, <2>1
  <2>4. project'.moves = project.moves \/ project'.moves = p.moves BY <1>2, <2>1
  <2>5. project'.extensions = project.extensions \/ project'.extensions = p.extensions BY <1>2, <2>1
  <2>6. IsDefinition(p) BY DefinitionsAssumption DEF IsDefinition
  <2> QED BY <2>1, <2>2, <2>3, <2>4, <2>5, <2>6 DEF IsDefinition
<1>4. DOMAIN cmd' = DOMAIN Idle /\ cmd'.edited = TRUE /\ cmd'.stage = cmd.stage
      /\ cmd'.name = cmd.name /\ cmd'.model = cmd.model /\ cmd'.todo = cmd.todo
  BY <1>1 DEF IInv, Idle
<1>5. DOMAIN (Idle') = DOMAIN Idle BY DEF Idle
<1> QED BY <1>3, <1>4, <1>5 DEF IInv, RefusedForGraph

(* No errors are no errors of the graph. *)
LEMMA EmptyForeign == Foreign({})
  BY DEF Foreign

(* An interruption, the end of the build, the removal of stale files. *)
LEMMA EndsKept ==
  ASSUME IInv, Interrupt \/ BuildEnds \/ RemoveStale
  PROVE  IInv'
<1>1. UNCHANGED project /\ \E code : Fail(code, {}) BY DEF Interrupt, BuildEnds, RemoveStale
<1>2. Fails({}) BY <1>1 DEF Fails
<1> QED BY <1>1, <1>2, EmptyForeign, FailsKept

(* The model is loaded or refused. *)
LEMMA LoadModelKept ==
  ASSUME IInv, LoadModel
  PROVE  IInv'
<1> DEFINE model == LoadProjectModel(project, project.env)
           env == IF cmd.name # "build" THEN {}
                  ELSE UNION {PrepareBuildEnv(project, project.env, a) :
                                a \in {b \in Range(model.apps) : b.id \in Scope(model)}}
<1>1. /\ UNCHANGED project /\ cmd.stage = "load"
      /\ IF model.kind = "missing" THEN Fail(2, {"CLI_MISSING_PROJECT_DIR"})
         ELSE IF model.kind = "invalid" THEN Fail(1, model.errors)
         ELSE IF ~(Scope(model) \subseteq IdsOf(model.apps)) THEN Fail(2, {"CLI_APP_NOT_FOUND"})
         ELSE IF env # {} THEN Fail(1, env)
         ELSE cmd' = [cmd EXCEPT !.model = model, !.stage = NextStage[cmd.name]]
  BY DEF LoadModel
<1>2. WellLoaded(model, project.apps.apps) BY LoadSound DEF IInv
<1>3. Foreign(env)
  <2>1. \A a : Foreign(PrepareBuildEnv(project, project.env, a))
    BY DEF PrepareBuildEnv, Foreign, GraphCodes
  <2> QED BY <2>1 DEF Foreign
<1> HIDE DEF model, env
<1>4. CASE Fail(2, {"CLI_MISSING_PROJECT_DIR"}) \/ Fail(2, {"CLI_APP_NOT_FOUND"}) \/ Fail(1, env)
  <2>1. PICK errors : Foreign(errors) /\ Fails(errors) BY <1>3, <1>4 DEF Foreign, GraphCodes, Fails
  <2> QED BY <1>1, <2>1, FailsKept
<1>5. CASE model.kind = "invalid" /\ Fail(1, model.errors)
  <2>1. cmd' = [cmd EXCEPT !.stage = "done", !.exit = 1, !.errors = model.errors] BY <1>5 DEF Fail
  <2>2. DOMAIN cmd' = DOMAIN Idle /\ cmd'.stage = "done" /\ cmd'.errors = model.errors
    BY <2>1 DEF IInv, Idle
  <2>3. DOMAIN (Idle') = DOMAIN Idle BY DEF Idle
  <2> QED BY <1>1, <1>2, <2>2, <2>3 DEF IInv, RefusedForGraph, WellLoaded
<1>6. CASE /\ model.kind \notin {"missing", "invalid"}
           /\ cmd' = [cmd EXCEPT !.model = model, !.stage = NextStage[cmd.name]]
  <2>1. Loaded(model) BY <1>2, <1>6 DEF WellLoaded
  <2>2. DOMAIN cmd' = DOMAIN cmd /\ cmd'.errors = cmd.errors /\ cmd'.edited = cmd.edited
        /\ cmd'.model = model /\ cmd'.stage = NextStage[cmd.name]
    BY <1>6 DEF IInv, Idle
  <2>3. cmd.name \in DOMAIN NextStage BY <1>1 DEF IInv
  <2>4. cmd'.stage \in {"registry", "check"} BY <2>2, <2>3 DEF NextStage
  <2> QED BY <1>1, <2>1, <2>2, <2>4, GoesOn
<1> QED BY <1>1, <1>4, <1>5, <1>6

(* The plugins are loaded, and the apps put in the order of the build. *)
LEMMA LoadPluginsKept ==
  ASSUME IInv, LoadPlugins
  PROVE  IInv'
<1> DEFINE registry == LoadRegistry(project.builders)
           unknown == IF cmd.name = "build" THEN ValidateBuilders(cmd.model, registry.records) ELSE {}
           order == Only(cmd.model.order, Scope(cmd.model))
<1>1. /\ UNCHANGED project /\ cmd.stage = "registry"
      /\ IF registry.kind = "throws" THEN Fail(1, {"CLI_BUILD_FAILED"})
         ELSE IF registry.kind = "invalid" THEN Fail(1, registry.errors)
         ELSE IF unknown # {} THEN Fail(1, unknown)
         ELSE IF cmd.name = "build" THEN
                cmd' = [cmd EXCEPT !.records = registry.records, !.todo = order, !.stage = "build"]
         ELSE cmd' = [cmd EXCEPT !.records = registry.records, !.stage = "select"]
  BY DEF LoadPlugins
<1>2. Foreign(registry.errors) /\ Foreign(unknown)
  <2>1. Foreign(registry.errors) BY RegistryForeign
  <2>2. \A model, records : Foreign(ValidateBuilders(model, records)) BY RegistryForeign
  <2> QED BY <2>1, <2>2, EmptyForeign
<1>3. Loaded(cmd.model) BY <1>1 DEF IInv
<1>4. Sorted(cmd.model.apps, order) BY <1>3, TopologicalSorted, OnlySorted DEF Loaded
<1> HIDE DEF registry, unknown, order
<1>5. CASE Fail(1, {"CLI_BUILD_FAILED"}) \/ Fail(1, registry.errors) \/ Fail(1, unknown)
  <2>1. PICK errors : Foreign(errors) /\ Fails(errors) BY <1>2, <1>5 DEF Foreign, GraphCodes, Fails
  <2> QED BY <1>1, <2>1, FailsKept
<1>6. CASE cmd' = [cmd EXCEPT !.records = registry.records, !.todo = order, !.stage = "build"]
  <2>1. DOMAIN cmd' = DOMAIN cmd /\ cmd'.errors = cmd.errors /\ cmd'.edited = cmd.edited
        /\ cmd'.model = cmd.model /\ cmd'.todo = order /\ cmd'.stage = "build"
    BY <1>6 DEF IInv, Idle
  <2> QED BY <1>1, <1>3, <1>4, <2>1, GoesOn
<1>7. CASE cmd' = [cmd EXCEPT !.records = registry.records, !.stage = "select"]
  <2>1. DOMAIN cmd' = DOMAIN cmd /\ cmd'.errors = cmd.errors /\ cmd'.edited = cmd.edited
        /\ cmd'.model = cmd.model /\ cmd'.stage = "select"
    BY <1>7 DEF IInv, Idle
  <2> QED BY <1>1, <1>3, <2>1, GoesOn
<1> QED BY <1>1, <1>5, <1>6, <1>7

(* The next app is built. *)
LEMMA BuildAppKept ==
  ASSUME IInv, BuildApp
  PROVE  IInv'
<1>1. /\ UNCHANGED project /\ cmd.stage = "build" /\ cmd.todo # <<>>
      /\ Fail(1, {"CLI_BUILD_FAILED"}) \/ cmd' = [cmd EXCEPT !.todo = Tail(@)]
  BY DEF BuildApp, Running
<1>2. CASE Fail(1, {"CLI_BUILD_FAILED"})
  <2>1. Foreign({"CLI_BUILD_FAILED"}) /\ Fails({"CLI_BUILD_FAILED"})
    BY <1>2 DEF Foreign, GraphCodes, Fails
  <2> QED BY <1>1, <2>1, FailsKept
<1>3. CASE cmd' = [cmd EXCEPT !.todo = Tail(@)]
  <2>1. DOMAIN cmd' = DOMAIN cmd /\ cmd'.errors = cmd.errors /\ cmd'.edited = cmd.edited
        /\ cmd'.model = cmd.model /\ cmd'.stage = "build" /\ cmd'.todo = Tail(cmd.todo)
    BY <1>1, <1>3 DEF IInv, Idle
  <2>2. Loaded(cmd.model) /\ Sorted(cmd.model.apps, Tail(cmd.todo)) BY <1>1, TailSorted DEF IInv
  <2> QED BY <1>1, <2>1, <2>2, GoesOn
<1> QED BY <1>1, <1>2, <1>3

(* The apps are selected for the materializers. *)
LEMMA SelectKept ==
  ASSUME IInv, Select
  PROVE  IInv'
<1> DEFINE extensions == ParseExtensions(project.extensions)
           selected == SelectArtifacts(cmd.model, cmd.records)
           order == DeterministicOrder(cmd.model.apps)
           rules == IF extensions = "ok" THEN project.extensions.rules ELSE <<>>
           to == [cmd EXCEPT !.artifacts = ReadStore.artifacts, !.rules = rules,
                             !.matches = selected.matches, !.todo = order,
                             !.stage = "materialize"]
<1>1. /\ UNCHANGED project /\ cmd.stage = "select"
      /\ IF ~ReadStore.ok THEN Fail(1, {"CLI_BUILD_FAILED"})
         ELSE IF extensions \notin {"ok", "missing"} THEN Fail(1, {extensions})
         ELSE IF selected.errors # {} THEN Fail(1, selected.errors)
         ELSE cmd' = to
  BY DEF Select, Running
<1>2. Foreign({extensions}) BY DEF ParseExtensions, Foreign, GraphCodes
<1>3. Foreign(selected.errors) BY DEF SelectArtifacts, Foreign, GraphCodes
<1>4. Loaded(cmd.model) BY <1>1 DEF IInv
<1>5. Sorted(cmd.model.apps, order)
  BY <1>4, DefinitionsAssumption, DeterministicTopological, TopologicalSorted DEF Loaded
<1>6. to.todo = order /\ to.stage = "materialize" /\ to.errors = cmd.errors /\ DOMAIN to = DOMAIN cmd
      /\ to.edited = cmd.edited /\ to.model = cmd.model
  BY DEF IInv, Idle
<1> HIDE DEF extensions, selected, order, to
<1>7. CASE Fail(1, {"CLI_BUILD_FAILED"}) \/ Fail(1, {extensions}) \/ Fail(1, selected.errors)
  <2>1. PICK errors : Foreign(errors) /\ Fails(errors)
    BY <1>2, <1>3, <1>7 DEF Foreign, GraphCodes, Fails
  <2> QED BY <1>1, <2>1, FailsKept
<1>8. CASE cmd' = to BY <1>1, <1>4, <1>5, <1>6, <1>8, GoesOn
<1> QED BY <1>1, <1>7, <1>8

-----------------------------------------------------------------------------
(* From the artifacts to the files; the theorem. *)

(* The next app is materialized. *)
LEMMA MaterializeAppKept ==
  ASSUME IInv, MaterializeApp
  PROVE  IInv'
<1> DEFINE id == Head(cmd.todo)
           result == Materialize(cmd.matches[id], id, Of(cmd.artifacts, id, NoValue), Of(dist, id, EmptyDist))
           products == cmd.products \o [i \in DOMAIN result.resources |->
                                          [app |-> id, resource |-> result.resources[i]]]
           auto == Declare(cmd.auto, result.outputs)
           duplicates == cmd.duplicates \/ \E o \in Range(result.outputs), p \in Range(cmd.auto) :
                                                 o.name = p.name
           to == [cmd EXCEPT !.todo = Tail(@), !.products = products, !.auto = auto,
                             !.duplicates = duplicates]
<1>1. /\ UNCHANGED project /\ cmd.stage = "materialize" /\ cmd.todo # <<>>
      /\ Fail(1, {"MTL_MATERIALIZE_FAILED"}) \/ cmd' = to
  BY DEF MaterializeApp, Running
<1>2. CASE Fail(1, {"MTL_MATERIALIZE_FAILED"})
  <2>1. Foreign({"MTL_MATERIALIZE_FAILED"}) /\ Fails({"MTL_MATERIALIZE_FAILED"})
    BY <1>2 DEF Foreign, GraphCodes, Fails
  <2> QED BY <1>1, <2>1, FailsKept
<1>3. CASE cmd' = to
  <2> HIDE DEF products, auto, duplicates
  <2>1. DOMAIN cmd' = DOMAIN cmd /\ cmd'.errors = cmd.errors /\ cmd'.edited = cmd.edited
        /\ cmd'.model = cmd.model /\ cmd'.stage = "materialize" /\ cmd'.todo = Tail(cmd.todo)
    BY <1>1, <1>3 DEF IInv, Idle
  <2>2. Loaded(cmd.model) /\ Sorted(cmd.model.apps, Tail(cmd.todo)) BY <1>1, TailSorted DEF IInv
  <2> QED BY <1>1, <2>1, <2>2, GoesOn
<1> QED BY <1>1, <1>2, <1>3

(* Whatever is generated, the command fails for another reason, or writes.   *)
LEMMA GenerateKept ==
  ASSUME IInv, Generate
  PROVE  IInv'
<1>1. /\ UNCHANGED project /\ cmd.stage = "materialize"
      /\ \/ \E errors : Foreign(errors) /\ Fails(errors)
         \/ \E out, rest : cmd' = [cmd EXCEPT !.output = out, !.stage = "write", !.todo = rest]
  <2> DEFINE document == ParseMoves(project.moves)
             moves == IF document.ok THEN document.moves ELSE <<>>
  <2>1. Len(moves) \in Nat
    <3>1. CASE document.ok BY <3>1, ParsedMoves DEF IInv
    <3>2. CASE ~document.ok BY <3>2
    <3> QED BY <3>1, <3>2
  <2> HIDE DEF moves
  <2>2. \A current : Foreign(BuildMoves(current, moves).errors) BY <2>1, MovesForeign
  <2>3. \A products, rules : Foreign(Grouped(products, rules).errors) BY RulesForeign
  <2>4. Foreign({"MTL_INVALID_TERRAFORM_ADDRESS"}) /\ Foreign({"MTL_OUTPUT_NAME_COLLISION"})
    BY DEF Foreign, GraphCodes
  <2>5. UNCHANGED project /\ cmd.stage = "materialize" BY DEF Generate, Running
  <2> DEFINE grouped   == Grouped(cmd.products, cmd.rules)
             resources == [i \in DOMAIN grouped.products |-> grouped.products[i].resource]
             apps      == {p.app : p \in Range(grouped.products)}
             invalid   == \E r \in Range(resources) : ~ValidAddress(r)
             moved     == BuildMoves(MoveEndpoints(resources), moves)
             wanted    == ParseOutputs(project.outputs) = "ok"
             outputs   == BuildOutputs(resources, project.outputs.entries, cmd.auto)
             all       == GeneratedFiles(grouped.products, moved.moved, wanted, outputs.values)
             output    == IF cmd.target = NoTarget THEN all
                          ELSE [n \in {cmd.target} \cap DOMAIN all |-> all[n]]
             todo      == Only(FileNames(grouped.products), DOMAIN output)
  <2>6.   IF grouped.errors # {} THEN Fail(1, grouped.errors)
          ELSE IF invalid THEN Fail(1, {"MTL_INVALID_TERRAFORM_ADDRESS"})
          ELSE IF cmd.duplicates THEN Fail(1, {"MTL_OUTPUT_NAME_COLLISION"})
          ELSE IF moved.errors # {} THEN Fail(1, moved.errors)
          ELSE IF wanted /\ outputs.errors # {} THEN Fail(1, outputs.errors)
          ELSE cmd' = [cmd EXCEPT !.output = output, !.stage = "write", !.todo = todo]
    BY DEF Generate, moves
  <2>7. Foreign(grouped.errors) BY <2>3
  <2>8. Foreign(moved.errors) BY <2>2
  <2>9. Foreign(outputs.errors) BY OutputsForeign
  <2> HIDE DEF grouped, invalid, moved, wanted, outputs, output, todo
  <2>10. \/ Fail(1, grouped.errors) \/ Fail(1, {"MTL_INVALID_TERRAFORM_ADDRESS"})
         \/ Fail(1, {"MTL_OUTPUT_NAME_COLLISION"}) \/ Fail(1, moved.errors) \/ Fail(1, outputs.errors)
         \/ \E out, rest : cmd' = [cmd EXCEPT !.output = out, !.stage = "write", !.todo = rest]
    BY <2>6
  <2> QED BY <2>4, <2>5, <2>7, <2>8, <2>9, <2>10 DEF Fails
<1>2. CASE \E errors : Foreign(errors) /\ Fails(errors) BY <1>1, <1>2, FailsKept
<1>3. CASE \E out, rest : cmd' = [cmd EXCEPT !.output = out, !.stage = "write", !.todo = rest]
  <2>1. DOMAIN cmd' = DOMAIN cmd /\ cmd'.errors = cmd.errors /\ cmd'.edited = cmd.edited
        /\ cmd'.model = cmd.model /\ cmd'.stage = "write"
    BY <1>3 DEF IInv, Idle
  <2> QED BY <1>1, <2>1, GoesOn DEF IInv
<1> QED BY <1>1, <1>2, <1>3

(* The next file is written. *)
LEMMA WriteFileKept ==
  ASSUME IInv, WriteFile
  PROVE  IInv'
<1>1. UNCHANGED project /\ cmd.stage = "write" /\ cmd' = [cmd EXCEPT !.todo = Tail(@)]
  BY DEF WriteFile, Running
<1>2. DOMAIN cmd' = DOMAIN cmd /\ cmd'.errors = cmd.errors /\ cmd'.edited = cmd.edited
      /\ cmd'.model = cmd.model /\ cmd'.stage = "write"
  BY <1>1 DEF IInv, Idle
<1> QED BY <1>1, <1>2, GoesOn DEF IInv

(* check: its errors are those of the loader, or foreign. *)
LEMMA CheckProjectKept ==
  ASSUME IInv, CheckProject
  PROVE  IInv'
<1> DEFINE generated == SetToSeq(LoadGeneratedModel)
           registry == LoadRegistry(project.builders)
           extensions == ParseExtensions(project.extensions)
           rules == project.extensions.rules
           document == ParseMoves(project.moves)
           ofBuilders == IF registry.kind = "ok" THEN ValidateBuilders(cmd.model, registry.records) ELSE {}
           ofRules == IF extensions = "ok"
                      THEN CheckOverrideTargets(rules, generated) \cup ApplyRules(generated, rules).errors
                           \cup ScanPatchForEnvRefs(rules)
                      ELSE {}
           ofResources == CheckResourceConsistency(cmd.model, generated)
           ofOutputs == IF ParseOutputs(project.outputs) = "ok"
                        THEN BuildOutputs(generated, project.outputs.entries, <<>>).errors ELSE {}
           ofMoves == IF document.ok THEN ValidateMoves(document.moves).errors ELSE {}
           ofKeys == ScanSuspiciousKeys(cmd.model)
           found == ofBuilders \cup ofRules \cup ofResources \cup ofOutputs \cup ofMoves \cup ofKeys
<1>1. Foreign(ofBuilders)
  <2>1. \A model, records : Foreign(ValidateBuilders(model, records)) BY RegistryForeign
  <2> QED BY <2>1, EmptyForeign
<1>2. Foreign(ofRules)
  <2>1. \A x, y : Foreign(ApplyRules(x, y).errors) BY RulesForeign
  <2>2. \A x, y : Foreign(CheckOverrideTargets(x, y)) BY DEF CheckOverrideTargets, Foreign, GraphCodes
  <2>3. \A x : Foreign(ScanPatchForEnvRefs(x)) BY DEF ScanPatchForEnvRefs, Foreign, GraphCodes
  <2> QED BY <2>1, <2>2, <2>3 DEF Foreign
<1>3. Foreign(ofResources) BY DEF CheckResourceConsistency, Foreign, GraphCodes
<1>4. Foreign(ofOutputs) BY OutputsForeign, EmptyForeign
<1>5. Foreign(ofMoves)
  <2>1. CASE document.ok
    <3>4. Len(document.moves) \in Nat BY <2>1, ParsedMoves DEF IInv
    <3> QED BY <2>1, <3>4, MovesForeign
  <2>2. CASE ~document.ok BY <2>2, EmptyForeign
  <2> QED BY <2>1, <2>2
<1>6. Foreign(ofKeys) BY DEF ScanSuspiciousKeys, Foreign, GraphCodes
<1>7. UNCHANGED project
      /\ \E verdict \in IF cmd.validateTf /\ found = {} THEN RunTerraformValidate ELSE {{}} :
           Fail(IF found \cup verdict = {} THEN 0 ELSE 1, found \cup verdict)
  BY DEF CheckProject
<1> HIDE DEF ofBuilders, ofRules, ofResources, ofOutputs, ofMoves, ofKeys
<1>8. Foreign(found) BY <1>1, <1>2, <1>3, <1>4, <1>5, <1>6 DEF Foreign
<1> HIDE DEF found
<1>9. PICK verdict \in IF cmd.validateTf /\ found = {} THEN RunTerraformValidate ELSE {{}} :
           Fail(IF found \cup verdict = {} THEN 0 ELSE 1, found \cup verdict)
  BY <1>7
<1>10. Foreign(verdict) BY DEF RunTerraformValidate, Foreign, GraphCodes
<1>11. Foreign(found \cup verdict) /\ Fails(found \cup verdict) BY <1>8, <1>9, <1>10 DEF Foreign, Fails
<1> QED BY <1>7, <1>11, FailsKept

(* A step per action. *)
LEMMA IInvNext == IInv /\ [Next]_vars => IInv'
<1> SUFFICES ASSUME IInv, [Next]_vars PROVE IInv' OBVIOUS
<1>1. ASSUME NEW name \in DOMAIN NextStage, NEW t \in Targets, NEW dir \in {"infra", ".ycsf"},
             NEW v \in BOOLEAN, Begin(name, t, dir, v)
      PROVE  IInv'
  BY <1>1, BeginKept
<1>2. CASE UNCHANGED vars BY <1>2 DEF vars, IInv, Idle
<1> QED BY <1>1, <1>2, EditKept, EndsKept, LoadModelKept, LoadPluginsKept, BuildAppKept, SelectKept,
           MaterializeAppKept, GenerateKept, WriteFileKept, CheckProjectKept DEF Next

(* What is built and materialized is in order, and a complaint about the graph is right. *)
LEMMA IInvBuildOrder == IInv => BuildOrder
<1> SUFFICES ASSUME IInv PROVE DependenciesFirst /\ OrderIsComplete BY DEF BuildOrder
<1> DEFINE apps == cmd.model.apps
<1>1. ASSUME cmd.stage \notin {"load", "done"}
      PROVE  /\ Acceptable(apps) /\ Topological(apps, cmd.model.order)
             /\ Topological(apps, DeterministicOrder(apps))
  <2>1. IsAppList(apps) /\ Topological(apps, cmd.model.order) BY <1>1 DEF IInv, Loaded
  <2> HIDE DEF apps
  <2> QED BY <2>1, DefinitionsAssumption, TopologicalAcceptable, DeterministicTopological DEF apps
<1>2. DependenciesFirst
  BY <1>1 DEF IInv, DependenciesFirst, Sorted
<1>3. \A x, order : Topological(x, order) => IsInjective(order) /\ Range(order) = IdsOf(x)
  <2> SUFFICES ASSUME NEW x, NEW order, Topological(x, order)
               PROVE  IsInjective(order) /\ Range(order) = IdsOf(x)
    OBVIOUS
  <2>1. order \in Seq(IdsOf(x)) BY DEF Topological
  <2> QED BY <2>1 DEF Topological, IsInjective, Range
<1>4. OrderIsComplete
  <2>1. (cmd.errors \cap GraphCodes # {} /\ ~cmd.edited) => ~Acceptable(project.apps.apps)
    BY DEF IInv, RefusedForGraph, Foreign
  <2> HIDE DEF apps
  <2> QED BY <1>1, <1>3, <2>1 DEF OrderIsComplete, GraphCodes, apps
<1> QED BY <1>2, <1>4

(* What has been built, and is about to be, is in the order of depends_on in   *)
(* every state of every command, nothing is left out, and an order is refused  *)
(* only when there is none.                                                    *)
THEOREM OrderedBuilds == Spec => []BuildOrder
<1>1. Spec => []IInv BY IInvInit, IInvNext, PTL DEF Spec
<1> QED BY <1>1, IInvBuildOrder, PTL

-----------------------------------------------------------------------------
(* What is generated: the rules of the extensions. *)

RulesOf(rules, r) ==
  {rule \in Range(rules) : r.type \in DOMAIN IdlDomain /\ rule.target = IdlFor(r)}

(* PatchedAsAsked, for any rules.                                            *)
Patched(rules, r, written) ==
  LET touched == UNION {DOMAIN rule.patch : rule \in RulesOf(rules, r)}
  IN  /\ \A rule \in RulesOf(rules, r) : \A q \in DOMAIN rule.patch :
           rule.patch[q] # EmptyMap => q \in DOMAIN written /\ written[q] = rule.patch[q]
      /\ \A q \in DOMAIN r.config :
           (\A t \in touched : ~IsPrefix(t, q) /\ ~IsPrefix(q, t)) =>
             q \in DOMAIN written /\ written[q] = r.config[q]

(* Without a rule a configuration stays what it is. *)
LEMMA UnpatchedIs ==
  ASSUME NEW rules, NEW r, RulesOf(rules, r) = {}
  PROVE  Patched(rules, r, r.config)
  BY Zenon DEF Patched

(* One rule is merged into a configuration. *)
LEMMA MergedIs ==
  ASSUME NEW rules, NEW r, NEW rule, RulesOf(rules, r) = {rule},
         \A q \in DOMAIN rule.patch : q \in Seq(Range(q))
  PROVE  Patched(rules, r, DeepMerge(r.config, rule.patch))
<1> DEFINE base == r.config
           patch == rule.patch
           applied == {q \in DOMAIN patch : ~(patch[q] = EmptyMap /\ Below(base, q))}
           kept == {p \in DOMAIN base :
                      \A q \in DOMAIN patch :
                        /\ ~IsStrictPrefix(p, q)
                        /\ IsPrefix(q, p) => q \notin applied}
           written == [p \in applied \cup kept |-> IF p \in applied THEN patch[p] ELSE base[p]]
<1>1. DeepMerge(base, patch) = written BY Zenon DEF DeepMerge
<1>2. UNION {DOMAIN x.patch : x \in RulesOf(rules, r)} = DOMAIN patch OBVIOUS
<1>3. ASSUME NEW q \in DOMAIN patch, patch[q] # EmptyMap
      PROVE  q \in DOMAIN written /\ written[q] = patch[q]
  <2>1. q \in applied BY <1>3
  <2> HIDE DEF applied, kept, patch, base
  <2> QED BY <2>1
<1>4. ASSUME NEW q \in DOMAIN base, \A t \in DOMAIN patch : ~IsPrefix(t, q) /\ ~IsPrefix(q, t)
      PROVE  q \in DOMAIN written /\ written[q] = base[q]
  <2>1. q \notin applied
    <3> SUFFICES ASSUME q \in DOMAIN patch PROVE FALSE OBVIOUS
    <3>1. q \in Seq(Range(q)) OBVIOUS
    <3>2. IsPrefix(q, q) BY <3>1 DEF IsPrefix
    <3> QED BY <1>4, <3>2
  <2>2. q \in kept
    <3> SUFFICES ASSUME NEW t \in DOMAIN patch
                 PROVE  ~IsStrictPrefix(q, t) /\ (IsPrefix(t, q) => t \notin applied)
      BY Zenon
    <3> QED BY <1>4 DEF IsStrictPrefix
  <2> HIDE DEF applied, kept, patch, base
  <2> QED BY <2>1, <2>2
<1> HIDE DEF written, applied, kept
<1> QED BY <1>1, <1>2, <1>3, <1>4, Zenon DEF Patched

(* The first and the last of some elements are of them. *)
LEMMA EndsOf ==
  ASSUME NEW T, NEW seq \in Seq(T), NEW set, NEW x \in Range(seq) \cap set
  PROVE  /\ Only(seq, set)[1] \in Range(seq) \cap set
         /\ Last(Only(seq, set)) \in Range(seq) \cap set
<1> DEFINE t == Only(seq, set)
<1>1. t \in Seq(T) /\ Range(t) = Range(seq) \cap set BY OnlyIs
<1> HIDE DEF t
<1>2. DOMAIN t = 1..Len(t) /\ Len(t) \in Nat BY <1>1
<1>3. 1 \in DOMAIN t /\ Len(t) \in DOMAIN t BY <1>1, <1>2 DEF Range
<1>4. t[1] \in Range(t) /\ t[Len(t)] \in Range(t) BY <1>3 DEF Range
<1> QED BY <1>1, <1>4 DEF Last, t

-----------------------------------------------------------------------------
(* What is generated: the owners. *)

IsResource(r) == r = [type |-> r.type, name |-> r.name, config |-> r.config, refs |-> r.refs]

(* What the materializers have returned for some of the apps.                *)
AreProducts(apps, products) ==
  /\ products \in Seq(Range(products))
  /\ \A p \in Range(products) : p.app \in IdsOf(apps) /\ IsResource(p.resource)

(* No two resources have one address.                                        *)
Distinct(products) ==
  \A p, q \in Range(products) : Address(p.resource) = Address(q.resource) => p = q

(* The owner of an address is an app that has returned it. *)
LEMMA OwnerIs ==
  ASSUME NEW apps, NEW products, AreProducts(apps, products), NEW p \in Range(products)
  PROVE  \E q \in Range(products) : /\ Address(q.resource) = Address(p.resource)
                                    /\ q.app = OwnerOf(products, Address(p.resource))
<1> DEFINE same == {q \in Range(products) : Address(q.resource) = Address(p.resource)}
           owner == Last(Only(products, same))
<1>1. p \in Range(products) \cap same OBVIOUS
<1>2. products \in Seq(Range(products)) BY DEF AreProducts
<1> HIDE DEF same
<1>3. owner \in Range(products) \cap same BY <1>1, <1>2, EndsOf
<1>4. OwnerOf(products, Address(p.resource)) = owner.app BY DEF OwnerOf, same
<1> HIDE DEF owner
<1> QED BY <1>3, <1>4 DEF same

(* Resources that rules can be about have one logical name each. *)
LEMMA IdlsUnique ==
  ASSUME NEW resources, resources \in Seq(Range(resources)), DuplicateIdls(resources) = {},
         NEW r \in Range(Addressable(resources)), NEW s \in Range(Addressable(resources)), IdlFor(r) = IdlFor(s)
  PROVE  r = s
<1> DEFINE a == Addressable(resources)
<1>1. a \in Seq(Range(resources)) BY OnlyIs DEF Addressable
<1>2. DuplicateIdls(resources)
        = {IdlFor(a[i]) : i \in {j \in DOMAIN a : \E k \in 1..j - 1 : IdlFor(a[k]) = IdlFor(a[j])}}
  BY DEF DuplicateIdls
<1> HIDE DEF a
<1>3. DOMAIN a = 1..Len(a) /\ Len(a) \in Nat BY <1>1
<1>4. \A j, k \in DOMAIN a : k < j => IdlFor(a[k]) # IdlFor(a[j])
  <2> SUFFICES ASSUME NEW j \in DOMAIN a, NEW k \in DOMAIN a, k < j, IdlFor(a[k]) = IdlFor(a[j])
               PROVE  FALSE
    OBVIOUS
  <2>1. k \in 1..j - 1 BY <1>3
  <2> QED BY <1>2, <2>1
<1>5. PICK j \in DOMAIN a, k \in DOMAIN a : r = a[j] /\ s = a[k] BY DEF Range, a
<1>6. j = k BY <1>3, <1>4, <1>5
<1> QED BY <1>5, <1>6

(* What can be addressed, and the resource a logical name stands for. *)
LEMMA ByIdlIs ==
  ASSUME NEW resources, resources \in Seq(Range(resources)), NEW idl \in Idls(resources)
  PROVE  /\ ByIdl(resources, idl) \in Range(Addressable(resources))
         /\ IdlFor(ByIdl(resources, idl)) = idl
<1> DEFINE a == Addressable(resources)
           named == {r \in Range(a) : IdlFor(r) = idl}
<1>1. a \in Seq(Range(resources)) BY OnlyIs DEF Addressable
<1>2. PICK r \in Range(a) : IdlFor(r) = idl BY DEF Idls
<1>3. ByIdl(resources, idl) = Only(a, named)[1] BY DEF ByIdl
<1>4. r \in Range(a) \cap named BY <1>2
<1> HIDE DEF a, named
<1>5. Only(a, named)[1] \in Range(a) \cap named BY <1>1, <1>4, EndsOf
<1> QED BY <1>3, <1>5 DEF a, named

(* What can be addressed are the resources with a logical name. *)
LEMMA AddressableIs ==
  ASSUME NEW resources, resources \in Seq(Range(resources))
  PROVE  Range(Addressable(resources)) = {r \in Range(resources) : r.type \in DOMAIN IdlDomain}
  BY OnlyIs DEF Addressable

(* g has the resources of products, patched, and every one with an app that  *)
(* has returned its address.                                                 *)
Regrouped(g, products, rules) ==
  /\ g \in Seq(Range(g))
  /\ \A q \in Range(g) : \E p \in Range(products) :
       Address(p.resource) = Address(q.resource) /\ Patched(rules, p.resource, q.resource.config)
  /\ \A q \in Range(g) : \E p \in Range(products) :
       Address(p.resource) = Address(q.resource) /\ p.app = q.app
  /\ \A p \in Range(products) : \E q \in Range(g) : Address(q.resource) = Address(p.resource)

(* Two lists, one after the other. *)
LEMMA Joined ==
  ASSUME NEW S, NEW T, NEW s \in Seq(S), NEW t \in Seq(T)
  PROVE  s \o t \in Seq(Range(s \o t)) /\ Range(s \o t) = Range(s) \cup Range(t)
<1> DEFINE u == s \o t
<1>1. /\ Len(s) \in Nat /\ Len(t) \in Nat /\ DOMAIN s = 1..Len(s) /\ DOMAIN t = 1..Len(t)
      /\ u \in Seq(S \cup T) /\ Len(u) = Len(s) + Len(t)
      /\ \A i \in 1..(Len(s) + Len(t)) : u[i] = IF i <= Len(s) THEN s[i] ELSE t[i - Len(s)]
  <2>1. s \in Seq(S \cup T) /\ t \in Seq(S \cup T) BY SeqDef
  <2> QED BY <2>1, ConcatProperties
<1>2. DOMAIN u = 1..(Len(s) + Len(t)) /\ u = [i \in 1..Len(u) |-> u[i]]
  <2> HIDE DEF u
  <2> QED BY <1>1
<1> HIDE DEF u
<1>3. u \in Seq(Range(u)) BY <1>1, <1>2 DEF Range
<1>4. \A i \in DOMAIN u : u[i] \in Range(s) \cup Range(t)
  <2> SUFFICES ASSUME NEW i \in DOMAIN u PROVE u[i] \in Range(s) \cup Range(t) OBVIOUS
  <2>1. CASE i <= Len(s) BY <1>1, <1>2, <2>1 DEF Range
  <2>2. CASE i > Len(s)
    <3>1. i - Len(s) \in DOMAIN t /\ u[i] = t[i - Len(s)] BY <1>1, <1>2, <2>2
    <3> QED BY <3>1 DEF Range
  <2> QED BY <1>1, <1>2, <2>1, <2>2
<1>5. \A i \in DOMAIN s : i \in DOMAIN u /\ u[i] = s[i] BY <1>1, <1>2
<1>6. \A i \in DOMAIN t : i + Len(s) \in DOMAIN u /\ u[i + Len(s)] = t[i] BY <1>1, <1>2
<1>7. Range(u) = Range(s) \cup Range(t) BY <1>4, <1>5, <1>6 DEF Range
<1> QED BY <1>3, <1>7 DEF u

(* The resources of products. *)
LEMMA ResourcesAre ==
  ASSUME NEW apps, NEW products, AreProducts(apps, products), NEW plain,
         plain = [i \in DOMAIN products |-> products[i].resource]
  PROVE  plain \in Seq(Range(plain)) /\ Range(plain) = {p.resource : p \in Range(products)}
<1>1. products \in Seq(Range(products)) BY DEF AreProducts
<1>2. DOMAIN products = 1..Len(products) /\ Len(products) \in Nat BY <1>1
<1> QED BY <1>2 DEF Range

(* No rule is about another one's target, or about nothing.                  *)
LEMMA RulesApply ==
  ASSUME NEW resources, NEW rules, RuleErrors(resources, rules) = {}, IsRuleList(rules)
  PROVE  /\ DuplicateIdls(resources) = {}
         /\ \A x, y \in Range(rules) : x.target = y.target => x = y
         /\ \A x \in Range(rules) : x.target \in Idls(resources)
<1>1. DOMAIN rules = 1..Len(rules) /\ Len(rules) \in Nat
  <2>1. rules \in Seq(Range(rules)) BY DEF IsRuleList
  <2> QED BY <2>1
<1>2. DuplicateIdls(resources) = {} BY DEF RuleErrors
<1>4. {x \in Range(rules) : x.target \notin Idls(resources)} = {} BY DEF RuleErrors
<1>5. \A i, k \in DOMAIN rules : k < i => rules[k].target # rules[i].target
  <2> SUFFICES ASSUME NEW i \in DOMAIN rules, NEW k \in DOMAIN rules, k < i,
                      rules[k].target = rules[i].target
               PROVE  FALSE
    OBVIOUS
  <2>1. k \in 1..i - 1 BY <1>1
  <2>2. <<"EXT_DUPLICATE_TARGET", rules[i].target>> \in RuleErrors(resources, rules)
    BY <2>1 DEF RuleErrors
  <2> QED BY <2>2
<1>6. \A i, k \in DOMAIN rules : rules[k].target = rules[i].target => i = k BY <1>1, <1>5
<1>7. \A x, y \in Range(rules) : x.target = y.target => x = y BY <1>6 DEF Range
<1> QED BY <1>2, <1>4, <1>7

(* The resource a rule is about, patched. *)
LEMMA PatchedByRule ==
  ASSUME NEW resources, resources \in Seq(Range(resources)), NEW rules, IsRuleList(rules),
         RuleErrors(resources, rules) = {}, NEW rule \in Range(rules),
         \A r \in Range(resources) : IsResource(r),
         NEW r, r = ByIdl(resources, rule.target),
         NEW x, x = PatchResource(r, rule.patch)
  PROVE  /\ r \in Range(resources) /\ r.type \in DOMAIN IdlDomain /\ IdlFor(r) = rule.target
         /\ Address(x) = Address(r) /\ Patched(rules, r, x.config)
<1>1. rule.target \in Idls(resources) BY RulesApply
<1>2. r \in Range(Addressable(resources)) /\ IdlFor(r) = rule.target BY <1>1, ByIdlIs
<1>3. r \in Range(resources) /\ r.type \in DOMAIN IdlDomain BY <1>2, AddressableIs
<1>4. x.config = DeepMerge(r.config, rule.patch) /\ Address(x) = Address(r)
  <2>1. IsResource(r) BY <1>3
  <2> QED BY <2>1 DEF IsResource, Address, PatchResource
<1>5. RulesOf(rules, r) = {rule}
  <2>1. \A y \in Range(rules) : y.target = rule.target => y = rule BY RulesApply
  <2> QED BY <1>2, <1>3, <2>1 DEF RulesOf
<1>6. \A q \in DOMAIN rule.patch : q \in Seq(Range(q)) BY DEF IsRuleList
<1>7. Patched(rules, r, DeepMerge(r.config, rule.patch)) BY <1>5, <1>6, MergedIs
<1> QED BY <1>2, <1>3, <1>4, <1>7

(* result has every resource once more, patched by the rule for it if there  *)
(* is one.                                                                   *)
Reapplied(resources, rules, result) ==
  /\ result \in Seq(Range(result))
  /\ \A x \in Range(result) : \E r \in Range(resources) :
       Address(x) = Address(r) /\ Patched(rules, r, x.config)
  /\ \A r \in Range(resources) : \E x \in Range(result) : Address(x) = Address(r)

(* Such a list is what ApplyRules returns, when there is nothing to complain about. *)
LEMMA RulesApplied ==
  ASSUME NEW resources, resources \in Seq(Range(resources)), NEW rules, IsRuleList(rules),
         RuleErrors(resources, rules) = {}, \A r \in Range(resources) : IsResource(r),
         NEW result, result = ApplyRules(resources, rules).resources
  PROVE  Reapplied(resources, rules, result)
<1> DEFINE patched == [i \in DOMAIN rules |->
                         PatchResource(ByIdl(resources, rules[i].target), rules[i].patch)]
           targets == {r.target : r \in Range(rules)}
           untouched == {r \in Range(resources) : r.type \notin DOMAIN IdlDomain \/ IdlFor(r) \notin targets}
           rest == Only(resources, untouched)
<1>1. result = patched \o rest BY DEF ApplyRules
<1>2. DOMAIN rules = 1..Len(rules) /\ Len(rules) \in Nat
  <2>1. rules \in Seq(Range(rules)) BY DEF IsRuleList
  <2> QED BY <2>1
<1>3. ASSUME NEW i \in DOMAIN rules
      PROVE  /\ ByIdl(resources, rules[i].target) \in Range(resources)
             /\ ByIdl(resources, rules[i].target).type \in DOMAIN IdlDomain
             /\ IdlFor(ByIdl(resources, rules[i].target)) = rules[i].target
             /\ Address(patched[i]) = Address(ByIdl(resources, rules[i].target))
             /\ Patched(rules, ByIdl(resources, rules[i].target), patched[i].config)
  <2> DEFINE rule == rules[i]
             r == ByIdl(resources, rule.target)
             x == patched[i]
  <2>1. x = PatchResource(r, rule.patch) OBVIOUS
  <2>2. rule \in Range(rules) BY DEF Range
  <2>3. r = ByIdl(resources, rule.target) OBVIOUS
  <2> HIDE DEF rule, r, x
  <2>4. /\ r \in Range(resources) /\ r.type \in DOMAIN IdlDomain /\ IdlFor(r) = rule.target
        /\ Address(x) = Address(r) /\ Patched(rules, r, x.config)
    BY <2>1, <2>2, <2>3, PatchedByRule
  <2> QED BY <2>4 DEF r, rule, x
<1>4. patched \in Seq(Range(patched)) /\ DOMAIN patched = DOMAIN rules
  <2> DEFINE f(i) == PatchResource(ByIdl(resources, rules[i].target), rules[i].patch)
  <2>1. patched = [i \in 1..Len(rules) |-> f(i)] BY <1>2
  <2> HIDE DEF f, patched
  <2>2. DOMAIN patched = 1..Len(rules) /\ patched = [i \in 1..Len(rules) |-> patched[i]] BY <2>1
  <2>3. \A i \in 1..Len(rules) : patched[i] \in Range(patched) BY <2>2 DEF Range
  <2> QED BY <1>2, <2>2, <2>3
<1>5. rest \in Seq(Range(resources)) /\ Range(rest) = Range(resources) \cap untouched BY OnlyIs
<1>6. \A r \in untouched : r \in Range(resources) /\ RulesOf(rules, r) = {} BY DEF RulesOf
<1>7. ASSUME NEW r \in Range(resources), r \notin untouched
      PROVE  \E i \in DOMAIN rules : r = ByIdl(resources, rules[i].target)
  <2>1. r.type \in DOMAIN IdlDomain /\ IdlFor(r) \in targets BY <1>7
  <2>2. PICK i \in DOMAIN rules : rules[i].target = IdlFor(r) BY <2>1 DEF Range
  <2> DEFINE s == ByIdl(resources, rules[i].target)
  <2>3. s \in Range(resources) /\ s.type \in DOMAIN IdlDomain /\ IdlFor(s) = IdlFor(r) BY <1>3, <2>2
  <2> HIDE DEF s
  <2>4. r \in Range(Addressable(resources)) /\ s \in Range(Addressable(resources))
    BY <2>1, <2>3, AddressableIs
  <2>5. DuplicateIdls(resources) = {} BY RulesApply
  <2>6. r = s BY <2>3, <2>4, <2>5, IdlsUnique
  <2> QED BY <2>6 DEF s
<1> HIDE DEF patched, rest, untouched
<1>8. result \in Seq(Range(result)) /\ Range(result) = Range(patched) \cup Range(rest)
  BY <1>1, <1>4, <1>5, Joined
<1>9. ASSUME NEW x \in Range(result)
      PROVE  \E r \in Range(resources) : Address(x) = Address(r) /\ Patched(rules, r, x.config)
  <2>1. CASE x \in Range(patched)
    <3>1. PICK i \in DOMAIN rules : x = patched[i] BY <1>4, <2>1 DEF Range
    <3> QED BY <1>3, <3>1
  <2>2. CASE x \in Range(rest)
    <3>1. x \in Range(resources) /\ RulesOf(rules, x) = {} BY <1>5, <1>6, <2>2
    <3> QED BY <3>1, UnpatchedIs
  <2> QED BY <1>8, <2>1, <2>2
<1>10. ASSUME NEW r \in Range(resources) PROVE \E x \in Range(result) : Address(x) = Address(r)
  <2>1. CASE r \in untouched BY <1>5, <1>8, <2>1
  <2>2. CASE r \notin untouched
    <3>1. PICK i \in DOMAIN rules : r = ByIdl(resources, rules[i].target) BY <1>7, <2>2
    <3>2. patched[i] \in Range(result) BY <1>4, <1>8 DEF Range
    <3> QED BY <1>3, <3>1, <3>2
  <2> QED BY <2>1, <2>2
<1> QED BY <1>8, <1>9, <1>10 DEF Reapplied

(* What Grouped returns. *)
LEMMA GroupedIs ==
  ASSUME NEW apps, NEW products, AreProducts(apps, products), NEW rules,
         IsRuleList(rules), NEW grouped, grouped = Grouped(products, rules), grouped.errors = {}
  PROVE  Regrouped(grouped.products, products, rules)
<1> DEFINE plain == [i \in DOMAIN products |-> products[i].resource]
<1>1. products \in Seq(Range(products)) BY DEF AreProducts
<1>2. plain \in Seq(Range(plain)) /\ Range(plain) = {p.resource : p \in Range(products)}
  BY ResourcesAre
<1>3. CASE rules = <<>>
  <2>1. grouped.products = products BY <1>3 DEF Grouped
  <2>2. \A p \in Range(products) : Patched(rules, p.resource, p.resource.config)
    <3>1. Range(rules) = {} BY <1>3 DEF Range
    <3>2. \A r : RulesOf(rules, r) = {} BY <3>1 DEF RulesOf
    <3> QED BY <3>2, UnpatchedIs
  <2> QED BY <1>1, <2>1, <2>2 DEF Regrouped
<1>4. CASE rules # <<>>
  <2> DEFINE applied == ApplyRules(plain, rules)
             result == applied.resources
             g == [i \in DOMAIN result |-> [app |-> OwnerOf(products, Address(result[i])), resource |-> result[i]]]
  <2>1. grouped = [errors |-> applied.errors, products |-> g] BY <1>4 DEF Grouped
  <2>2. RuleErrors(plain, rules) = {}
    <3>1. applied.errors = {e[1] : e \in RuleErrors(plain, rules)} BY DEF ApplyRules
    <3> HIDE DEF applied, plain, g
    <3> QED BY <2>1, <3>1
  <2>3. \A r \in Range(plain) : IsResource(r) BY <1>2 DEF AreProducts
  <2>9. result = ApplyRules(plain, rules).resources OBVIOUS
  <2> HIDE DEF plain, applied, result, g
  <2>10. Reapplied(plain, rules, result) BY <1>2, <2>2, <2>3, <2>9, RulesApplied
  <2>4. /\ result \in Seq(Range(result))
        /\ \A x \in Range(result) : \E r \in Range(plain) :
             Address(x) = Address(r) /\ Patched(rules, r, x.config)
        /\ \A r \in Range(plain) : \E x \in Range(result) : Address(x) = Address(r)
    BY <2>10 DEF Reapplied
  <2>5. /\ DOMAIN g = DOMAIN result
        /\ \A i \in DOMAIN g : g[i].app = OwnerOf(products, Address(result[i])) /\ g[i].resource = result[i]
    BY DEF g
  <2>6. g \in Seq(Range(g))
    <3>1. DOMAIN result = 1..Len(result) /\ Len(result) \in Nat BY <2>4
    <3>2. g = [i \in 1..Len(result) |-> g[i]] /\ DOMAIN g = 1..Len(result) BY <3>1 DEF g
    <3>3. \A i \in 1..Len(result) : g[i] \in Range(g) BY <3>2 DEF Range
    <3> QED BY <3>1, <3>2, <3>3
  <2>7. ASSUME NEW q \in Range(g)
        PROVE  /\ \E p \in Range(products) : /\ Address(p.resource) = Address(q.resource)
                                             /\ Patched(rules, p.resource, q.resource.config)
               /\ \E p \in Range(products) : Address(p.resource) = Address(q.resource) /\ p.app = q.app
    <3>1. PICK i \in DOMAIN g : q = g[i] BY DEF Range
    <3>2. result[i] \in Range(result) BY <2>5 DEF Range
    <3>3. PICK p \in Range(products) : /\ Address(result[i]) = Address(p.resource)
                                       /\ Patched(rules, p.resource, result[i].config)
      BY <1>2, <2>4, <3>2
    <3>4. \E x \in Range(products) : /\ Address(x.resource) = Address(p.resource)
                                     /\ x.app = OwnerOf(products, Address(p.resource))
      BY OwnerIs
    <3> QED BY <2>5, <3>1, <3>3, <3>4
  <2>8. ASSUME NEW p \in Range(products) PROVE \E q \in Range(g) : Address(q.resource) = Address(p.resource)
    <3>1. p.resource \in Range(plain) BY <1>2
    <3>2. PICK i \in DOMAIN result : Address(result[i]) = Address(p.resource) BY <2>4, <3>1 DEF Range
    <3>3. g[i] \in Range(g) BY <2>5, <3>2 DEF Range
    <3> QED BY <2>5, <3>2, <3>3
  <2> QED BY <2>1, <2>6, <2>7, <2>8 DEF Regrouped
<1> QED BY <1>3, <1>4

(* The owners are all listed. *)
LEMMA OwnersAre ==
  ASSUME NEW g, g \in Seq(Range(g))
  PROVE  Owners(g) \in Seq(Range(Owners(g))) /\ \A q \in Range(g) : q.app \in Range(Owners(g))
<1> DEFINE places == [i \in DOMAIN g |-> i]
           early == {i \in DOMAIN g : \A j \in 1..(i - 1) : g[j].app # g[i].app}
           first == Only(places, early)
<1>1. Owners(g) = [k \in DOMAIN first |-> g[first[k]].app] BY DEF Owners
<1>2. DOMAIN g = 1..Len(g) /\ Len(g) \in Nat OBVIOUS
<1>3. places \in Seq(DOMAIN g) /\ Range(places) = DOMAIN g BY <1>2 DEF Range
<1> HIDE DEF places
<1>4. first \in Seq(DOMAIN g) /\ Range(first) = DOMAIN g \cap early BY <1>3, OnlyIs
<1> HIDE DEF first, early
<1>5. DOMAIN first = 1..Len(first) /\ Len(first) \in Nat BY <1>4
<1>6. DOMAIN Owners(g) = 1..Len(first) /\ Owners(g) = [i \in 1..Len(first) |-> Owners(g)[i]] BY <1>1, <1>5
<1>7. \A i \in 1..Len(first) : Owners(g)[i] \in Range(Owners(g)) BY <1>6 DEF Range
<1>8. Owners(g) \in Seq(Range(Owners(g))) BY <1>5, <1>6, <1>7
<1>9. ASSUME NEW q \in Range(g) PROVE q.app \in Range(Owners(g))
  <2> DEFINE same == {i \in DOMAIN g : g[i].app = q.app}
  <2>1. same # {} BY DEF Range
  <2>2. PICK m \in same : \A i \in same : ~(<<i, m>> \in OpToRel(<, Nat))
    <3> HIDE DEF same
    <3>1. same \in SUBSET Nat BY <1>2 DEF same
    <3> QED BY <2>1, <3>1, NatLessThanWellFounded, WFMin
  <2>3. m \in DOMAIN g /\ m \in Nat /\ g[m].app = q.app BY <1>2
  <2>4. m \in early
    <3> SUFFICES ASSUME NEW j \in 1..(m - 1), g[j].app = g[m].app PROVE FALSE BY <2>3 DEF early
    <3>1. j \in same /\ j \in Nat /\ j < m BY <1>2, <2>3
    <3>2. <<j, m>> \in OpToRel(<, Nat) BY <2>3, <3>1 DEF OpToRel
    <3> QED BY <2>2, <3>1, <3>2
  <2>5. PICK k \in DOMAIN first : first[k] = m BY <1>4, <2>3, <2>4 DEF Range
  <2>6. Owners(g)[k] = q.app BY <1>1, <2>3, <2>5
  <2> QED BY <1>5, <1>7, <2>5, <2>6
<1> QED BY <1>8, <1>9

-----------------------------------------------------------------------------
(* What is generated: the files. *)

(* held is what app owns.                                                    *)
Owned(g, app, held) ==
  /\ DOMAIN held = {Address(q.resource) : q \in {p \in Range(g) : p.app = app}}
  /\ \A a \in DOMAIN held : \E q \in Range(g) :
       q.app = app /\ Address(q.resource) = a /\ held[a] = q.resource.config

(* An app's file has what the app owns. *)
LEMMA SerializedIs ==
  ASSUME NEW g, g \in Seq(Range(g)), NEW app, NEW held, held = SerializeAppFile(g, app).resources
  PROVE  Owned(g, app, held)
<1> DEFINE own == Only(g, {p \in Range(g) : p.app = app})
           of == [i \in DOMAIN own |-> own[i].resource]
           file == [a \in {Address(r) : r \in Range(of)} |->
                      Last(Only(of, {r \in Range(of) : Address(r) = a})).config]
<1>1. held = file
  <2>1. SerializeAppFile(g, app) = [kind |-> "app", resources |-> file, moved |-> {}, outputs |-> <<>>]
    BY DEF SerializeAppFile, SerializeResources, ResourcesOf
  <2> HIDE DEF file
  <2> QED BY <2>1
<1>2. own \in Seq(Range(g)) /\ Range(own) = {p \in Range(g) : p.app = app} BY OnlyIs
<1> HIDE DEF own
<1>3. DOMAIN own = 1..Len(own) /\ Len(own) \in Nat BY <1>2
<1>4. Range(of) = {q.resource : q \in {p \in Range(g) : p.app = app}}
  <2>1. Range(of) = {q.resource : q \in Range(own)} BY DEF Range
  <2> HIDE DEF of
  <2> QED BY <1>2, <2>1
<1>5. of \in Seq(Range(of))
  <2>1. DOMAIN of = 1..Len(own) /\ of = [i \in 1..Len(own) |-> of[i]] BY <1>3
  <2>2. \A i \in 1..Len(own) : of[i] \in Range(of) BY <2>1 DEF Range
  <2> HIDE DEF of
  <2> QED BY <1>3, <2>1, <2>2
<1> HIDE DEF of
<1>6. DOMAIN held = {Address(q.resource) : q \in {p \in Range(g) : p.app = app}} BY <1>1, <1>4
<1>7. ASSUME NEW a \in DOMAIN held
      PROVE  \E q \in Range(g) : q.app = app /\ Address(q.resource) = a /\ held[a] = q.resource.config
  <2> DEFINE same == {r \in Range(of) : Address(r) = a}
             last == Last(Only(of, same))
  <2>1. PICK r \in Range(of) : Address(r) = a BY <1>1, <1>7
  <2>2. r \in Range(of) \cap same BY <2>1
  <2>3. held[a] = last.config BY <1>1, <1>7
  <2> HIDE DEF same
  <2>4. last \in same BY <1>5, <2>2, EndsOf
  <2>5. last \in Range(of) /\ Address(last) = a BY <2>4 DEF same
  <2> HIDE DEF last
  <2> QED BY <1>4, <2>3, <2>5
<1> QED BY <1>6, <1>7 DEF Owned

(* The files of the owners, and the two others.                              *)
Files(g, own, tree) ==
  /\ tree = [n \in DOMAIN tree |-> tree[n]]
  /\ own \subseteq DOMAIN tree
  /\ \A n \in own : tree[n] = SerializeAppFile(g, n)
  /\ \A n \in DOMAIN tree \ own : tree[n].kind # "app" /\ DOMAIN tree[n].resources = {}

(* These are the files by name. *)
LEMMA FilesAre ==
  ASSUME NEW g, NEW moved, NEW wanted \in BOOLEAN, NEW values, NEW tree,
         tree = GeneratedFiles(g, moved, wanted, values), NEW own, own = {p.app : p \in Range(g)},
         {MovedName, OutputsName} \cap own = {}
  PROVE  Files(g, own, tree)
<1> DEFINE names == own \cup {MovedName : x \in moved} \cup (IF wanted THEN {OutputsName} ELSE {})
           file(n) == IF n = OutputsName /\ wanted THEN OutputsFile(values)
                      ELSE IF n = MovedName /\ moved # {} THEN MovedFile(moved)
                      ELSE SerializeAppFile(g, n)
<1>1. tree = [n \in names |-> file(n)] BY DEF GeneratedFiles
<1>2. own \subseteq names /\ names \subseteq own \cup {MovedName, OutputsName} OBVIOUS
<1>3. \A n \in own : file(n) = SerializeAppFile(g, n) OBVIOUS
<1>4. /\ OutputsFile(values).kind # "app" /\ DOMAIN OutputsFile(values).resources = {}
      /\ MovedFile(moved).kind # "app" /\ DOMAIN MovedFile(moved).resources = {}
  BY DEF OutputsFile, MovedFile
<1>5. \A n \in names \ own : file(n) = OutputsFile(values) \/ file(n) = MovedFile(moved) OBVIOUS
<1> HIDE DEF names, file
<1>6. DOMAIN tree = names /\ tree = [n \in DOMAIN tree |-> tree[n]]
      /\ \A n \in names : tree[n] = file(n)
  BY <1>1
<1> QED BY <1>2, <1>3, <1>4, <1>5, <1>6 DEF Files

(* Every app has a product.                                                  *)
Covered(apps, products) == \A id \in IdsOf(apps) : \E p \in Range(products) : p.app = id

(* GeneratedExactly, of any files.                                           *)
Exact(tree, apps, products, rules) ==
  /\ tree = [n \in DOMAIN tree |-> tree[n]]
  /\ IdsOf(apps) = {n \in DOMAIN tree : tree[n].kind = "app"}
  /\ UNION {DOMAIN tree[n].resources : n \in DOMAIN tree} = {Address(p.resource) : p \in Range(products)}
  /\ \A p \in Range(products) :
       /\ {n \in DOMAIN tree : Address(p.resource) \in DOMAIN tree[n].resources} = {p.app}
       /\ Patched(rules, p.resource, tree[p.app].resources[Address(p.resource)])

(* The files of the regrouped products. *)
LEMMA FiledExactly ==
  ASSUME NEW apps, NEW products, AreProducts(apps, products), Distinct(products), Covered(apps, products),
         {MovedName, OutputsName} \cap IdsOf(apps) = {}, NEW rules, NEW g, Regrouped(g, products, rules),
         NEW moved, NEW wanted \in BOOLEAN, NEW values, NEW tree,
         tree = GeneratedFiles(g, moved, wanted, values)
  PROVE  Exact(tree, apps, products, rules)
<1> DEFINE own == {q.app : q \in Range(g)}
           at(n) == {Address(q.resource) : q \in {p \in Range(g) : p.app = n}}
<1>1. /\ g \in Seq(Range(g))
      /\ \A q \in Range(g) : \E p \in Range(products) :
           /\ q.app = p.app /\ Address(q.resource) = Address(p.resource)
           /\ Patched(rules, p.resource, q.resource.config)
      /\ \A p \in Range(products) : \E q \in Range(g) :
           q.app = p.app /\ Address(q.resource) = Address(p.resource)
  BY DEF Regrouped, Distinct
<1>2. own = IdsOf(apps)
  <2>1. \A p \in Range(products) : p.app \in IdsOf(apps) BY DEF AreProducts
  <2>2. \A id \in IdsOf(apps) : \E p \in Range(products) : p.app = id BY DEF Covered
  <2> QED BY <1>1, <2>1, <2>2
<1>3. /\ tree = [n \in DOMAIN tree |-> tree[n]]
      /\ own \subseteq DOMAIN tree
      /\ \A n \in own : tree[n] = SerializeAppFile(g, n)
      /\ \A n \in DOMAIN tree \ own : tree[n].kind # "app" /\ DOMAIN tree[n].resources = {}
  <2>1. own = {q.app : q \in Range(g)} OBVIOUS
  <2> HIDE DEF own
  <2>2. {MovedName, OutputsName} \cap own = {} BY <1>2
  <2>3. Files(g, own, tree) BY <2>1, <2>2, FilesAre
  <2> QED BY <2>3 DEF Files
<1>4. \A n \in own : tree[n].kind = "app"
  <2>1. \A n : SerializeAppFile(g, n).kind = "app" BY DEF SerializeAppFile
  <2> QED BY <1>3, <2>1
<1>5. ASSUME NEW n \in own
      PROVE  /\ DOMAIN tree[n].resources = at(n)
             /\ \A a \in at(n) : \E q \in Range(g) :
                  q.app = n /\ Address(q.resource) = a /\ tree[n].resources[a] = q.resource.config
  <2> DEFINE held == SerializeAppFile(g, n).resources
  <2>1. tree[n].resources = held BY <1>3
  <2>2. held = SerializeAppFile(g, n).resources OBVIOUS
  <2> HIDE DEF held, own
  <2>3. /\ DOMAIN held = {Address(q.resource) : q \in {p \in Range(g) : p.app = n}}
        /\ \A a \in DOMAIN held : \E q \in Range(g) :
             q.app = n /\ Address(q.resource) = a /\ held[a] = q.resource.config
    <3>1. Owned(g, n, held) BY <1>1, <2>2, SerializedIs
    <3> QED BY <3>1 DEF Owned
  <2> QED BY <2>1, <2>3
<1>6. \A p \in Range(products) : p.app \in own /\ Address(p.resource) \in at(p.app) BY <1>1
<1>7. \A n \in own : \A a \in at(n) : \E p \in Range(products) : p.app = n /\ Address(p.resource) = a
  BY <1>1
<1> HIDE DEF own, at
<1>8. IdsOf(apps) = {n \in DOMAIN tree : tree[n].kind = "app"} BY <1>2, <1>3, <1>4
<1>9. UNION {DOMAIN tree[n].resources : n \in DOMAIN tree} = {Address(p.resource) : p \in Range(products)}
  <2>1. \A n \in DOMAIN tree : \A a : a \in DOMAIN tree[n].resources => n \in own /\ a \in at(n)
    BY <1>3, <1>5
  <2> QED BY <1>3, <1>5, <1>6, <1>7, <2>1
<1>10. ASSUME NEW p \in Range(products)
       PROVE  /\ {n \in DOMAIN tree : Address(p.resource) \in DOMAIN tree[n].resources} = {p.app}
              /\ Patched(rules, p.resource, tree[p.app].resources[Address(p.resource)])
  <2> DEFINE a == Address(p.resource)
  <2>1. p.app \in own /\ p.app \in DOMAIN tree /\ a \in DOMAIN tree[p.app].resources
    BY <1>3, <1>5, <1>6
  <2>2. ASSUME NEW n \in DOMAIN tree, a \in DOMAIN tree[n].resources PROVE n = p.app
    <3>1. n \in own /\ a \in at(n) BY <1>3, <1>5, <2>2
    <3>2. PICK x \in Range(products) : x.app = n /\ Address(x.resource) = a BY <1>7, <3>1
    <3> QED BY <3>2 DEF Distinct
  <2>3. Patched(rules, p.resource, tree[p.app].resources[a])
    <3>1. PICK q \in Range(g) : /\ q.app = p.app /\ Address(q.resource) = a
                                /\ tree[p.app].resources[a] = q.resource.config
      BY <1>5, <1>6
    <3>2. PICK x \in Range(products) : /\ Address(q.resource) = Address(x.resource)
                                       /\ Patched(rules, x.resource, q.resource.config)
      BY <1>1
    <3>3. x = p BY <3>1, <3>2 DEF Distinct
    <3> QED BY <3>1, <3>2, <3>3
  <2> HIDE DEF a
  <2>4. {n \in DOMAIN tree : a \in DOMAIN tree[n].resources} = {p.app} BY <2>1, <2>2
  <2> QED BY <2>3, <2>4 DEF a
<1> QED BY <1>3, <1>8, <1>9, <1>10 DEF Exact

(* All of them are written. *)
LEMMA FilesNamed ==
  ASSUME NEW g, g \in Seq(Range(g)), NEW moved, NEW wanted \in BOOLEAN, NEW values, NEW tree,
         tree = GeneratedFiles(g, moved, wanted, values)
  PROVE  /\ DOMAIN tree \subseteq Range(FileNames(g))
         /\ FileNames(g) \in Seq(Range(FileNames(g)))
<1> DEFINE rest == <<MovedName, OutputsName>>
<1>2. Owners(g) \in Seq(Range(Owners(g))) /\ \A q \in Range(g) : q.app \in Range(Owners(g))
  BY OwnersAre
<1>3. rest \in Seq({MovedName, OutputsName}) /\ Range(rest) = {MovedName, OutputsName} BY DEF Range
<1>4. FileNames(g) = Owners(g) \o rest BY DEF FileNames
<1> HIDE DEF rest
<1>5. FileNames(g) \in Seq(Range(FileNames(g))) /\ Range(FileNames(g)) = Range(Owners(g)) \cup {MovedName, OutputsName}
  BY <1>2, <1>3, <1>4, Joined
<1>6. DOMAIN tree \subseteq {q.app : q \in Range(g)} \cup {MovedName, OutputsName} BY DEF GeneratedFiles
<1> QED BY <1>2, <1>5, <1>6

-----------------------------------------------------------------------------
(* What is generated: the materializers. *)

(* What a materializer returns for an artifact: resources that have what    *)
(* the outputs read and, but for what the artifact itself refers to, what    *)
(* they refer to.                                                            *)
Returned(result, value) ==
  /\ result.resources \in Seq(Range(result.resources)) /\ result.resources # <<>>
  /\ \A r \in Range(result.resources) : IsResource(r)
  /\ \A o \in Range(result.outputs) : \E r \in Range(result.resources) : Address(r) = o.address
  /\ \A r \in Range(result.resources) : \A a \in r.refs :
       (value.kind = "spec" /\ a \in value.refs) \/ \E x \in Range(result.resources) : Address(x) = a

(* One resource, and an output of it. *)
LEMMA OneReturned ==
  ASSUME NEW type, NEW app, NEW config, NEW refs, NEW suffix, NEW result, NEW value,
         result.resources = <<Resource(type, app, config, refs)>>,
         result.outputs = <<Output(app, suffix, type)>>,
         refs = {} \/ (value.kind = "spec" /\ refs = value.refs)
  PROVE  Returned(result, value)
<1> DEFINE r == Resource(type, app, config, refs)
           o == Output(app, suffix, type)
<1>1. IsResource(r) /\ r.refs = refs /\ Address(r) = o.address BY DEF IsResource, Resource, Output, Address
<1> HIDE DEF r, o
<1>2. result.resources = <<r>> /\ result.outputs = <<o>> BY DEF r, o
<1>3. Range(result.resources) = {r} /\ Range(result.outputs) = {o} BY <1>2 DEF Range
<1>4. result.resources \in Seq({r}) /\ result.resources # <<>> BY <1>2
<1> QED BY <1>1, <1>3, <1>4 DEF Returned

(* A bucket, and its objects. *)
LEMMA BucketReturned ==
  ASSUME NEW app, NEW value, NEW tree, NEW result, result = YandexStorageBucket(app, value, tree), result.ok
  PROVE  Returned(result, value)
<1> DEFINE names == Only(FileOrder, tree.files)
           bucket == Resource("yandex_storage_bucket", app, <<"bucket">> :> app, {})
           object(f) == Resource("yandex_storage_object", app \o SanitizeFilename(f),
                                 <<"key">> :> f, {<<"yandex_storage_bucket", app>>})
           objects == [i \in DOMAIN names |-> object(names[i])]
           o == Output(app, <<"bucket", "id">>, "yandex_storage_bucket")
<1>1. result.resources = <<bucket>> \o objects /\ result.outputs = <<o>>
  BY DEF YandexStorageBucket, Failed, Produced
<1>2. /\ IsResource(bucket) /\ Address(bucket) = <<"yandex_storage_bucket", app>> /\ bucket.refs = {}
      /\ o.address = <<"yandex_storage_bucket", app>>
      /\ \A f : IsResource(object(f)) /\ object(f).refs = {<<"yandex_storage_bucket", app>>}
  BY DEF IsResource, Resource, Output, Address
<1> HIDE DEF bucket, object, o
<1>3. FileOrder \in Seq(Range(FileOrder)) BY DefinitionsAssumption
<1>4. names \in Seq(Range(FileOrder)) BY <1>3, OnlyIs
<1> HIDE DEF names
<1>5. DOMAIN names = 1..Len(names) /\ Len(names) \in Nat BY <1>4
<1>6. /\ DOMAIN objects = 1..Len(names) /\ objects = [i \in 1..Len(names) |-> objects[i]]
      /\ \A i \in DOMAIN objects : objects[i] = object(names[i])
  BY <1>5
<1> HIDE DEF objects
<1>7. \A i \in 1..Len(names) : objects[i] \in Range(objects) BY <1>6 DEF Range
<1>8. objects \in Seq(Range(objects)) BY <1>5, <1>6, <1>7
<1>9. \A r \in Range(objects) : \E f : r = object(f) BY <1>6 DEF Range
<1> DEFINE first == <<bucket>>
<1>10. first \in Seq({bucket}) /\ Range(first) = {bucket} BY DEF Range
<1>11. result.resources \in Seq(Range(result.resources)) /\ Range(result.resources) = {bucket} \cup Range(objects)
  <2>1. result.resources = first \o objects BY <1>1
  <2> HIDE DEF first
  <2>2. first \o objects \in Seq(Range(first \o objects)) /\ Range(first \o objects) = Range(first) \cup Range(objects)
    BY <1>8, <1>10, Joined
  <2> QED BY <1>10, <2>1, <2>2, Zenon
<1>12. result.resources # <<>>
  <2>1. bucket \in Range(result.resources) BY <1>11
  <2> QED BY <2>1 DEF Range
<1>13. Range(result.outputs) = {o} BY <1>1 DEF Range
<1> QED BY <1>2, <1>9, <1>11, <1>12, <1>13 DEF Returned

(* Any materializer. *)
LEMMA MaterializedIs ==
  ASSUME NEW package, NEW app, NEW value, NEW tree, NEW result,
         result = Materialize(package, app, value, tree), result.ok
  PROVE  Returned(result, value)
<1>1. CASE result = YandexFunction(app, value, tree)
  <2>1. PICK config : /\ result.resources = <<Resource("yandex_function", app, config, {})>>
                      /\ result.outputs = <<Output(app, <<"function", "id">>, "yandex_function")>>
    BY <1>1 DEF YandexFunction, Failed, Produced
  <2> QED BY <2>1, OneReturned
<1>2. CASE result = YandexServerlessContainer(app, value)
  <2>1. PICK config : /\ result.resources = <<Resource("yandex_serverless_container", app, config, {})>>
                      /\ result.outputs = <<Output(app, <<"container", "id">>, "yandex_serverless_container")>>
    BY <1>2 DEF YandexServerlessContainer, Failed, Produced
  <2> QED BY <2>1, OneReturned
<1>3. CASE result = YandexMessageQueue(app, value)
  <2>1. PICK config : /\ result.resources = <<Resource("yandex_message_queue", app, config, {})>>
                      /\ result.outputs = <<Output(app, <<"queue", "id">>, "yandex_message_queue")>>
    BY <1>3 DEF YandexMessageQueue, Failed, Produced
  <2> QED BY <2>1, OneReturned
<1>4. CASE result = YandexStorageBucket(app, value, tree) BY <1>4, BucketReturned
<1>5. CASE result = YandexApiGateway(app, value)
  <2>1. value.kind = "spec" BY <1>5 DEF YandexApiGateway, Failed
  <2>2. PICK config : /\ result.resources = <<Resource("yandex_api_gateway", app, config, value.refs)>>
                      /\ result.outputs = <<Output(app, <<"gateway", "id">>, "yandex_api_gateway")>>
    BY <1>5, <2>1 DEF YandexApiGateway, Failed, Produced
  <2> QED BY <2>1, <2>2, OneReturned
<1>6. CASE result = Failed BY <1>6 DEF Failed
<1> QED BY <1>1, <1>2, <1>3, <1>4, <1>5, <1>6, Zenon DEF Materialize

-----------------------------------------------------------------------------
(* What is generated: from the store to the files. *)

(* No address is returned twice, and no app has the name of one of the two  *)
(* other files.                                                              *)
Apart ==
  /\ Distinct(cmd.products)
  /\ {MovedName, OutputsName} \cap IdsOf(cmd.model.apps) = {}

(* Every app has a product, or is still to be materialized.                  *)
Collected ==
  /\ AreProducts(cmd.model.apps, cmd.products) /\ IsRuleList(cmd.rules)
  /\ \A id \in IdsOf(cmd.model.apps) :
       id \in Range(cmd.todo) \/ \E p \in Range(cmd.products) : p.app = id

(* Every file is written, or still to be written.                            *)
Pending ==
  /\ cmd.todo \in Seq(Range(cmd.todo))
  /\ \A n \in DOMAIN cmd.output :
       n \in Range(cmd.todo) \/ (n \in DOMAIN infra /\ infra[n] = cmd.output[n])

ExactNow(tree) == Exact(tree, cmd.model.apps, cmd.products, cmd.rules)

GInv ==
  /\ cmd.stage \in {"load", "registry", "select"} => cmd.products = <<>>
  /\ cmd.stage = "materialize" => Collected
  /\ cmd.stage = "write" => Pending
  /\ (cmd.stage = "write" /\ AllApps /\ Apart) => ExactNow(cmd.output)
  /\ (Succeeded("materialize") /\ AllApps /\ Apart) => ExactNow(infra)

(* A command that fails, or is not a materialize. *)
LEMMA FailsG ==
  ASSUME IInv, NEW code, NEW errors, Fail(code, errors), code # 0 \/ cmd.name # "materialize"
  PROVE  GInv'
<1>1. cmd'.stage = "done" /\ cmd'.exit = code /\ cmd'.name = cmd.name BY DEF Fail, IInv, Idle
<1> QED BY <1>1 DEF GInv, Succeeded, Running

(* A command whose products are the same, while the files are. *)
LEMMA SameG ==
  ASSUME GInv, UNCHANGED <<infra, cmd.name, cmd.stage, cmd.exit, cmd.target, cmd.products, cmd.model,
                           cmd.rules, cmd.todo, cmd.output>>
  PROVE  GInv'
  BY DEF GInv, Collected, Pending, ExactNow, Apart, AllApps, Succeeded, Running

(* At the start there are neither products nor files. *)
LEMMA InitG == Init => GInv
  BY DEF Init, GInv, Idle, Succeeded, Running

(* A command starts without products, *)
LEMMA BeginG ==
  ASSUME NEW name \in DOMAIN NextStage, NEW target, NEW dir, NEW validateTf, Begin(name, target, dir, validateTf)
  PROVE  GInv'
<1>1. cmd' = [Idle EXCEPT !.name = name, !.target = target, !.dir = dir,
                          !.validateTf = validateTf, !.stage = "load"]
  BY DEF Begin
<1>2. cmd'.stage = "load" /\ cmd'.products = <<>> BY <1>1 DEF Idle
<1> QED BY <1>2 DEF GInv, Succeeded, Running

(* an edit leaves them alone, *)
LEMMA EditG ==
  ASSUME IInv, GInv, Edit
  PROVE  GInv'
<1>1. cmd' = [cmd EXCEPT !.edited = TRUE] /\ UNCHANGED infra BY DEF Edit, files
<1>2. UNCHANGED <<cmd.name, cmd.stage, cmd.exit, cmd.target, cmd.products, cmd.model,
                  cmd.rules, cmd.todo, cmd.output>>
  BY <1>1 DEF IInv, Idle
<1> QED BY <1>1, <1>2, SameG

(* A check only ends. *)
LEMMA ChecksEnd == CheckProject => \E code, errors : Fail(code, errors)
<1> DEFINE generated  == SetToSeq(LoadGeneratedModel)
           registry   == LoadRegistry(project.builders)
           extensions == ParseExtensions(project.extensions)
           rules      == project.extensions.rules
           document   == ParseMoves(project.moves)
           found ==
             (IF registry.kind = "ok" THEN ValidateBuilders(cmd.model, registry.records) ELSE {})
             \cup (IF extensions = "ok"
                   THEN CheckOverrideTargets(rules, generated) \cup ApplyRules(generated, rules).errors
                        \cup ScanPatchForEnvRefs(rules)
                   ELSE {})
             \cup CheckResourceConsistency(cmd.model, generated)
             \cup (IF ParseOutputs(project.outputs) = "ok"
                   THEN BuildOutputs(generated, project.outputs.entries, <<>>).errors ELSE {})
             \cup (IF document.ok THEN ValidateMoves(document.moves).errors ELSE {})
             \cup ScanSuspiciousKeys(cmd.model)
           verdicts == IF cmd.validateTf /\ found = {} THEN RunTerraformValidate ELSE {{}}
           code(verdict) == IF found \cup verdict = {} THEN 0 ELSE 1
           errors(verdict) == found \cup verdict
<1>1. CheckProject => \E verdict \in verdicts : Fail(code(verdict), errors(verdict)) BY DEF CheckProject
<1> HIDE DEF code, errors, verdicts
<1> QED BY <1>1

(* and so does the end of a command that is interrupted, or is another one. *)
LEMMA EndsG ==
  ASSUME IInv, Interrupt \/ BuildEnds \/ CheckProject
  PROVE  GInv'
<1>1. CASE Interrupt
  <2>1. Fail(130, {}) BY <1>1 DEF Interrupt
  <2> QED BY <2>1, FailsG
<1>2. CASE BuildEnds
  <2>1. Fail(0, {}) /\ cmd.name = "build" BY <1>2 DEF BuildEnds, Running
  <2> QED BY <2>1, FailsG
<1>3. CASE CheckProject
  <2>1. cmd.name = "check" /\ \E code, errors : Fail(code, errors)
    <3>1. cmd.name = "check" BY <1>3 DEF CheckProject, Running
    <3>2. \E code, errors : Fail(code, errors) BY <1>3, ChecksEnd
    <3> QED BY <3>1, <3>2
  <2> QED BY <2>1, FailsG
<1> QED BY <1>1, <1>2, <1>3

(* Before the artifacts are chosen there are no products. *)
LEMMA LoadG ==
  ASSUME IInv, GInv, LoadModel
  PROVE  GInv'
<1> DEFINE model == LoadProjectModel(project, project.env)
<1>1. /\ cmd.stage = "load"
      /\ \/ \E code, errors : code # 0 /\ Fail(code, errors)
         \/ cmd' = [cmd EXCEPT !.model = model, !.stage = NextStage[cmd.name]]
  BY DEF LoadModel
<1>2. CASE \E code, errors : code # 0 /\ Fail(code, errors) BY <1>2, FailsG
<1>3. CASE cmd' = [cmd EXCEPT !.model = model, !.stage = NextStage[cmd.name]]
  <2>1. cmd.name \in {"build", "materialize", "check"} BY <1>1 DEF IInv, NextStage
  <2>2. NextStage[cmd.name] \in {"registry", "check"} BY <2>1 DEF NextStage
  <2> HIDE DEF model
  <2>3. cmd'.stage = NextStage[cmd.name] /\ cmd'.products = cmd.products BY <1>3 DEF IInv, Idle
  <2> QED BY <1>1, <2>2, <2>3 DEF GInv, Succeeded, Running
<1> QED BY <1>1, <1>2, <1>3

(* Nor does loading the plugins make products, *)
LEMMA PluginsG ==
  ASSUME IInv, GInv, LoadPlugins
  PROVE  GInv'
<1> DEFINE records == LoadRegistry(project.builders).records
           order == Only(cmd.model.order, Scope(cmd.model))
<1>1. /\ cmd.stage = "registry"
      /\ \/ \E code, errors : code # 0 /\ Fail(code, errors)
         \/ cmd' = [cmd EXCEPT !.records = records, !.todo = order, !.stage = "build"]
         \/ cmd' = [cmd EXCEPT !.records = records, !.stage = "select"]
  BY DEF LoadPlugins
<1> HIDE DEF records, order
<1>2. CASE \E code, errors : code # 0 /\ Fail(code, errors) BY <1>2, FailsG
<1>3. CASE \/ cmd' = [cmd EXCEPT !.records = records, !.todo = order, !.stage = "build"]
           \/ cmd' = [cmd EXCEPT !.records = records, !.stage = "select"]
  <2>1. cmd'.stage \in {"build", "select"} /\ cmd'.products = cmd.products BY <1>3 DEF IInv, Idle
  <2> QED BY <1>1, <2>1 DEF GInv, Succeeded, Running
<1> QED BY <1>1, <1>2, <1>3

(* or building. *)
LEMMA BuildAppG ==
  ASSUME IInv, BuildApp
  PROVE  GInv'
<1>1. /\ cmd.stage = "build"
      /\ Fail(1, {"CLI_BUILD_FAILED"}) \/ cmd' = [cmd EXCEPT !.todo = Tail(@)]
  BY DEF BuildApp, Running
<1>2. CASE Fail(1, {"CLI_BUILD_FAILED"}) BY <1>2, FailsG
<1>3. CASE cmd' = [cmd EXCEPT !.todo = Tail(@)]
  <2>1. cmd'.stage = "build" BY <1>1, <1>3 DEF IInv, Idle
  <2> QED BY <2>1 DEF GInv, Succeeded, Running
<1> QED BY <1>1, <1>2, <1>3

(* Then every app is to be materialized, *)
LEMMA SelectG ==
  ASSUME IInv, GInv, Select
  PROVE  GInv'
<1> DEFINE extensions == ParseExtensions(project.extensions)
           selected == SelectArtifacts(cmd.model, cmd.records)
           order == DeterministicOrder(cmd.model.apps)
           rules == IF extensions = "ok" THEN project.extensions.rules ELSE <<>>
           artifacts == ReadStore.artifacts
           matches == selected.matches
           to == [cmd EXCEPT !.artifacts = artifacts, !.rules = rules,
                             !.matches = matches, !.todo = order,
                             !.stage = "materialize"]
<1>1. /\ cmd.stage = "select"
      /\ (\E code, errors : code # 0 /\ Fail(code, errors)) \/ cmd' = to
  BY DEF Select, Running
<1>2. CASE \E code, errors : code # 0 /\ Fail(code, errors) BY <1>2, FailsG
<1>3. CASE cmd' = to
  <2>1. IsRuleList(rules)
    <3>1. CASE extensions = "ok"
      <4>1. project.extensions.form = "ok" BY <3>1 DEF ParseExtensions
      <4> QED BY <3>1, <4>1 DEF IInv, IsDefinition
    <3>2. CASE extensions # "ok"
      <4>1. rules = <<>> BY <3>2
      <4> HIDE DEF rules
      <4> QED BY <4>1 DEF IsRuleList, Range
    <3> QED BY <3>1, <3>2
  <2>2. Loaded(cmd.model) BY <1>1 DEF IInv
  <2>3. \A id \in IdsOf(cmd.model.apps) : id \in Range(order)
    <3>1. Topological(cmd.model.apps, order)
      BY <2>2, DefinitionsAssumption, DeterministicTopological DEF Loaded
    <3> HIDE DEF order
    <3> QED BY <3>1 DEF Topological, Range
  <2> HIDE DEF rules, order, artifacts, matches
  <2>4. /\ cmd'.todo = order /\ cmd'.stage = "materialize" /\ cmd'.rules = rules
        /\ cmd'.model = cmd.model /\ cmd'.products = cmd.products
    BY <1>3 DEF IInv, Idle
  <2>5. cmd.products = <<>> BY <1>1 DEF GInv
  <2>6. AreProducts(cmd'.model.apps, cmd'.products) BY <2>4, <2>5 DEF AreProducts, Range
  <2>7. Collected' BY <2>1, <2>3, <2>4, <2>6 DEF Collected
  <2> QED BY <2>4, <2>7 DEF GInv, Succeeded, Running
<1> QED BY <1>1, <1>2, <1>3

(* A list is a list of its own elements. *)
LEMMA ListIs ==
  ASSUME NEW n \in Nat, NEW t, t = [i \in 1..n |-> t[i]]
  PROVE  t \in Seq(Range(t))
<1>1. DOMAIN t = 1..n OBVIOUS
<1>2. \A i \in 1..n : t[i] \in Range(t) BY <1>1 DEF Range
<1> QED BY <1>2

(* The elements of a list are its first, and those of the rest. *)
LEMMA HeadAndTail ==
  ASSUME NEW T, NEW t \in Seq(T), t # <<>>
  PROVE  /\ Head(t) \in Range(t) /\ Range(t) = {Head(t)} \cup Range(Tail(t))
         /\ Tail(t) \in Seq(Range(Tail(t)))
<1> DEFINE u == Tail(t)
<1>1. /\ Len(t) \in Nat /\ Len(t) # 0 /\ DOMAIN t = 1..Len(t) /\ Head(t) = t[1]
      /\ Len(u) = Len(t) - 1 /\ DOMAIN u = 1..Len(u) /\ u = [i \in 1..Len(u) |-> u[i]]
      /\ \A i \in 1..Len(u) : u[i] = t[i + 1]
  <2>1. /\ Len(t) \in Nat /\ Len(t) # 0 /\ DOMAIN t = 1..Len(t) /\ Head(t) = t[1]
        /\ Tail(t) \in Seq(T) /\ Len(Tail(t)) = Len(t) - 1
        /\ \A i \in 1..(Len(t) - 1) : Tail(t)[i] = t[i + 1]
    OBVIOUS
  <2>2. u \in Seq(T) BY <2>1
  <2> HIDE DEF u
  <2>3. DOMAIN u = 1..Len(u) /\ u = [i \in 1..Len(u) |-> u[i]] BY <2>2
  <2> QED BY <2>1, <2>3 DEF u
<1> HIDE DEF u
<1>2. u \in Seq(Range(u))
  <2>1. Len(u) \in Nat BY <1>1
  <2> QED BY <1>1, <2>1, ListIs
<1>3. \A i \in DOMAIN u : u[i] \in Range(t) BY <1>1 DEF Range
<1>4. ASSUME NEW i \in DOMAIN t PROVE t[i] = Head(t) \/ t[i] \in Range(u)
  <2>1. CASE i = 1 BY <1>1, <2>1
  <2>2. CASE i # 1
    <3>1. i - 1 \in DOMAIN u /\ u[i - 1] = t[i] BY <1>1, <2>2
    <3> QED BY <3>1 DEF Range
  <2> QED BY <2>1, <2>2
<1>5. Head(t) \in Range(t) BY <1>1 DEF Range
<1>6. Range(t) = {Head(t)} \cup Range(u) BY <1>3, <1>4, <1>5 DEF Range
<1> QED BY <1>2, <1>5, <1>6 DEF u

(* all is products, and what id returned besides.                            *)
Extended(apps, products, id, resources, all) ==
  /\ AreProducts(apps, all)
  /\ Range(products) \subseteq Range(all)
  /\ \A r \in Range(resources) : \E p \in Range(all) : p.app = id /\ p.resource = r
  /\ \A p \in Range(all) : p \in Range(products) \/ (p.app = id /\ p.resource \in Range(resources))
  /\ \E p \in Range(all) : p.app = id

(* The products of one app more. *)
LEMMA ProductsMore ==
  ASSUME NEW apps, NEW products, AreProducts(apps, products), NEW id \in IdsOf(apps), NEW value,
         NEW result, Returned(result, value), NEW new,
         new = [i \in DOMAIN result.resources |-> [app |-> id, resource |-> result.resources[i]]]
  PROVE  Extended(apps, products, id, result.resources, products \o new)
<1> DEFINE rs == result.resources
           all == products \o new
<1>1. rs \in Seq(Range(rs)) /\ rs # <<>> /\ \A r \in Range(rs) : IsResource(r) BY DEF Returned
<1>2. new = [i \in DOMAIN rs |-> [app |-> id, resource |-> rs[i]]] OBVIOUS
<1> HIDE DEF rs
<1>3. DOMAIN rs = 1..Len(rs) /\ Len(rs) \in Nat /\ Len(rs) # 0 BY <1>1
<1>4. Range(new) = {[app |-> id, resource |-> r] : r \in Range(rs)} BY <1>2 DEF Range
<1>5. DOMAIN new = 1..Len(rs) /\ new = [i \in 1..Len(rs) |-> new[i]] BY <1>2, <1>3
<1>6. new \in Seq(Range(new)) BY <1>3, <1>5, ListIs
<1>7. products \in Seq(Range(products)) /\ \A p \in Range(products) : p.app \in IdsOf(apps) /\ IsResource(p.resource)
  BY DEF AreProducts
<1>8. all \in Seq(Range(all)) /\ Range(all) = Range(products) \cup Range(new) BY <1>6, <1>7, Joined
<1>9. ASSUME NEW p \in Range(new)
      PROVE  p.app \in IdsOf(apps) /\ IsResource(p.resource)
  <2>1. PICK r \in Range(rs) : p = [app |-> id, resource |-> r] BY <1>4
  <2>2. p.app = id /\ p.resource = r BY <2>1
  <2> QED BY <1>1, <2>1, <2>2 DEF rs
<1>10. Range(new) # {}
  <2>1. 1 \in DOMAIN new BY <1>3, <1>5
  <2> QED BY <2>1 DEF Range
<1> HIDE DEF all
<1>11. AreProducts(apps, all) BY <1>7, <1>8, <1>9 DEF AreProducts
<1>12. /\ Range(products) \subseteq Range(all)
       /\ \A r \in Range(rs) : \E p \in Range(all) : p.app = id /\ p.resource = r
       /\ \A p \in Range(all) : p \in Range(products) \/ (p.app = id /\ p.resource \in Range(rs))
       /\ \E p \in Range(all) : p.app = id
  <2>1. \A p \in Range(new) : p.app = id /\ p.resource \in Range(rs) BY <1>4
  <2>2. \A r \in Range(rs) : \E p \in Range(new) : p.app = id /\ p.resource = r
    <3> SUFFICES ASSUME NEW r \in Range(rs) PROVE \E p \in Range(new) : p.app = id /\ p.resource = r
      OBVIOUS
    <3>1. [app |-> id, resource |-> r] \in Range(new) BY <1>4
    <3> QED BY <3>1
  <2> QED BY <1>8, <1>10, <2>1, <2>2
<1> QED BY <1>11, <1>12 DEF Extended, all, rs

(* one after the other, *)
LEMMA MaterializeG ==
  ASSUME IInv, GInv, MaterializeApp
  PROVE  GInv'
<1> DEFINE id == Head(cmd.todo)
           value == Of(cmd.artifacts, id, NoValue)
           tree == Of(dist, id, EmptyDist)
           result == Materialize(cmd.matches[id], id, value, tree)
           new == [i \in DOMAIN result.resources |-> [app |-> id, resource |-> result.resources[i]]]
           products == cmd.products \o new
           auto == Declare(cmd.auto, result.outputs)
           duplicates == cmd.duplicates \/ \E o \in Range(result.outputs), p \in Range(cmd.auto) :
                                                 o.name = p.name
           to == [cmd EXCEPT !.todo = Tail(@), !.products = products, !.auto = auto,
                             !.duplicates = duplicates]
<1>1. /\ cmd.stage = "materialize" /\ cmd.todo # <<>>
      /\ Fail(1, {"MTL_MATERIALIZE_FAILED"}) \/ (result.ok /\ cmd' = to)
  BY DEF MaterializeApp, Running
<1>2. CASE Fail(1, {"MTL_MATERIALIZE_FAILED"}) BY <1>2, FailsG
<1>3. CASE result.ok /\ cmd' = to
  <2>1. Returned(result, value) BY <1>3, MaterializedIs
  <2> HIDE DEF auto, duplicates, value, result, new
  <2>2. /\ cmd'.todo = Tail(cmd.todo) /\ cmd'.stage = "materialize" /\ cmd'.rules = cmd.rules
        /\ cmd'.model = cmd.model /\ cmd'.products = cmd.products \o new
    BY <1>1, <1>3 DEF IInv, Idle
  <2>3. Collected BY <1>1 DEF GInv
  <2>4. /\ AreProducts(cmd.model.apps, cmd.products) /\ IsRuleList(cmd.rules)
        /\ \A i \in IdsOf(cmd.model.apps) :
             i \in Range(cmd.todo) \/ \E p \in Range(cmd.products) : p.app = i
    BY <2>3 DEF Collected
  <2>5. id \in IdsOf(cmd.model.apps) /\ Range(cmd.todo) = {id} \cup Range(Tail(cmd.todo))
    <3>1. cmd.todo \in Seq(IdsOf(cmd.model.apps)) BY <1>1 DEF IInv, Sorted
    <3> DEFINE t == cmd.todo
    <3>2. t \in Seq(IdsOf(cmd.model.apps)) /\ t # <<>> BY <1>1, <3>1
    <3> HIDE DEF t
    <3>3. t \in Seq(Range(t)) /\ Head(t) \in IdsOf(cmd.model.apps) BY <3>2 DEF Range
    <3>4. Range(t) = {Head(t)} \cup Range(Tail(t)) BY <3>2, <3>3, HeadAndTail
    <3> QED BY <3>3, <3>4 DEF t
  <2>6. new = [i \in DOMAIN result.resources |-> [app |-> id, resource |-> result.resources[i]]] BY DEF new
  <2> HIDE DEF id
  <2>7. Extended(cmd.model.apps, cmd.products, id, result.resources, cmd.products \o new)
    BY <2>1, <2>4, <2>5, <2>6, ProductsMore
  <2>8. /\ AreProducts(cmd.model.apps, cmd.products \o new)
        /\ Range(cmd.products) \subseteq Range(cmd.products \o new)
        /\ \E p \in Range(cmd.products \o new) : p.app = id
    BY <2>7 DEF Extended
  <2>9. \A i \in IdsOf(cmd.model.apps) :
          i \in Range(Tail(cmd.todo)) \/ \E p \in Range(cmd.products \o new) : p.app = i
    BY <2>4, <2>5, <2>8
  <2>10. Collected' BY <2>2, <2>4, <2>8, <2>9 DEF Collected
  <2> QED BY <2>2, <2>10 DEF GInv, Succeeded, Running
<1> QED BY <1>1, <1>2, <1>3

(* the files are made of their products, *)
LEMMA GenerateG ==
  ASSUME IInv, GInv, Generate
  PROVE  GInv'
<1> DEFINE grouped   == Grouped(cmd.products, cmd.rules)
           resources == [i \in DOMAIN grouped.products |-> grouped.products[i].resource]
           invalid   == \E r \in Range(resources) : ~ValidAddress(r)
           document  == ParseMoves(project.moves)
           moves     == BuildMoves(MoveEndpoints(resources), IF document.ok THEN document.moves ELSE <<>>)
           moved     == moves.moved
           wanted    == ParseOutputs(project.outputs) = "ok"
           outputs   == BuildOutputs(resources, project.outputs.entries, cmd.auto)
           values    == outputs.values
           all       == GeneratedFiles(grouped.products, moved, wanted, values)
           output    == IF cmd.target = NoTarget THEN all
                        ELSE [n \in {cmd.target} \cap DOMAIN all |-> all[n]]
           names     == FileNames(grouped.products)
           todo      == Only(names, DOMAIN output)
<1>1. /\ cmd.stage = "materialize" /\ cmd.todo = <<>>
      /\ \/ \E code, errors : code # 0 /\ Fail(code, errors)
         \/ /\ grouped.errors = {}
            /\ cmd' = [cmd EXCEPT !.output = output, !.stage = "write", !.todo = todo]
  <2>1. cmd.stage = "materialize" /\ cmd.todo = <<>> BY DEF Generate, Running
  <2>2. IF grouped.errors # {} THEN Fail(1, grouped.errors)
        ELSE IF invalid THEN Fail(1, {"MTL_INVALID_TERRAFORM_ADDRESS"})
        ELSE IF cmd.duplicates THEN Fail(1, {"MTL_OUTPUT_NAME_COLLISION"})
        ELSE IF moves.errors # {} THEN Fail(1, moves.errors)
        ELSE IF wanted /\ outputs.errors # {} THEN Fail(1, outputs.errors)
        ELSE cmd' = [cmd EXCEPT !.output = output, !.stage = "write", !.todo = todo]
    BY DEF Generate
  <2> HIDE DEF grouped, resources, invalid, moves, wanted, outputs, output, todo
  <2>3. \/ \E errors : Fail(1, errors)
        \/ grouped.errors = {} /\ cmd' = [cmd EXCEPT !.output = output, !.stage = "write", !.todo = todo]
    BY <2>2
  <2> QED BY <2>1, <2>3
<1>2. CASE \E code, errors : code # 0 /\ Fail(code, errors) BY <1>2, FailsG
<1>3. CASE /\ grouped.errors = {}
           /\ cmd' = [cmd EXCEPT !.output = output, !.stage = "write", !.todo = todo]
  <2>1. grouped = Grouped(cmd.products, cmd.rules) /\ wanted \in BOOLEAN
        /\ all = GeneratedFiles(grouped.products, moved, wanted, values)
        /\ DOMAIN output \subseteq DOMAIN all
    OBVIOUS
  <2>2. output = all \/ cmd.target # NoTarget OBVIOUS
  <2>3. names = FileNames(grouped.products) /\ todo = Only(names, DOMAIN output) OBVIOUS
  <2> HIDE DEF grouped, moved, wanted, values, all, output, names, todo
  <2>4. /\ cmd'.output = output /\ cmd'.stage = "write" /\ cmd'.todo = todo /\ cmd'.target = cmd.target
        /\ cmd'.model = cmd.model /\ cmd'.products = cmd.products /\ cmd'.rules = cmd.rules
    BY <1>3 DEF IInv, Idle
  <2>5. /\ AreProducts(cmd.model.apps, cmd.products) /\ IsRuleList(cmd.rules)
        /\ Covered(cmd.model.apps, cmd.products)
    <3>1. Range(cmd.todo) = {} BY <1>1 DEF Range
    <3> QED BY <1>1, <3>1 DEF GInv, Collected, Covered
  <2>6. Regrouped(grouped.products, cmd.products, cmd.rules) BY <1>3, <2>1, <2>5, GroupedIs
  <2>7. grouped.products \in Seq(Range(grouped.products)) BY <2>6 DEF Regrouped
  <2>8. DOMAIN all \subseteq Range(names) /\ names \in Seq(Range(names))
    BY <2>1, <2>3, <2>7, FilesNamed
  <2>9. todo \in Seq(Range(todo)) /\ DOMAIN output \subseteq Range(todo)
    <3>1. todo \in Seq(Range(names)) /\ Range(todo) = Range(names) \cap DOMAIN output
      BY <2>3, <2>8, OnlyIs
    <3>2. todo \in Seq(Range(todo)) BY <3>1 DEF Range
    <3> QED BY <2>1, <2>8, <3>1, <3>2
  <2>10. Pending' BY <2>4, <2>9 DEF Pending
  <2>11. (Apart /\ AllApps) => Exact(output, cmd.model.apps, cmd.products, cmd.rules)
    <3> SUFFICES ASSUME Apart, AllApps PROVE Exact(output, cmd.model.apps, cmd.products, cmd.rules)
      OBVIOUS
    <3>1. Distinct(cmd.products) /\ {MovedName, OutputsName} \cap IdsOf(cmd.model.apps) = {} BY DEF Apart
    <3>2. output = all BY <2>2 DEF AllApps
    <3>3. Exact(all, cmd.model.apps, cmd.products, cmd.rules)
      BY <2>1, <2>5, <2>6, <3>1, FiledExactly
    <3> QED BY <3>2, <3>3
  <2>12. (Apart /\ AllApps)' => ExactNow(cmd.output)' BY <2>4, <2>11 DEF ExactNow, Apart, AllApps
  <2> QED BY <2>4, <2>10, <2>12 DEF GInv, Succeeded, Running, ExactNow
<1> QED BY <1>1, <1>2, <1>3

(* and written one after the other, *)
LEMMA WriteG ==
  ASSUME IInv, GInv, WriteFile
  PROVE  GInv'
<1> DEFINE n == Head(cmd.todo)
<1>1. /\ cmd.stage = "write" /\ cmd.todo # <<>>
      /\ infra' = Save(infra, n, cmd.output[n])
      /\ cmd' = [cmd EXCEPT !.todo = Tail(@)]
  BY DEF WriteFile, Running
<1>2. /\ cmd'.todo = Tail(cmd.todo) /\ cmd'.stage = "write" /\ cmd'.output = cmd.output
      /\ cmd'.target = cmd.target /\ cmd'.model = cmd.model /\ cmd'.products = cmd.products
      /\ cmd'.rules = cmd.rules
  BY <1>1 DEF IInv, Idle
<1>3. Pending BY <1>1 DEF GInv
<1>4. Range(cmd.todo) = {n} \cup Range(Tail(cmd.todo)) /\ Tail(cmd.todo) \in Seq(Range(Tail(cmd.todo)))
  BY <1>1, <1>3, HeadAndTail DEF Pending
<1> HIDE DEF n
<1>5. \A k \in DOMAIN infra : k \in DOMAIN infra' /\ (k # n => infra'[k] = infra[k])
  BY <1>1 DEF Save
<1>6. n \in DOMAIN infra' /\ infra'[n] = cmd.output[n] BY <1>1 DEF Save
<1>7. Pending'
  <2>1. ASSUME NEW k \in DOMAIN cmd.output
        PROVE  k \in Range(Tail(cmd.todo)) \/ (k \in DOMAIN infra' /\ infra'[k] = cmd.output[k])
    <3>1. CASE k = n BY <1>6, <3>1
    <3>2. CASE k # n BY <1>3, <1>4, <1>5, <3>2 DEF Pending
    <3> QED BY <3>1, <3>2
  <2> QED BY <1>2, <1>4, <2>1 DEF Pending
<1>8. (AllApps /\ Apart)' => ExactNow(cmd.output)'
  BY <1>1, <1>2 DEF GInv, AllApps, Apart, ExactNow
<1> QED BY <1>2, <1>7, <1>8 DEF GInv, Succeeded, Running

(* until nothing else is there. *)
LEMMA RemoveG ==
  ASSUME IInv, GInv, RemoveStale
  PROVE  GInv'
<1>1. /\ cmd.stage = "write" /\ cmd.todo = <<>> /\ infra' = [n \in DOMAIN cmd.output |-> infra[n]]
      /\ Fail(0, {})
  BY DEF RemoveStale, Running
<1>2. /\ cmd'.stage = "done" /\ cmd'.target = cmd.target /\ cmd'.model = cmd.model
      /\ cmd'.products = cmd.products /\ cmd'.rules = cmd.rules
  BY <1>1 DEF Fail, IInv, Idle
<1>3. infra' = [n \in DOMAIN cmd.output |-> cmd.output[n]]
  <2>1. Range(cmd.todo) = {} BY <1>1 DEF Range
  <2>2. \A n \in DOMAIN cmd.output : infra[n] = cmd.output[n] BY <1>1, <2>1 DEF GInv, Pending
  <2> QED BY <1>1, <2>2
<1>4. (AllApps /\ Apart) => ExactNow(cmd.output) /\ infra' = cmd.output
  BY <1>1, <1>3 DEF GInv, ExactNow, Exact
<1>5. (AllApps /\ Apart)' => ExactNow(infra)'
  BY <1>2, <1>4 DEF AllApps, Apart, ExactNow
<1> QED BY <1>2, <1>5 DEF GInv

(* A step per action. *)
LEMMA NextG == IInv /\ GInv /\ [Next]_vars => GInv'
<1> SUFFICES ASSUME IInv, GInv, [Next]_vars PROVE GInv' OBVIOUS
<1>1. ASSUME NEW name \in DOMAIN NextStage, NEW t \in Targets, NEW dir \in {"infra", ".ycsf"},
             NEW v \in BOOLEAN, Begin(name, t, dir, v)
      PROVE  GInv'
  BY <1>1, BeginG
<1>2. CASE UNCHANGED vars BY <1>2, SameG DEF vars, files
<1> QED BY <1>1, <1>2, EditG, EndsG, LoadG, PluginsG, BuildAppG, SelectG, MaterializeG, GenerateG,
           WriteG, RemoveG DEF Next

(* That is what the property asks. *)
LEMMA ExactIs == GInv => (Apart => GeneratedExactly)
<1> SUFFICES ASSUME GInv, Apart, Succeeded("materialize"), AllApps
             PROVE  /\ IdsOf(cmd.model.apps) = {n \in DOMAIN infra : infra[n].kind = "app"}
                    /\ Generated = {Address(p.resource) : p \in Range(cmd.products)}
                    /\ \A p \in Range(cmd.products) :
                         /\ HomesOf(Address(p.resource)) = {p.app}
                         /\ PatchedAsAsked(p.resource, infra[p.app].resources[Address(p.resource)])
  BY DEF GeneratedExactly
<1>1. Exact(infra, cmd.model.apps, cmd.products, cmd.rules) BY DEF GInv, ExactNow
<1>2. \A r, written : Patched(cmd.rules, r, written) <=> PatchedAsAsked(r, written)
  BY Zenon DEF Patched, PatchedAsAsked, RulesOf, RulesFor
<1> QED BY <1>1, <1>2 DEF Exact, Generated, HomesOf

(* After a materialize that succeeds, every resource a materializer returned   *)
(* is in the file of its app and in no other, with the rules applied to their  *)
(* targets and to nothing else, and no other file is left; unless two          *)
(* resources have one address, or an app is called moved.                      *)
THEOREM GeneratedWhenApart == Spec => [](Apart => GeneratedExactly)
<1>1. Spec => []IInv BY IInvInit, IInvNext, PTL DEF Spec
<1>2. Init /\ []IInv /\ [][Next]_vars => []GInv BY InitG, NextG, PTL
<1>3. GInv => (Apart => GeneratedExactly) BY ExactIs
<1> QED BY <1>1, <1>2, <1>3, PTL DEF Spec

-----------------------------------------------------------------------------
(* Nothing dangles: what the artifacts, the outputs and the files have. *)

(* The one app with an id. *)
LEMMA AppOfIs ==
  ASSUME NEW model, IsAppList(model.apps), NEW a \in Range(model.apps)
  PROVE  AppOf(model, a.id) = a
<1> DEFINE apps == model.apps
           k == CHOOSE i \in DOMAIN apps : apps[i].id = a.id
<1>1. \A i, j \in DOMAIN apps : apps[i].id = apps[j].id => i = j BY DEF IsAppList
<1>2. PICK i \in DOMAIN apps : a = apps[i] BY DEF Range
<1>3. k \in DOMAIN apps /\ apps[k].id = a.id BY <1>2
<1>4. AppOf(model, a.id) = apps[k] BY DEF AppOf
<1> HIDE DEF k, apps
<1> QED BY <1>1, <1>2, <1>3, <1>4

(* What is chosen for an app supports it. *)
LEMMA SelectedIs ==
  ASSUME NEW model, IsAppList(model.apps), NEW records, NEW selected,
         selected = SelectArtifacts(model, records), selected.errors = {}, NEW a \in Range(model.apps)
  PROVE  a.id \in DOMAIN selected.matches /\ Supports[selected.matches[a.id]] = a.builder
<1> DEFINE able(id) == Supporters(model, records, id)
           ids == IdsOf(model.apps)
           one == {i \in ids : \E e \in able(i) : able(i) = {e}}
           none == {i \in ids : able(i) = {}}
           more == {i \in ids : \E d, e \in able(i) : d # e}
           match(id) == records[CHOOSE e \in able(id) : TRUE]
<1>1. /\ selected.errors = {"MTL_UNHANDLED_ARTIFACT" : i \in none} \cup {"MTL_COLLISION" : i \in more}
      /\ selected.matches = [id \in one |-> match(id)]
  BY DEF SelectArtifacts
<1>2. a.id \in ids
  <2>1. PICK i \in DOMAIN model.apps : a = model.apps[i] BY DEF Range
  <2> QED BY <2>1 DEF IdsOf
<1>3. none = {} /\ more = {} BY <1>1
<1>4. \A e \in able(a.id) : Supports[records[e]] = a.builder
  <2>1. AppOf(model, a.id) = a BY AppOfIs
  <2> QED BY <2>1 DEF Supporters
<1> HIDE DEF able, ids
<1>5. able(a.id) # {} /\ \A d, e \in able(a.id) : d = e BY <1>2, <1>3
<1>6. a.id \in one
  <2>1. PICK e : e \in able(a.id) BY <1>5
  <2>2. able(a.id) = {e} BY <1>5, <2>1
  <2> QED BY <1>2, <2>1, <2>2
<1>7. selected.matches[a.id] = match(a.id) /\ a.id \in DOMAIN selected.matches
  <2> HIDE DEF one, match
  <2> QED BY <1>1, <1>6
<1>8. (CHOOSE e \in able(a.id) : TRUE) \in able(a.id) BY <1>5
<1> QED BY <1>4, <1>7, <1>8

(* One of outputs is of the resource that an artifact of a kind turns into.  *)
OutputFor(kind, app, outputs) ==
  /\ outputs \in Seq(Range(outputs))
  /\ \E o \in Range(outputs) : \E type : <<kind, type>> \in ResourceTypes /\ o.address = <<type, app>>

(* Every materializer declares it. *)
LEMMA OutputIs ==
  ASSUME NEW package, NEW app, NEW value, NEW tree, NEW result,
         result = Materialize(package, app, value, tree), result.ok
  PROVE  OutputFor(Supports[package], app, result.outputs)
<1>1. \A suffix, type : Output(app, suffix, type).address = <<type, app>> BY DEF Output
<1>2. ASSUME NEW suffix, NEW type, result.outputs = <<Output(app, suffix, type)>>,
             <<Supports[package], type>> \in ResourceTypes
      PROVE  OutputFor(Supports[package], app, result.outputs)
  <2> DEFINE o == Output(app, suffix, type)
  <2>1. o.address = <<type, app>> BY <1>1
  <2> HIDE DEF o
  <2>2. result.outputs = <<o>> BY <1>2 DEF o
  <2>3. Range(result.outputs) = {o} /\ result.outputs \in Seq({o}) BY <2>2 DEF Range
  <2> QED BY <1>2, <2>1, <2>3 DEF OutputFor
<1>3. CASE Supports[package] = "ycforge:function"
  <2>1. result = YandexFunction(app, value, tree) BY <1>3 DEF Materialize
  <2>2. result.outputs = <<Output(app, <<"function", "id">>, "yandex_function")>>
    BY <2>1 DEF YandexFunction, Failed, Produced
  <2> QED BY <1>2, <1>3, <2>2 DEF ResourceTypes
<1>4. CASE Supports[package] = "ycforge:docker-image"
  <2>1. result = YandexServerlessContainer(app, value) BY <1>4 DEF Materialize
  <2>2. result.outputs = <<Output(app, <<"container", "id">>, "yandex_serverless_container")>>
    BY <2>1 DEF YandexServerlessContainer, Failed, Produced
  <2> QED BY <1>2, <1>4, <2>2 DEF ResourceTypes
<1>5. CASE Supports[package] = "ycforge:queue"
  <2>1. result = YandexMessageQueue(app, value) BY <1>5 DEF Materialize
  <2>2. result.outputs = <<Output(app, <<"queue", "id">>, "yandex_message_queue")>>
    BY <2>1 DEF YandexMessageQueue, Failed, Produced
  <2> QED BY <1>2, <1>5, <2>2 DEF ResourceTypes
<1>6. CASE Supports[package] = "ycforge:frontend"
  <2>1. result = YandexStorageBucket(app, value, tree) BY <1>6 DEF Materialize
  <2>2. result.outputs = <<Output(app, <<"bucket", "id">>, "yandex_storage_bucket")>>
    BY <2>1 DEF YandexStorageBucket, Failed, Produced
  <2> QED BY <1>2, <1>6, <2>2 DEF ResourceTypes
<1>7. CASE Supports[package] = "ycforge:api-gateway"
  <2>1. result = YandexApiGateway(app, value) BY <1>7 DEF Materialize
  <2>2. result.outputs = <<Output(app, <<"gateway", "id">>, "yandex_api_gateway")>>
    BY <2>1 DEF YandexApiGateway, Failed, Produced
  <2> QED BY <1>2, <1>7, <2>2 DEF ResourceTypes
<1>8. CASE Supports[package] \notin {"ycforge:function", "ycforge:docker-image", "ycforge:queue",
                                     "ycforge:frontend", "ycforge:api-gateway"}
  <2>1. result = Failed BY <1>8 DEF Materialize
  <2> QED BY <2>1 DEF Failed
<1> QED BY <1>3, <1>4, <1>5, <1>6, <1>7, <1>8, Zenon

(* Every output is read from a resource, or from where auto has it.          *)
ReadFrom(outputs, resources, auto) ==
  \A n \in DOMAIN outputs.values :
    \/ \E r \in Range(resources) : outputs.values[n] = Address(r)
    \/ \E o \in Range(auto) : outputs.values[n] = o.address

(* What an output is read from. *)
LEMMA OutputsReadable ==
  ASSUME NEW resources, resources \in Seq(Range(resources)), NEW entries, NEW auto, NEW outputs,
         outputs = BuildOutputs(resources, entries, auto), outputs.errors = {}
  PROVE  ReadFrom(outputs, resources, auto)
<1> SUFFICES ASSUME NEW n \in DOMAIN outputs.values
             PROVE  \/ \E r \in Range(resources) : outputs.values[n] = Address(r)
                    \/ \E o \in Range(auto) : outputs.values[n] = o.address
  BY DEF ReadFrom
<1> DEFINE user(e) == <<TypeOfDomain(e.ref[1]), e.ref[2]>>
           names == {e.name : e \in Range(entries)} \cup {o.name : o \in Range(auto)}
           ofUser == CHOOSE e \in Range(entries) : e.name = n
           ofAuto == CHOOSE o \in Range(auto) : o.name = n
           errors == UserErrors(resources, entries) \cup AutoErrors(entries, auto)
           value(m) == IF \E e \in Range(entries) : e.name = m
                       THEN user(CHOOSE e \in Range(entries) : e.name = m)
                       ELSE (CHOOSE o \in Range(auto) : o.name = m).address
<1>1. outputs.errors = errors /\ outputs.values = IF errors # {} THEN <<>> ELSE [m \in names |-> value(m)]
  BY DEF BuildOutputs
<1>2. errors = {} /\ n \in names /\ outputs.values[n] = value(n)
  <2> HIDE DEF errors, names, value
  <2> QED BY <1>1
<1>3. CASE \E e \in Range(entries) : e.name = n
  <2>1. ofUser \in Range(entries) /\ outputs.values[n] = user(ofUser) BY <1>2, <1>3
  <2> HIDE DEF ofUser
  <2>2. UserErrors(resources, entries) = {} BY <1>2
  <2>3. ~Reserved(ofUser.name) BY <2>1, <2>2 DEF UserErrors
  <2>4. ReferenceError(resources, ofUser.ref) = "none" BY <2>1, <2>2, <2>3 DEF UserErrors
  <2>5. <<ofUser.ref[1], ofUser.ref[2]>> \in Idls(resources) BY <2>4 DEF ReferenceError
  <2>6. PICK r \in Range(Addressable(resources)) : IdlFor(r) = <<ofUser.ref[1], ofUser.ref[2]>>
    BY <2>5 DEF Idls
  <2>7. r \in Range(resources) /\ r.type \in DOMAIN IdlDomain BY <2>6, AddressableIs
  <2>8. IdlDomain[r.type] = ofUser.ref[1] /\ r.name = ofUser.ref[2] BY <2>6 DEF IdlFor
  <2>9. TypeOfDomain(ofUser.ref[1]) = r.type
    <3> DEFINE d == ofUser.ref[1]
               t == CHOOSE x \in DOMAIN IdlDomain : IdlDomain[x] = d
    <3>1. t \in DOMAIN IdlDomain /\ IdlDomain[t] = d BY <2>7, <2>8
    <3>2. TypeOfDomain(d) = t BY DEF TypeOfDomain
    <3> HIDE DEF t, d
    <3>3. t = r.type BY <2>7, <2>8, <3>1, TypesAssumption DEF d
    <3> QED BY <3>2, <3>3 DEF d
  <2> QED BY <2>1, <2>7, <2>8, <2>9 DEF Address
<1>4. CASE ~\E e \in Range(entries) : e.name = n
  <2>1. \E o \in Range(auto) : o.name = n BY <1>2, <1>4
  <2>2. ofAuto \in Range(auto) BY <2>1
  <2>3. outputs.values[n] = ofAuto.address BY <1>2, <1>4
  <2> QED BY <2>2, <2>3
<1> QED BY <1>3, <1>4

(* The addresses of products, and those in some files.                       *)
AddressesOf(products) == {Address(p.resource) : p \in Range(products)}
Held(tree) == UNION {DOMAIN tree[n].resources : n \in DOMAIN tree}

(* What the outputs of some files are read from is in the files.             *)
Readable(tree) ==
  OutputsName \in DOMAIN tree =>
    \A n \in DOMAIN tree[OutputsName].outputs : tree[OutputsName].outputs[n] \in Held(tree)

(* No app has the name of one of the two other files. *)
NamesFree == {MovedName, OutputsName} \cap Range(Alphabet) = {}

(* The files of the regrouped products have all addresses. *)
LEMMA HeldIs ==
  ASSUME NEW products, NEW rules, NEW g, Regrouped(g, products, rules), NEW moved, NEW wanted \in BOOLEAN,
         NEW values, NEW tree, tree = GeneratedFiles(g, moved, wanted, values),
         {MovedName, OutputsName} \cap {p.app : p \in Range(g)} = {}
  PROVE  /\ AddressesOf(products) \subseteq Held(tree)
         /\ tree = [n \in DOMAIN tree |-> tree[n]]
<1> DEFINE own == {p.app : p \in Range(g)}
<1>1. own = {p.app : p \in Range(g)} OBVIOUS
<1>2. g \in Seq(Range(g)) /\ \A p \in Range(products) : \E q \in Range(g) : Address(q.resource) = Address(p.resource)
  BY DEF Regrouped
<1> HIDE DEF own
<1>3. {MovedName, OutputsName} \cap own = {} BY <1>1
<1>4. Files(g, own, tree) BY <1>1, <1>3, FilesAre
<1>5. /\ tree = [n \in DOMAIN tree |-> tree[n]]
      /\ \A n \in own : n \in DOMAIN tree /\ tree[n] = SerializeAppFile(g, n)
  BY <1>4 DEF Files
<1>6. ASSUME NEW p \in Range(products)
      PROVE  Address(p.resource) \in Held(tree)
  <2>1. PICK q \in Range(g) : Address(q.resource) = Address(p.resource) BY <1>2
  <2> DEFINE n == q.app
             held == SerializeAppFile(g, n).resources
  <2>2. n \in own BY <1>1
  <2>3. held = SerializeAppFile(g, n).resources OBVIOUS
  <2> HIDE DEF held, n
  <2>4. Owned(g, n, held) BY <1>2, <2>3, SerializedIs
  <2>5. Address(q.resource) \in DOMAIN held BY <2>4 DEF Owned, n
  <2>6. n \in DOMAIN tree /\ tree[n].resources = held BY <1>5, <2>2, <2>3
  <2> QED BY <2>1, <2>5, <2>6 DEF Held
<1> QED BY <1>5, <1>6 DEF AddressesOf

(* The outputs are in their file. *)
LEMMA OutputsFiled ==
  ASSUME NEW g, NEW moved, NEW wanted \in BOOLEAN, NEW values, NEW tree,
         tree = GeneratedFiles(g, moved, wanted, values), OutputsName \in DOMAIN tree,
         {MovedName, OutputsName} \cap {p.app : p \in Range(g)} = {}
  PROVE  wanted /\ tree[OutputsName].outputs = values
<1>1. wanted
  <2>1. MovedName # OutputsName BY DEF MovedName, OutputsName
  <2> QED BY <2>1 DEF GeneratedFiles
<1>2. tree[OutputsName] = OutputsFile(values) BY <1>1 DEF GeneratedFiles
<1>3. OutputsFile(values).outputs = values BY DEF OutputsFile
<1> QED BY <1>1, <1>2, <1>3, Zenon

-----------------------------------------------------------------------------
(* Nothing dangles: the inductive invariant. *)

ModelNow == LoadProjectModel(project, project.env)

(* What the composer lets a specification refer to, by address.              *)
Referable(model) == {<<TfType[i[1]], i[2]>> : i \in Identities(model)}

RefsIn(values, model) == \A id \in DOMAIN values : values[id].refs \subseteq Referable(model)

(* What products refer to is among them, or can be referred to.              *)
Closed(products, model) ==
  \A p \in Range(products) : \A a \in p.resource.refs : a \in Referable(model) \/ a \in AddressesOf(products)

(* What app can be referred to by is among the products.                     *)
Stands(products, app) ==
  app.builder \in DOMAIN AppDomain => <<TfType[AppDomain[app.builder]], app.id>> \in AddressesOf(products)

(* As long as the project is what it was.                                    *)
Unedited ==
  /\ (cmd.stage \notin {"load", "done"} \/ Succeeded("materialize")) => cmd.model = ModelNow
  /\ RefsIn(store, ModelNow)
  /\ cmd.stage = "materialize" => RefsIn(cmd.artifacts, ModelNow)
  /\ (cmd.stage \in {"materialize", "write"} \/ Succeeded("materialize")) => Closed(cmd.products, ModelNow)

(* While the apps are materialized.                                          *)
Matched ==
  /\ \A a \in Range(cmd.model.apps) :
       /\ a.id \in DOMAIN cmd.matches /\ Supports[cmd.matches[a.id]] = a.builder
       /\ a.id \in Range(cmd.todo) \/ Stands(cmd.products, a)
  /\ cmd.auto \in Seq(Range(cmd.auto))
  /\ \A o \in Range(cmd.auto) : o.address \in AddressesOf(cmd.products)

AllStand == \A a \in Range(cmd.model.apps) : Stands(cmd.products, a)

(* What is written.                                                          *)
Whole(tree) ==
  /\ tree = [n \in DOMAIN tree |-> tree[n]]
  /\ Readable(tree) /\ AddressesOf(cmd.products) \subseteq Held(tree)

RInv ==
  /\ DOMAIN history = {"whole", "edited"}
  /\ spent.edits \in Nat /\ DOMAIN spent = {"commands", "edits", "faults"}
  /\ spent.edits = 0 => Unedited
  /\ cmd.stage \in {"load", "registry", "select"} => cmd.auto = <<>>
  /\ cmd.stage = "materialize" => Matched
  /\ (cmd.stage = "write" \/ Succeeded("materialize")) => AllStand
  /\ (cmd.stage = "write" /\ AllApps) => Whole(cmd.output)
  /\ (Succeeded("materialize") /\ AllApps) => Whole(infra)
  /\ history.whole => Readable(infra)

(* A step that leaves the project and the files, *)
Quiet ==
  /\ UNCHANGED <<project, infra, history>>
  /\ spent'.edits = spent.edits /\ DOMAIN spent' = DOMAIN spent
  /\ spent.edits = 0 => RefsIn(store', ModelNow)

(* to a command that has no products, or is no success. *)
LEMMA QuietR ==
  ASSUME RInv, Quiet,
         cmd'.stage \in {"load", "registry", "select", "build", "check"}
           \/ (cmd'.stage = "done" /\ (cmd'.exit # 0 \/ cmd'.name # "materialize")),
         (spent.edits = 0 /\ cmd'.stage \notin {"load", "done"}) => cmd'.model = ModelNow,
         cmd'.stage \in {"load", "registry", "select"} => cmd'.auto = <<>>
  PROVE  RInv'
<1>1. ~Succeeded("materialize")' /\ cmd'.stage \notin {"materialize", "write"} BY DEF Succeeded, Running
<1>2. ModelNow' = ModelNow BY DEF Quiet, ModelNow
<1>3. spent.edits = 0 => Unedited'
  <2>1. spent.edits = 0 => RefsIn(store, ModelNow)' BY <1>2 DEF Quiet, RefsIn, Referable, Identities
  <2> QED BY <1>1, <1>2, <2>1 DEF Unedited
<1>4. (history.whole => Readable(infra)) /\ DOMAIN history = {"whole", "edited"}
      /\ spent.edits \in Nat /\ DOMAIN spent = {"commands", "edits", "faults"}
  BY DEF RInv
<1>5. (history.whole => Readable(infra))' BY <1>4 DEF Quiet, Readable, Held
<1> QED BY <1>1, <1>3, <1>4, <1>5 DEF RInv, Quiet

(* A failure of materialize is one. *)
LEMMA FailsR ==
  ASSUME IInv, RInv, Quiet, NEW code, NEW errors, Fail(code, errors), code # 0 \/ cmd.name # "materialize"
  PROVE  RInv'
<1>1. cmd'.stage = "done" /\ cmd'.exit = code /\ cmd'.name = cmd.name BY DEF Fail, IInv, Idle
<1> QED BY <1>1, QuietR

(* Most steps leave the store, and what is spent. *)
LEMMA SameQuiet ==
  ASSUME RInv, UNCHANGED <<project, store, infra, history>>, UNCHANGED spent \/ Faulty
  PROVE  Quiet
<1>1. spent'.edits = spent.edits /\ DOMAIN spent' = DOMAIN spent BY DEF Faulty, RInv
<1>2. spent.edits = 0 => RefsIn(store', ModelNow) BY DEF RInv, Unedited, RefsIn
<1> QED BY <1>1, <1>2 DEF Quiet

(* At the start nothing refers to anything. *)
LEMMA InitR == Init => RInv
<1> SUFFICES ASSUME Init PROVE RInv OBVIOUS
<1>1. /\ store = <<>> /\ cmd.stage = "done" /\ cmd.name = "none"
      /\ history = [whole |-> FALSE, edited |-> FALSE]
      /\ spent = [commands |-> 0, edits |-> 0, faults |-> 0]
  BY DEF Init, Idle
<1>2. Unedited BY <1>1 DEF Unedited, RefsIn, Succeeded, Running
<1> QED BY <1>1, <1>2 DEF RInv, Succeeded, Running

(* A command starts with nothing declared, *)
LEMMA BeginR ==
  ASSUME RInv, NEW name \in DOMAIN NextStage, NEW target, NEW dir, NEW validateTf, Begin(name, target, dir, validateTf)
  PROVE  RInv'
<1>1. /\ cmd' = [Idle EXCEPT !.name = name, !.target = target, !.dir = dir,
                             !.validateTf = validateTf, !.stage = "load"]
      /\ UNCHANGED <<project, store, infra, history>>
      /\ spent' = [spent EXCEPT !.commands = @ + 1]
  BY DEF Begin, files
<1>2. cmd'.stage = "load" /\ cmd'.auto = <<>> BY <1>1 DEF Idle
<1>3. Quiet
  <2>1. spent'.edits = spent.edits /\ DOMAIN spent' = DOMAIN spent BY <1>1 DEF RInv
  <2>2. spent.edits = 0 => RefsIn(store', ModelNow) BY <1>1 DEF RInv, Unedited, RefsIn
  <2> QED BY <1>1, <2>1, <2>2 DEF Quiet
<1> QED BY <1>2, <1>3, QuietR

(* An edit is remembered. *)
LEMMA EditR ==
  ASSUME IInv, RInv, Edit
  PROVE  RInv'
<1>1. /\ cmd' = [cmd EXCEPT !.edited = TRUE] /\ UNCHANGED infra
      /\ history' = [history EXCEPT !.edited = TRUE] /\ spent' = [spent EXCEPT !.edits = @ + 1]
  BY DEF Edit, files
<1>2. /\ UNCHANGED <<cmd.name, cmd.stage, cmd.exit, cmd.target, cmd.products, cmd.model,
                     cmd.rules, cmd.todo, cmd.output>>
      /\ UNCHANGED <<cmd.auto, cmd.matches>>
  BY <1>1 DEF IInv, Idle
<1>3. /\ history'.whole = history.whole /\ DOMAIN history' = DOMAIN history
      /\ spent'.edits = spent.edits + 1 /\ DOMAIN spent' = DOMAIN spent
  BY <1>1 DEF RInv
<1>4. spent'.edits \in Nat /\ spent'.edits # 0 BY <1>3 DEF RInv
<1>5. (cmd.stage = "materialize" => Matched) /\ (cmd.stage = "materialize" => Matched)'
  BY <1>2 DEF RInv, Matched, Stands, AddressesOf
<1>6. Succeeded("materialize")' <=> Succeeded("materialize") BY <1>2 DEF Succeeded, Running
<1>7. ((cmd.stage = "write" \/ Succeeded("materialize")) => AllStand)'
  BY <1>2, <1>6 DEF RInv, AllStand, Stands, AddressesOf
<1>8. ((cmd.stage = "write" /\ AllApps) => Whole(cmd.output))'
  BY <1>2 DEF RInv, Whole, AllApps, Readable, Held, AddressesOf
<1>9. ((Succeeded("materialize") /\ AllApps) => Whole(infra))'
  <2>1. Whole(infra)' <=> Whole(infra) BY <1>1, <1>2 DEF Whole, Readable, Held, AddressesOf
  <2>2. AllApps' <=> AllApps BY <1>2 DEF AllApps
  <2> QED BY <1>6, <2>1, <2>2 DEF RInv
<1>10. (history.whole => Readable(infra))' BY <1>1, <1>3 DEF RInv, Readable, Held
<1>11. (cmd.stage \in {"load", "registry", "select"} => cmd.auto = <<>>)' BY <1>2 DEF RInv
<1>12. DOMAIN history' = {"whole", "edited"} /\ DOMAIN spent' = {"commands", "edits", "faults"} BY <1>3 DEF RInv
<1> QED BY <1>4, <1>5, <1>7, <1>8, <1>9, <1>10, <1>11, <1>12 DEF RInv

(* and leaves the files when it is interrupted, or is another one. *)
LEMMA EndsR ==
  ASSUME IInv, RInv, Interrupt \/ BuildEnds \/ CheckProject
  PROVE  RInv'
<1>1. Quiet BY SameQuiet DEF Interrupt, BuildEnds, CheckProject, files
<1>2. CASE Interrupt
  <2>1. Fail(130, {}) BY <1>2 DEF Interrupt
  <2> QED BY <1>1, <2>1, FailsR
<1>3. CASE BuildEnds
  <2>1. Fail(0, {}) /\ cmd.name = "build" BY <1>3 DEF BuildEnds, Running
  <2> QED BY <1>1, <2>1, FailsR
<1>4. CASE CheckProject
  <2>1. cmd.name = "check" BY <1>4 DEF CheckProject, Running
  <2>2. \E code, errors : Fail(code, errors) BY <1>4, ChecksEnd
  <2> QED BY <1>1, <2>1, <2>2, FailsR
<1> QED BY <1>2, <1>3, <1>4

(* The model is that of the project. *)
LEMMA LoadR ==
  ASSUME IInv, RInv, LoadModel
  PROVE  RInv'
<1>1. /\ cmd.stage = "load"
      /\ \/ \E code, errors : code # 0 /\ Fail(code, errors)
         \/ cmd' = [cmd EXCEPT !.model = ModelNow, !.stage = NextStage[cmd.name]]
  BY DEF LoadModel, ModelNow
<1>2. Quiet BY SameQuiet DEF LoadModel, files
<1>3. CASE \E code, errors : code # 0 /\ Fail(code, errors) BY <1>2, <1>3, FailsR
<1>4. CASE cmd' = [cmd EXCEPT !.model = ModelNow, !.stage = NextStage[cmd.name]]
  <2>1. cmd.name \in {"build", "materialize", "check"} BY <1>1 DEF IInv, NextStage
  <2>2. NextStage[cmd.name] \in {"registry", "check"} BY <2>1 DEF NextStage
  <2>3. cmd'.stage = NextStage[cmd.name] /\ cmd'.model = ModelNow /\ cmd'.auto = cmd.auto
    BY <1>4 DEF IInv, Idle
  <2>4. cmd.auto = <<>> BY <1>1 DEF RInv
  <2> QED BY <1>2, <2>2, <2>3, <2>4, QuietR
<1> QED BY <1>1, <1>3, <1>4

(* Loading the plugins leaves the model. *)
LEMMA PluginsR ==
  ASSUME IInv, RInv, LoadPlugins
  PROVE  RInv'
<1> DEFINE records == LoadRegistry(project.builders).records
           order == Only(cmd.model.order, Scope(cmd.model))
<1>1. /\ cmd.stage = "registry"
      /\ \/ \E code, errors : code # 0 /\ Fail(code, errors)
         \/ cmd' = [cmd EXCEPT !.records = records, !.todo = order, !.stage = "build"]
         \/ cmd' = [cmd EXCEPT !.records = records, !.stage = "select"]
  BY DEF LoadPlugins
<1>2. Quiet BY SameQuiet DEF LoadPlugins, files
<1> HIDE DEF records, order
<1>3. CASE \E code, errors : code # 0 /\ Fail(code, errors) BY <1>2, <1>3, FailsR
<1>4. CASE \/ cmd' = [cmd EXCEPT !.records = records, !.todo = order, !.stage = "build"]
           \/ cmd' = [cmd EXCEPT !.records = records, !.stage = "select"]
  <2>1. cmd'.stage \in {"build", "select"} /\ cmd'.model = cmd.model /\ cmd'.auto = cmd.auto
    BY <1>4 DEF IInv, Idle
  <2>2. cmd.auto = <<>> /\ (spent.edits = 0 => cmd.model = ModelNow) BY <1>1 DEF RInv, Unedited
  <2> QED BY <1>2, <2>1, <2>2, QuietR
<1> QED BY <1>1, <1>3, <1>4

(* What is built refers to what the model has. *)
LEMMA BuildAppR ==
  ASSUME IInv, RInv, BuildApp
  PROVE  RInv'
<1> DEFINE app == AppOf(cmd.model, Head(cmd.todo))
           package == cmd.records[<<"builder", app.builder>>]
           source == project.sources[app.path]
           value == BuiltValue(package, source)
<1>1. /\ cmd.stage = "build" /\ UNCHANGED <<project, infra, history>>
      /\ Fail(1, {"CLI_BUILD_FAILED"}) \/ cmd' = [cmd EXCEPT !.todo = Tail(@)]
      /\ UNCHANGED spent \/ Faulty
      /\ \/ UNCHANGED store
         \/ source.refs \subseteq Identities(cmd.model) /\ store' = Save(store, app.id, value)
  BY DEF BuildApp, Running
<1>2. spent.edits = 0 => cmd.model = ModelNow /\ RefsIn(store, ModelNow) BY <1>1 DEF RInv, Unedited
<1>3. ASSUME source.refs \subseteq Identities(cmd.model)
      PROVE  value.refs \subseteq Referable(cmd.model)
  <2> HIDE DEF package, source
  <2>1. value.refs = {} \/ value.refs = {<<TfType[r[1]], r[2]>> : r \in source.refs} BY DEF BuiltValue
  <2> HIDE DEF value
  <2> QED BY <1>3, <2>1 DEF Referable
<1> HIDE DEF app, value, source
<1>4. spent.edits = 0 => RefsIn(store', ModelNow)
  <2> SUFFICES ASSUME spent.edits = 0 PROVE RefsIn(store', ModelNow) OBVIOUS
  <2>1. CASE UNCHANGED store BY <1>2, <2>1 DEF RefsIn
  <2>2. CASE source.refs \subseteq Identities(cmd.model) /\ store' = Save(store, app.id, value)
    <3>1. value.refs \subseteq Referable(ModelNow) BY <1>2, <1>3, <2>2
    <3>2. \A id \in DOMAIN store' : store'[id] = value \/ (id \in DOMAIN store /\ store'[id] = store[id])
      BY <2>2 DEF Save
    <3> QED BY <1>2, <3>1, <3>2 DEF RefsIn
  <2> QED BY <1>1, <2>1, <2>2
<1>5. spent'.edits = spent.edits /\ DOMAIN spent' = DOMAIN spent BY <1>1 DEF Faulty, RInv
<1>6. Quiet BY <1>1, <1>4, <1>5 DEF Quiet
<1>7. CASE Fail(1, {"CLI_BUILD_FAILED"}) BY <1>6, <1>7, FailsR
<1>8. CASE cmd' = [cmd EXCEPT !.todo = Tail(@)]
  <2>1. cmd'.stage = "build" /\ cmd'.model = cmd.model BY <1>1, <1>8 DEF IInv, Idle
  <2> QED BY <1>2, <1>6, <2>1, QuietR
<1> QED BY <1>1, <1>7, <1>8

(* The artifacts are those of the store, and every app has a materializer for its kind. *)
LEMMA SelectR ==
  ASSUME IInv, GInv, RInv, Select
  PROVE  RInv'
<1> DEFINE extensions == ParseExtensions(project.extensions)
           selected == SelectArtifacts(cmd.model, cmd.records)
           order == DeterministicOrder(cmd.model.apps)
           rules == IF extensions = "ok" THEN project.extensions.rules ELSE <<>>
           matches == selected.matches
           to == [cmd EXCEPT !.artifacts = ReadStore.artifacts, !.rules = rules,
                             !.matches = matches, !.todo = order,
                             !.stage = "materialize"]
<1>1. /\ cmd.stage = "select"
      /\ \/ \E code, errors : code # 0 /\ Fail(code, errors)
         \/ selected.errors = {} /\ cmd' = to
  BY DEF Select, Running
<1>2. UNCHANGED <<project, store, infra, history, spent>> BY DEF Select, files
<1>3. Quiet BY <1>2, SameQuiet
<1>4. CASE \E code, errors : code # 0 /\ Fail(code, errors) BY <1>3, <1>4, FailsR
<1>5. CASE selected.errors = {} /\ cmd' = to
  <2>1. ReadStore.artifacts = store BY DEF ReadStore
  <2>2. selected = SelectArtifacts(cmd.model, cmd.records) OBVIOUS
  <2>3. Loaded(cmd.model) BY <1>1 DEF IInv
  <2>4. Topological(cmd.model.apps, order)
    BY <2>3, DefinitionsAssumption, DeterministicTopological DEF Loaded
  <2> HIDE DEF rules, order, matches, selected
  <2>5. /\ cmd'.todo = order /\ cmd'.stage = "materialize" /\ cmd'.matches = matches
        /\ cmd'.model = cmd.model /\ cmd'.products = cmd.products /\ cmd'.artifacts = store
        /\ cmd'.auto = cmd.auto
    BY <1>5, <2>1 DEF IInv, Idle
  <2>6. cmd.products = <<>> /\ cmd.auto = <<>> BY <1>1 DEF GInv, RInv
  <2>7. ASSUME NEW a \in Range(cmd.model.apps)
        PROVE  a.id \in DOMAIN matches /\ Supports[matches[a.id]] = a.builder /\ a.id \in Range(order)
    <3>1. a.id \in DOMAIN selected.matches /\ Supports[selected.matches[a.id]] = a.builder
      BY <1>5, <2>2, <2>3, SelectedIs DEF Loaded
    <3>2. a.id \in IdsOf(cmd.model.apps) BY DEF IdsOf, Range
    <3>3. a.id \in Range(order) BY <2>4, <3>2 DEF Topological, Range
    <3> QED BY <3>1, <3>3 DEF matches
  <2>8. Matched'
    <3>1. Range(cmd'.auto) = {} /\ cmd'.auto \in Seq(Range(cmd'.auto)) BY <2>5, <2>6 DEF Range
    <3> QED BY <2>5, <2>7, <3>1 DEF Matched
  <2>9. ModelNow' = ModelNow BY <1>2 DEF ModelNow
  <2>10. spent.edits = 0 => Unedited'
    <3> SUFFICES ASSUME spent.edits = 0 PROVE Unedited' OBVIOUS
    <3>1. cmd.model = ModelNow /\ RefsIn(store, ModelNow) BY <1>1 DEF RInv, Unedited
    <3>2. Closed(<<>>, ModelNow) BY DEF Closed, Range
    <3>3. RefsIn(store, ModelNow)' BY <1>2, <2>9, <3>1 DEF RefsIn, Referable, Identities
    <3>4. RefsIn(cmd.artifacts, ModelNow)'
      BY <2>5, <2>9, <3>1 DEF RefsIn, Referable, Identities
    <3>5. Closed(cmd.products, ModelNow)'
      BY <2>5, <2>6, <2>9, <3>2 DEF Closed, Referable, Identities, AddressesOf
    <3> QED BY <2>5, <2>9, <3>1, <3>3, <3>4, <3>5 DEF Unedited
  <2>11. (history.whole => Readable(infra))' BY <1>2 DEF RInv, Readable, Held
  <2>12. UNCHANGED <<history, spent>> /\ RInv BY <1>2
  <2> QED BY <2>5, <2>8, <2>10, <2>11, <2>12 DEF RInv, Succeeded, Running
<1> QED BY <1>1, <1>4, <1>5

(* The outputs declared, and those that are new. *)
LEMMA DeclaredIs ==
  ASSUME NEW auto, auto \in Seq(Range(auto)), NEW outputs, outputs \in Seq(Range(outputs)), NEW all,
         all = Declare(auto, outputs)
  PROVE  all \in Seq(Range(all)) /\ Range(all) \subseteq Range(auto) \cup Range(outputs)
<1> DEFINE fresh == {o \in Range(outputs) : \A p \in Range(auto) : p.name # o.name}
           new == Only(outputs, fresh)
<1>1. all = auto \o new BY DEF Declare
<1> HIDE DEF fresh
<1>2. new \in Seq(Range(outputs)) /\ Range(new) \subseteq Range(outputs) BY OnlyIs
<1> HIDE DEF new
<1>3. auto \o new \in Seq(Range(auto \o new)) /\ Range(auto \o new) = Range(auto) \cup Range(new)
  BY <1>2, Joined
<1> QED BY <1>1, <1>2, <1>3, Zenon

(* What an app turns into stands for it, and refers to what the artifact does. *)
LEMMA MoreStands ==
  ASSUME NEW apps, NEW products, NEW app, NEW all, NEW result, NEW value, Returned(result, value),
         Extended(apps, products, app.id, result.resources, all),
         OutputFor(app.builder, app.id, result.outputs)
  PROVE  Stands(all, app)
<1> SUFFICES ASSUME app.builder \in DOMAIN AppDomain
             PROVE  <<TfType[AppDomain[app.builder]], app.id>> \in AddressesOf(all)
  BY DEF Stands
<1>1. PICK o \in Range(result.outputs) : \E type :
        <<app.builder, type>> \in ResourceTypes /\ o.address = <<type, app.id>>
  BY DEF OutputFor
<1>2. PICK type : <<app.builder, type>> \in ResourceTypes /\ o.address = <<type, app.id>> BY <1>1
<1>3. PICK r \in Range(result.resources) : Address(r) = o.address BY DEF Returned
<1>4. PICK p \in Range(all) : p.resource = r BY DEF Extended
<1>5. <<app.builder, TfType[AppDomain[app.builder]]>> \in ResourceTypes BY TypesAssumption
<1>6. \A x, s, t : (<<x, s>> \in ResourceTypes /\ <<x, t>> \in ResourceTypes) => s = t BY DEF ResourceTypes
<1>7. TfType[AppDomain[app.builder]] = type BY <1>5, <1>6, <1>2
<1> QED BY <1>3, <1>4, <1>7, <1>2 DEF AddressesOf

(* A value refers to what the composer lets it. *)
Refers(value, model) == value.refs \subseteq Referable(model)

(* and no product refers to anything else. *)
LEMMA MoreClosed ==
  ASSUME NEW apps, NEW products, NEW id, NEW all, NEW result, NEW value, Returned(result, value),
         NEW resources, resources = result.resources,
         Extended(apps, products, id, resources, all), NEW model, Closed(products, model),
         Refers(value, model)
  PROVE  Closed(all, model)
<1> SUFFICES ASSUME NEW p \in Range(all), NEW a \in p.resource.refs
             PROVE  a \in Referable(model) \/ a \in AddressesOf(all)
  BY DEF Closed
<1>1. AddressesOf(products) \subseteq AddressesOf(all) BY DEF AddressesOf, Extended
<1>2. CASE p \in Range(products) BY <1>1, <1>2 DEF Closed
<1>3. CASE p.resource \in Range(result.resources)
  <2>1. a \in value.refs \/ \E x \in Range(result.resources) : Address(x) = a BY <1>3 DEF Returned
  <2>2. \A x \in Range(result.resources) : Address(x) \in AddressesOf(all) BY DEF Extended, AddressesOf
  <2> QED BY <2>1, <2>2 DEF Refers
<1> QED BY <1>2, <1>3 DEF Extended

(* One app after the other stands. *)
LEMMA MaterializeR ==
  ASSUME IInv, GInv, RInv, MaterializeApp
  PROVE  RInv'
<1> DEFINE id == Head(cmd.todo)
           package == cmd.matches[id]
           value == Of(cmd.artifacts, id, NoValue)
           tree == Of(dist, id, EmptyDist)
           result == Materialize(package, id, value, tree)
           new == [i \in DOMAIN result.resources |-> [app |-> id, resource |-> result.resources[i]]]
           products == cmd.products \o new
           auto == Declare(cmd.auto, result.outputs)
           duplicates == cmd.duplicates \/ \E o \in Range(result.outputs), p \in Range(cmd.auto) :
                                                 o.name = p.name
           to == [cmd EXCEPT !.todo = Tail(@), !.products = products, !.auto = auto,
                             !.duplicates = duplicates]
<1>1. /\ cmd.stage = "materialize" /\ cmd.todo # <<>>
      /\ Fail(1, {"MTL_MATERIALIZE_FAILED"}) \/ (result.ok /\ cmd' = to)
  BY DEF MaterializeApp, Running
<1>2. UNCHANGED <<project, store, infra, history, spent>> BY DEF MaterializeApp
<1>3. CASE Fail(1, {"MTL_MATERIALIZE_FAILED"})
  <2>1. Quiet BY <1>2, SameQuiet
  <2> QED BY <1>3, <2>1, FailsR
<1>4. CASE result.ok /\ cmd' = to
  <2>1. Returned(result, value) BY <1>4, MaterializedIs
  <2>2. OutputFor(Supports[package], id, result.outputs) BY <1>4, OutputIs
  <2>3. value = Of(cmd.artifacts, id, NoValue) /\ auto = Declare(cmd.auto, result.outputs)
        /\ new = [i \in DOMAIN result.resources |-> [app |-> id, resource |-> result.resources[i]]]
        /\ products = cmd.products \o new /\ package = cmd.matches[id]
    OBVIOUS
  <2> HIDE DEF auto, duplicates, value, result, new, package, products
  <2>4. /\ cmd'.todo = Tail(cmd.todo) /\ cmd'.stage = "materialize" /\ cmd'.matches = cmd.matches
        /\ cmd'.model = cmd.model /\ cmd'.products = products /\ cmd'.auto = auto
        /\ cmd'.artifacts = cmd.artifacts
    BY <1>1, <1>4 DEF IInv, Idle
  <2>5. Matched BY <1>1 DEF RInv
  <2>6. cmd.todo \in Seq(IdsOf(cmd.model.apps)) BY <1>1 DEF IInv, Sorted
  <2>7. id \in Range(cmd.todo) /\ Range(cmd.todo) = {id} \cup Range(Tail(cmd.todo))
    BY <1>1, <2>6, HeadAndTail
  <2>8. id \in IdsOf(cmd.model.apps) BY <1>1, <2>6
  <2>9. PICK a \in Range(cmd.model.apps) : a.id = id BY <2>8 DEF IdsOf, Range
  <2> HIDE DEF id
  <2>10. AreProducts(cmd.model.apps, cmd.products) BY <1>1 DEF GInv, Collected
  <2>11. Extended(cmd.model.apps, cmd.products, id, result.resources, products)
    BY <2>1, <2>3, <2>8, <2>10, ProductsMore
  <2>12. AddressesOf(cmd.products) \subseteq AddressesOf(products) BY <2>11 DEF AddressesOf, Extended
  <2>13. Supports[package] = a.builder BY <2>3, <2>5, <2>9 DEF Matched
  <2>14. Stands(products, a)
    <3>1. OutputFor(a.builder, a.id, result.outputs) BY <2>2, <2>9, <2>13
    <3>2. Extended(cmd.model.apps, cmd.products, a.id, result.resources, products) BY <2>9, <2>11
    <3> QED BY <2>1, <3>1, <3>2, MoreStands
  <2>15. auto \in Seq(Range(auto)) /\ Range(auto) \subseteq Range(cmd.auto) \cup Range(result.outputs)
    BY <2>2, <2>3, <2>5, DeclaredIs DEF Matched, OutputFor
  <2>16. \A o \in Range(auto) : o.address \in AddressesOf(products)
    <3>1. \A o \in Range(result.outputs) : \E r \in Range(result.resources) : Address(r) = o.address
      BY <2>1 DEF Returned
    <3>2. \A r \in Range(result.resources) : Address(r) \in AddressesOf(products)
      BY <2>11 DEF Extended, AddressesOf
    <3> QED BY <2>5, <2>12, <2>15, <3>1, <3>2 DEF Matched
  <2>17. ASSUME NEW b \in Range(cmd.model.apps)
         PROVE  b.id \in Range(Tail(cmd.todo)) \/ Stands(products, b)
    <3>1. CASE b.id = id
      <4>1. b = a
        <5>1. IsAppList(cmd.model.apps) BY <1>1 DEF IInv, Loaded
        <5>2. AppOf(cmd.model, a.id) = a /\ AppOf(cmd.model, b.id) = b BY <5>1, AppOfIs
        <5> QED BY <2>9, <3>1, <5>2
      <4> QED BY <2>14, <4>1
    <3>2. CASE b.id # id BY <2>5, <2>7, <2>12, <3>2 DEF Matched, Stands
    <3> QED BY <3>1, <3>2
  <2>18. \A b \in Range(cmd.model.apps) : b.id \in DOMAIN cmd.matches /\ Supports[cmd.matches[b.id]] = b.builder
    BY <2>5 DEF Matched
  <2>19. Matched' BY <2>4, <2>15, <2>16, <2>17, <2>18 DEF Matched, Stands, AddressesOf
  <2>20. ModelNow' = ModelNow BY <1>2 DEF ModelNow
  <2>21. spent.edits = 0 => Unedited'
    <3> SUFFICES ASSUME spent.edits = 0 PROVE Unedited' OBVIOUS
    <3>1. /\ cmd.model = ModelNow /\ RefsIn(store, ModelNow) /\ RefsIn(cmd.artifacts, ModelNow)
          /\ Closed(cmd.products, ModelNow)
      BY <1>1 DEF RInv, Unedited
    <3>2. value.refs \subseteq Referable(ModelNow) BY <2>3, <3>1 DEF Of, NoValue, RefsIn
    <3>3. Closed(products, ModelNow)
      <4> DEFINE model == ModelNow
                 apps == cmd.model.apps
                 before == cmd.products
                 more == result.resources
      <4>1. /\ Closed(before, model) /\ Refers(value, model) /\ more = result.resources
            /\ Extended(apps, before, id, more, products)
        BY <2>11, <3>1, <3>2 DEF Refers
      <4> HIDE DEF model, apps, before, more
      <4>2. Closed(products, model) BY <2>1, <4>1, MoreClosed
      <4> QED BY <4>2 DEF model
    <3>4. RefsIn(store, ModelNow)' BY <1>2, <2>20, <3>1 DEF RefsIn, Referable, Identities
    <3>5. RefsIn(cmd.artifacts, ModelNow)'
      BY <2>4, <2>20, <3>1 DEF RefsIn, Referable, Identities
    <3>6. Closed(cmd.products, ModelNow)'
      BY <2>4, <2>20, <3>3 DEF Closed, Referable, Identities, AddressesOf
    <3> QED BY <2>4, <2>20, <3>1, <3>4, <3>5, <3>6 DEF Unedited
  <2>22. (history.whole => Readable(infra))' BY <1>2 DEF RInv, Readable, Held
  <2>23. UNCHANGED <<history, spent>> /\ RInv BY <1>2
  <2> QED BY <2>4, <2>19, <2>21, <2>22, <2>23 DEF RInv, Succeeded, Running
<1> QED BY <1>1, <1>3, <1>4

(* What a generation consists of has what it refers to. *)
LEMMA WholeIs ==
  ASSUME NEW apps, NEW products, AreProducts(apps, products), NEW rules, NEW g,
         Regrouped(g, products, rules), NEW moved, NEW wanted \in BOOLEAN, NEW outputs, NEW values,
         values = outputs.values, NEW resources,
         resources = [i \in DOMAIN g |-> g[i].resource], NEW entries, NEW auto,
         outputs = BuildOutputs(resources, entries, auto), wanted => outputs.errors = {},
         \A o \in Range(auto) : o.address \in AddressesOf(products),
         NEW tree, tree = GeneratedFiles(g, moved, wanted, values),
         {MovedName, OutputsName} \cap IdsOf(apps) = {}
  PROVE  /\ tree = [n \in DOMAIN tree |-> tree[n]]
         /\ Readable(tree) /\ AddressesOf(products) \subseteq Held(tree)
<1>1. {MovedName, OutputsName} \cap {p.app : p \in Range(g)} = {} BY DEF Regrouped, AreProducts
<1>2. /\ AddressesOf(products) \subseteq Held(tree)
      /\ tree = [n \in DOMAIN tree |-> tree[n]]
  BY <1>1, HeldIs
<1>3. Readable(tree)
  <2> SUFFICES ASSUME OutputsName \in DOMAIN tree, NEW n \in DOMAIN tree[OutputsName].outputs
               PROVE  tree[OutputsName].outputs[n] \in Held(tree)
    BY DEF Readable
  <2>1. wanted /\ tree[OutputsName].outputs = values BY <1>1, OutputsFiled
  <2>2. g \in Seq(Range(g)) BY DEF Regrouped
  <2>3. resources \in Seq(Range(resources)) /\ Range(resources) = {p.resource : p \in Range(g)}
    <3>1. DOMAIN g = 1..Len(g) /\ Len(g) \in Nat BY <2>2
    <3> QED BY <3>1 DEF Range
  <2>4. \/ \E r \in Range(resources) : values[n] = Address(r)
        \/ \E o \in Range(auto) : values[n] = o.address
    <3>1. n \in DOMAIN outputs.values /\ outputs.errors = {} BY <2>1
    <3>2. ReadFrom(outputs, resources, auto) BY <2>3, <3>1, OutputsReadable
    <3> QED BY <3>1, <3>2 DEF ReadFrom
  <2>5. values[n] \in AddressesOf(products)
    <3>1. ASSUME NEW r \in Range(resources), values[n] = Address(r)
          PROVE  values[n] \in AddressesOf(products)
      <4>1. PICK q \in Range(g) : q.resource = r BY <2>3
      <4>2. PICK p \in Range(products) : Address(p.resource) = Address(q.resource) BY DEF Regrouped
      <4> QED BY <3>1, <4>1, <4>2 DEF AddressesOf
    <3> QED BY <2>4, <3>1
  <2> QED BY <1>2, <2>1, <2>5
<1> QED BY <1>2, <1>3

(* The files have what the products have. *)
LEMMA GenerateR ==
  ASSUME NamesFree, IInv, GInv, RInv, Generate
  PROVE  RInv'
<1> DEFINE grouped   == Grouped(cmd.products, cmd.rules)
           resources == [i \in DOMAIN grouped.products |-> grouped.products[i].resource]
           invalid   == \E r \in Range(resources) : ~ValidAddress(r)
           document  == ParseMoves(project.moves)
           moves     == BuildMoves(MoveEndpoints(resources), IF document.ok THEN document.moves ELSE <<>>)
           moved     == moves.moved
           wanted    == ParseOutputs(project.outputs) = "ok"
           entries   == project.outputs.entries
           outputs   == BuildOutputs(resources, entries, cmd.auto)
           values    == outputs.values
           all       == GeneratedFiles(grouped.products, moved, wanted, values)
           output    == IF cmd.target = NoTarget THEN all
                        ELSE [n \in {cmd.target} \cap DOMAIN all |-> all[n]]
           todo      == Only(FileNames(grouped.products), DOMAIN output)
<1>1. /\ cmd.stage = "materialize" /\ cmd.todo = <<>>
      /\ \/ \E code, errors : code # 0 /\ Fail(code, errors)
         \/ /\ grouped.errors = {} /\ (wanted => outputs.errors = {})
            /\ cmd' = [cmd EXCEPT !.output = output, !.stage = "write", !.todo = todo]
  <2>1. cmd.stage = "materialize" /\ cmd.todo = <<>> BY DEF Generate, Running
  <2>2. IF grouped.errors # {} THEN Fail(1, grouped.errors)
        ELSE IF invalid THEN Fail(1, {"MTL_INVALID_TERRAFORM_ADDRESS"})
        ELSE IF cmd.duplicates THEN Fail(1, {"MTL_OUTPUT_NAME_COLLISION"})
        ELSE IF moves.errors # {} THEN Fail(1, moves.errors)
        ELSE IF wanted /\ outputs.errors # {} THEN Fail(1, outputs.errors)
        ELSE cmd' = [cmd EXCEPT !.output = output, !.stage = "write", !.todo = todo]
    BY DEF Generate
  <2> HIDE DEF grouped, resources, invalid, moves, wanted, outputs, output, todo
  <2>3. \/ \E errors : Fail(1, errors)
        \/ /\ grouped.errors = {} /\ (wanted => outputs.errors = {})
           /\ cmd' = [cmd EXCEPT !.output = output, !.stage = "write", !.todo = todo]
    BY <2>2
  <2> QED BY <2>1, <2>3
<1>2. UNCHANGED <<project, store, infra, history, spent>> BY DEF Generate, files
<1>3. CASE \E code, errors : code # 0 /\ Fail(code, errors)
  <2>1. Quiet BY <1>2, SameQuiet
  <2> QED BY <1>3, <2>1, FailsR
<1>4. CASE /\ grouped.errors = {} /\ (wanted => outputs.errors = {})
           /\ cmd' = [cmd EXCEPT !.output = output, !.stage = "write", !.todo = todo]
  <2>1. /\ grouped = Grouped(cmd.products, cmd.rules) /\ wanted \in BOOLEAN
        /\ all = GeneratedFiles(grouped.products, moved, wanted, values)
        /\ resources = [i \in DOMAIN grouped.products |-> grouped.products[i].resource]
        /\ outputs = BuildOutputs(resources, entries, cmd.auto) /\ values = outputs.values
    OBVIOUS
  <2>2. cmd.target = NoTarget => output = all OBVIOUS
  <2> HIDE DEF grouped, resources, moved, wanted, entries, outputs, values, all, output, todo
  <2>3. /\ cmd'.output = output /\ cmd'.stage = "write" /\ cmd'.target = cmd.target
        /\ cmd'.model = cmd.model /\ cmd'.products = cmd.products
    BY <1>4 DEF IInv, Idle
  <2>4. AreProducts(cmd.model.apps, cmd.products) /\ IsRuleList(cmd.rules)
    BY <1>1 DEF GInv, Collected
  <2>5. Regrouped(grouped.products, cmd.products, cmd.rules) BY <1>4, <2>1, <2>4, GroupedIs
  <2>6. Matched BY <1>1 DEF RInv
  <2>7. {MovedName, OutputsName} \cap IdsOf(cmd.model.apps) = {}
    <3>1. IsAppList(cmd.model.apps) BY <1>1 DEF IInv, Loaded
    <3>2. IdsOf(cmd.model.apps) \subseteq Range(Alphabet) BY <3>1 DEF IsAppList, IdsOf, Range
    <3> QED BY <3>2 DEF NamesFree
  <2>8. /\ all = [n \in DOMAIN all |-> all[n]]
        /\ Readable(all) /\ AddressesOf(cmd.products) \subseteq Held(all)
    <3> DEFINE auto == cmd.auto
               products == cmd.products
               g == grouped.products
    <3>1. /\ \A o \in Range(auto) : o.address \in AddressesOf(products)
          /\ outputs = BuildOutputs(resources, entries, auto)
      BY <2>1, <2>6 DEF Matched
    <3>2. Regrouped(g, products, cmd.rules) /\ AreProducts(cmd.model.apps, products) BY <2>4, <2>5
    <3>3. /\ resources = [i \in DOMAIN g |-> g[i].resource]
          /\ all = GeneratedFiles(g, moved, wanted, values) /\ values = outputs.values
      BY <2>1
    <3>4. wanted \in BOOLEAN /\ (wanted => outputs.errors = {}) BY <1>4, <2>1
    <3> HIDE DEF auto, products, g
    <3>5. /\ all = [n \in DOMAIN all |-> all[n]]
          /\ Readable(all) /\ AddressesOf(products) \subseteq Held(all)
      BY <2>7, <3>1, <3>2, <3>3, <3>4, WholeIs
    <3> QED BY <3>5 DEF products
  <2>9. (AllApps => Whole(cmd.output))'
    <3>1. AllApps => Whole(all) BY <2>8 DEF Whole
    <3>2. AllApps' => AllApps /\ output = all BY <2>2, <2>3 DEF AllApps
    <3> QED BY <2>3, <3>1, <3>2 DEF Whole, AddressesOf, Readable, Held
  <2>10. AllStand'
    <3>1. Range(cmd.todo) = {} BY <1>1 DEF Range
    <3>2. AllStand BY <2>6, <3>1 DEF Matched, AllStand
    <3> QED BY <2>3, <3>2 DEF AllStand, Stands, AddressesOf
  <2>11. ModelNow' = ModelNow BY <1>2 DEF ModelNow
  <2>12. spent.edits = 0 => Unedited'
    <3> SUFFICES ASSUME spent.edits = 0 PROVE Unedited' OBVIOUS
    <3>1. cmd.model = ModelNow /\ RefsIn(store, ModelNow) /\ Closed(cmd.products, ModelNow)
      BY <1>1 DEF RInv, Unedited
    <3>2. RefsIn(store, ModelNow)' BY <1>2, <2>11, <3>1 DEF RefsIn, Referable, Identities
    <3>3. Closed(cmd.products, ModelNow)'
      BY <2>3, <2>11, <3>1 DEF Closed, Referable, Identities, AddressesOf
    <3> QED BY <2>3, <2>11, <3>1, <3>2, <3>3 DEF Unedited
  <2>13. (history.whole => Readable(infra))' BY <1>2 DEF RInv, Readable, Held
  <2>14. UNCHANGED <<history, spent>> /\ RInv BY <1>2
  <2> QED BY <2>3, <2>9, <2>10, <2>12, <2>13, <2>14 DEF RInv, Succeeded, Running
<1> QED BY <1>1, <1>3, <1>4

(* While it is written nothing changes but the files. *)
LEMMA WriteR ==
  ASSUME IInv, RInv, WriteFile
  PROVE  RInv'
<1>1. /\ cmd.stage = "write" /\ cmd' = [cmd EXCEPT !.todo = Tail(@)]
      /\ history' = [history EXCEPT !.whole = FALSE] /\ UNCHANGED <<project, store, spent>>
  BY DEF WriteFile, Running
<1>2. /\ cmd'.stage = "write" /\ cmd'.output = cmd.output /\ cmd'.target = cmd.target
      /\ cmd'.model = cmd.model /\ cmd'.products = cmd.products
  BY <1>1 DEF IInv, Idle
<1>3. ~history'.whole /\ DOMAIN history' = {"whole", "edited"} BY <1>1 DEF RInv
<1>4. AllStand' BY <1>1, <1>2 DEF RInv, AllStand, Stands, AddressesOf
<1>5. (AllApps => Whole(cmd.output))' BY <1>1, <1>2 DEF RInv, AllApps, Whole, AddressesOf, Readable, Held
<1>6. ModelNow' = ModelNow BY <1>1 DEF ModelNow
<1>7. spent.edits = 0 => Unedited'
  <2> SUFFICES ASSUME spent.edits = 0 PROVE Unedited' OBVIOUS
  <2>1. cmd.model = ModelNow /\ RefsIn(store, ModelNow) /\ Closed(cmd.products, ModelNow)
    BY <1>1 DEF RInv, Unedited
  <2>2. RefsIn(store, ModelNow)' BY <1>1, <1>6, <2>1 DEF RefsIn, Referable, Identities
  <2>3. Closed(cmd.products, ModelNow)'
    BY <1>2, <1>6, <2>1 DEF Closed, Referable, Identities, AddressesOf
  <2> QED BY <1>2, <1>6, <2>1, <2>2, <2>3 DEF Unedited
<1>8. UNCHANGED spent /\ RInv BY <1>1
<1> QED BY <1>2, <1>3, <1>4, <1>5, <1>7, <1>8 DEF RInv, Succeeded, Running

(* When it is, they are the generation. *)
LEMMA RemoveR ==
  ASSUME IInv, GInv, RInv, RemoveStale
  PROVE  RInv'
<1>1. /\ cmd.stage = "write" /\ cmd.todo = <<>> /\ infra' = [n \in DOMAIN cmd.output |-> infra[n]]
      /\ history' = [whole |-> cmd.target = NoTarget, edited |-> cmd.edited]
      /\ Fail(0, {}) /\ UNCHANGED <<project, store, spent>>
  BY DEF RemoveStale, Running
<1>2. /\ cmd'.stage = "done" /\ cmd'.target = cmd.target /\ cmd'.model = cmd.model
      /\ cmd'.products = cmd.products
  BY <1>1 DEF Fail, IInv, Idle
<1>3. infra' = [n \in DOMAIN cmd.output |-> cmd.output[n]]
  <2>1. Range(cmd.todo) = {} BY <1>1 DEF Range
  <2>2. \A n \in DOMAIN cmd.output : infra[n] = cmd.output[n] BY <1>1, <2>1 DEF GInv, Pending
  <2> QED BY <1>1, <2>2
<1>4. AllApps => Whole(cmd.output) /\ infra' = cmd.output BY <1>1, <1>3 DEF RInv, Whole
<1>5. (AllApps => Whole(infra))' BY <1>2, <1>4 DEF AllApps, Whole, AddressesOf, Readable, Held
<1>6. (history.whole => Readable(infra))'
  <2>1. history'.whole => AllApps BY <1>1 DEF AllApps
  <2> QED BY <1>4, <2>1 DEF Whole, Readable, Held
<1>7. DOMAIN history' = {"whole", "edited"} BY <1>1
<1>8. AllStand' BY <1>1, <1>2 DEF RInv, AllStand, Stands, AddressesOf
<1>9. ModelNow' = ModelNow BY <1>1 DEF ModelNow
<1>10. spent.edits = 0 => Unedited'
  <2> SUFFICES ASSUME spent.edits = 0 PROVE Unedited' OBVIOUS
  <2>1. cmd.model = ModelNow /\ RefsIn(store, ModelNow) /\ Closed(cmd.products, ModelNow)
    BY <1>1 DEF RInv, Unedited
  <2>2. RefsIn(store, ModelNow)' BY <1>1, <1>9, <2>1 DEF RefsIn, Referable, Identities
  <2>3. Closed(cmd.products, ModelNow)'
    BY <1>2, <1>9, <2>1 DEF Closed, Referable, Identities, AddressesOf
  <2> QED BY <1>2, <1>9, <2>1, <2>2, <2>3 DEF Unedited
<1>11. UNCHANGED spent /\ RInv BY <1>1
<1> QED BY <1>2, <1>5, <1>6, <1>7, <1>8, <1>10, <1>11 DEF RInv, Succeeded, Running

(* A step per action. *)
LEMMA NextR == NamesFree /\ IInv /\ GInv /\ RInv /\ [Next]_vars => RInv'
<1> SUFFICES ASSUME NamesFree, IInv, GInv, RInv, [Next]_vars PROVE RInv' OBVIOUS
<1>1. ASSUME NEW name \in DOMAIN NextStage, NEW t \in Targets, NEW dir \in {"infra", ".ycsf"},
             NEW v \in BOOLEAN, Begin(name, t, dir, v)
      PROVE  RInv'
  BY <1>1, BeginR
<1>2. CASE UNCHANGED vars
  <2>1. UNCHANGED <<project, store, infra, history, spent, cmd>> BY <1>2 DEF vars, files
  <2>2. ModelNow' = ModelNow BY <2>1 DEF ModelNow
  <2>3. Unedited' <=> Unedited
    BY <2>1, <2>2 DEF Unedited, RefsIn, Closed, Referable, Identities, AddressesOf, Succeeded, Running
  <2>4. Matched' <=> Matched BY <2>1 DEF Matched, Stands, AddressesOf
  <2>5. AllStand' <=> AllStand BY <2>1 DEF AllStand, Stands, AddressesOf
  <2>6. Whole(cmd.output)' <=> Whole(cmd.output) BY <2>1 DEF Whole, Readable, Held, AddressesOf
  <2>7. Whole(infra)' <=> Whole(infra) BY <2>1 DEF Whole, Readable, Held, AddressesOf
  <2>8. Readable(infra)' <=> Readable(infra) BY <2>1 DEF Readable, Held
  <2> QED BY <2>1, <2>3, <2>4, <2>5, <2>6, <2>7, <2>8 DEF RInv, AllApps, Succeeded, Running
<1> QED BY <1>1, <1>2, EditR, EndsR, LoadR, PluginsR, BuildAppR, SelectR, MaterializeR, GenerateR,
           WriteR, RemoveR DEF Next

(* What is referred to is there. *)
LEMMA ResolveIs == RInv => NothingDangles
<1> SUFFICES ASSUME RInv PROVE NothingDangles OBVIOUS
<1>1. Generated = Held(infra) BY DEF Generated, Held
<1>2. OutputsResolve BY <1>1 DEF RInv, OutputsResolve, Readable
<1>3. ReferencesResolve
  <2> SUFFICES ASSUME spent.edits = 0, Succeeded("materialize"), AllApps,
                      NEW p \in Range(cmd.products), NEW a \in p.resource.refs
               PROVE  \/ a \in Generated
                      \/ \E r \in cmd.model.resources : a = <<TfType[r[1]], r[2]>>
    BY DEF ReferencesResolve
  <2>1. Whole(infra) /\ AllStand /\ Unedited BY DEF RInv
  <2>2. cmd.model = ModelNow /\ Closed(cmd.products, ModelNow) BY <2>1 DEF Unedited
  <2>3. AddressesOf(cmd.products) \subseteq Generated BY <1>1, <2>1 DEF Whole
  <2>4. a \in AddressesOf(cmd.products) \/ a \in Referable(cmd.model) BY <2>2 DEF Closed
  <2>5. CASE a \in Referable(cmd.model)
    <3>1. PICK i \in Identities(cmd.model) : a = <<TfType[i[1]], i[2]>> BY <2>5 DEF Referable
    <3>2. CASE i \in cmd.model.resources BY <3>1, <3>2
    <3>3. ASSUME NEW b \in Range(cmd.model.apps), b.builder \in DOMAIN AppDomain,
                 i = <<AppDomain[b.builder], b.id>>
          PROVE  a \in AddressesOf(cmd.products)
      <4>1. Stands(cmd.products, b) BY <2>1 DEF AllStand
      <4>2. a = <<TfType[AppDomain[b.builder]], b.id>> BY <3>1, <3>3
      <4> QED BY <3>3, <4>1, <4>2 DEF Stands
    <3> QED BY <2>3, <3>1, <3>2, <3>3 DEF Identities
  <2> QED BY <2>3, <2>4, <2>5
<1> QED BY <1>2, <1>3 DEF NothingDangles

(* Every output of a generation is read from a resource of the same generation, *)
(* and as long as nobody edits the project what a specification refers to is    *)
(* generated beside it or declared, unless an app can be called as one of the   *)
(* two other files.                                                             *)
THEOREM NothingEverDangles ==
  ASSUME NamesFree
  PROVE  Spec => []NothingDangles
<1>1. Spec => []IInv BY IInvInit, IInvNext, PTL DEF Spec
<1>2. Init /\ []IInv /\ [][Next]_vars => []GInv BY InitG, NextG, PTL
<1>3. IInv /\ GInv /\ RInv /\ [Next]_vars => RInv' BY NextR
<1>4. Init /\ []IInv /\ []GInv /\ [][Next]_vars => []RInv BY <1>3, InitR, PTL
<1>5. RInv => NothingDangles BY ResolveIs
<1> QED BY <1>1, <1>2, <1>4, <1>5, PTL DEF Spec

-----------------------------------------------------------------------------
(* The moves: what a history is, and where its blocks lead. *)

(* The history as a partial function: one entry from, one entry to an endpoint. *)
Mapped(entries, v) ==
  /\ DOMAIN v = {"errors", "out", "into"}
  /\ v.out = [k \in DOMAIN v.out |-> v.out[k]]
  /\ IsFiniteSet(DOMAIN v.out)
  /\ v.into = {v.out[k] : k \in DOMAIN v.out}
  /\ \A k \in DOMAIN v.out : \E e \in entries : e.from = k /\ e.to = v.out[k]
  /\ \A e \in entries : e.from \in DOMAIN v.out /\ v.out[e.from] = e.to
  /\ \A j, k \in DOMAIN v.out : v.out[j] = v.out[k] => j = k

(* An entry that is accepted is one step more of it. *)
LEMMA OneEntryMore ==
  ASSUME NEW entries, NEW seen, DOMAIN seen = {"errors", "out", "into"},
         seen.errors = {} => Mapped(entries, seen), NEW e, AddEntry(seen, e).errors = {}
  PROVE  Mapped(entries \cup {e}, AddEntry(seen, e))
<1> DEFINE error == EntryError(seen, e)
           t == AddEntry(seen, e)
<1>1. error = "none"
  <2> SUFFICES ASSUME error # "none" PROVE FALSE OBVIOUS
  <2>1. t = [seen EXCEPT !.errors = @ \cup {error}] BY DEF AddEntry
  <2>2. error \in t.errors BY <2>1
  <2> QED BY <2>2
<1>2. t = [seen EXCEPT !.out = [k \in DOMAIN @ \cup {e.from} |-> IF k = e.from THEN e.to ELSE @[k]],
                       !.into = @ \cup {e.to}]
  BY <1>1 DEF AddEntry
<1>3. /\ e.from \notin DOMAIN seen.out /\ e.to \notin seen.into
  BY <1>1 DEF EntryError
<1> DEFINE out == [k \in DOMAIN seen.out \cup {e.from} |-> IF k = e.from THEN e.to ELSE seen.out[k]]
<1>4. DOMAIN t = {"errors", "out", "into"} /\ t.errors = seen.errors /\ t.out = out
      /\ t.into = seen.into \cup {e.to}
  BY <1>2
<1>5. /\ DOMAIN out = DOMAIN seen.out \cup {e.from} /\ out = [k \in DOMAIN out |-> out[k]]
      /\ out[e.from] = e.to /\ \A k \in DOMAIN seen.out : out[k] = seen.out[k]
  BY <1>3
<1>6. t.errors = {} OBVIOUS
<1> HIDE DEF out, t, error
<1>7. Mapped(entries, seen) BY <1>4, <1>6
<1>8. IsFiniteSet(DOMAIN out) BY <1>5, <1>7, FS_AddElement DEF Mapped
<1>9. t.into = {out[k] : k \in DOMAIN out} BY <1>4, <1>5, <1>7 DEF Mapped
<1>10. \A k \in DOMAIN out : \E d \in entries \cup {e} : d.from = k /\ d.to = out[k]
  <2> SUFFICES ASSUME NEW k \in DOMAIN out PROVE \E d \in entries \cup {e} : d.from = k /\ d.to = out[k]
    OBVIOUS
  <2>1. CASE k = e.from BY <1>5, <2>1
  <2>2. CASE k \in DOMAIN seen.out BY <1>5, <1>7, <2>2 DEF Mapped
  <2> QED BY <1>5, <2>1, <2>2
<1>11. \A d \in entries \cup {e} : d.from \in DOMAIN out /\ out[d.from] = d.to
  BY <1>5, <1>7 DEF Mapped
<1>12. ASSUME NEW j \in DOMAIN out, NEW k \in DOMAIN out, out[j] = out[k] PROVE j = k
  <2>1. \A i \in DOMAIN seen.out : seen.out[i] \in seen.into BY <1>7 DEF Mapped
  <2>2. CASE j = e.from
    <3>1. k \notin DOMAIN seen.out BY <1>3, <1>5, <1>12, <2>1, <2>2
    <3> QED BY <1>5, <2>2, <3>1
  <2>3. CASE k = e.from
    <3>1. j \notin DOMAIN seen.out BY <1>3, <1>5, <1>12, <2>1, <2>3
    <3> QED BY <1>5, <2>3, <3>1
  <2>4. CASE j # e.from /\ k # e.from
    <3>1. j \in DOMAIN seen.out /\ k \in DOMAIN seen.out BY <1>5, <2>4
    <3>2. seen.out[j] = seen.out[k] BY <1>5, <1>12, <3>1
    <3> QED BY <1>7, <3>1, <3>2 DEF Mapped
  <2> QED BY <2>2, <2>3, <2>4
<1>13. Mapped(entries \cup {e}, t) BY <1>4, <1>5, <1>8, <1>9, <1>10, <1>11, <1>12 DEF Mapped
<1> QED BY <1>13 DEF t

(* So is a whole history that is accepted. *)
LEMMA ValidIs ==
  ASSUME NEW T, NEW moves \in Seq(T), ValidateMoves(moves).errors = {}
  PROVE  Mapped(Range(moves), ValidateMoves(moves))
<1> DEFINE N == Len(moves)
           f == CHOOSE f : Seen(moves, N, f)
           first(n) == {moves[i] : i \in 1..n}
<1>1. N \in Nat /\ DOMAIN moves = 1..N OBVIOUS
<1>2. Seen(moves, N, f) BY <1>1, SeenExists
<1>3. ValidateMoves(moves) = f[N] BY DEF ValidateMoves, Seen
<1>4. \A i \in 0..N : f[i] = IF i = 0 THEN NoEdges ELSE AddEntry(f[i - 1], moves[i]) BY <1>2 DEF Seen
<1>5. Range(moves) = first(N) BY <1>1 DEF Range
<1> HIDE DEF f, N
<1> DEFINE Fine(n) == /\ DOMAIN f[n] = {"errors", "out", "into"}
                      /\ f[n].errors = {} => Mapped(first(n), f[n])
           good == {n \in Nat : n <= N => Fine(n)}
<1>6. 0 \in good
  <2>1. f[0] = NoEdges BY <1>1, <1>4
  <2>2. DOMAIN f[0] = {"errors", "out", "into"}
    BY <2>1 DEF NoEdges
  <2>3. first(0) = {} OBVIOUS
  <2>4. DOMAIN NoEdges.out = {} /\ NoEdges.into = {} /\ NoEdges.out = [k \in {} |-> NoEdges.out[k]]
    BY DEF NoEdges
  <2>5. IsFiniteSet(DOMAIN NoEdges.out) BY <2>4, FS_EmptySet
  <2>6. Mapped({}, NoEdges) BY <2>1, <2>2, <2>4, <2>5 DEF Mapped
  <2> QED BY <2>1, <2>2, <2>3, <2>6
<1>7. \A n \in Nat : n \in good => n + 1 \in good
  <2> SUFFICES ASSUME NEW n \in Nat, n \in good, n + 1 <= N PROVE Fine(n + 1)
    <3> HIDE DEF Fine
    <3> QED OBVIOUS
  <2>0. n <= N BY <1>1
  <2>1. Fine(n) BY <2>0
  <2>2. f[n + 1] = AddEntry(f[n], moves[n + 1])
    <3>1. n + 1 \in 0..N /\ n + 1 # 0 /\ (n + 1) - 1 = n BY <1>1
    <3> QED BY <1>4, <3>1
  <2>3. first(n + 1) = first(n) \cup {moves[n + 1]}
    <3>1. 1..(n + 1) = (1..n) \cup {n + 1} OBVIOUS
    <3> QED BY <3>1
  <2> DEFINE s == f[n]
             e == moves[n + 1]
             t == f[n + 1]
             some == first(n)
  <2>4. DOMAIN s = {"errors", "out", "into"} /\ (s.errors = {} => Mapped(some, s))
    BY <2>1
  <2>5. t = AddEntry(s, e) /\ first(n + 1) = some \cup {e} BY <2>2, <2>3
  <2> HIDE DEF s, e, t, some, first, good
  <2>6. t.errors = {} => Mapped(some \cup {e}, t) BY <2>4, <2>5, OneEntryMore
  <2>7. DOMAIN t = {"errors", "out", "into"} BY <2>4, <2>5 DEF AddEntry
  <2> QED BY <2>5, <2>6, <2>7 DEF t
<1> HIDE DEF good
<1>8. N \in good BY <1>1, <1>6, <1>7, EveryNumber
<1>9. Fine(N) BY <1>1, <1>8 DEF good
<1> QED BY <1>3, <1>5, <1>9

-----------------------------------------------------------------------------
(* Chains. *)

(* The recursion in Chain: a walk from a source.                             *)
Walked(out, source, n, f) ==
  f = [i \in 0..n |->
         IF i = 0 THEN <<source>>
         ELSE LET path == f[i - 1]
              IN  IF Last(path) \in DOMAIN out THEN Append(path, out[Last(path)]) ELSE path]

LEMMA WalkExists ==
  ASSUME NEW out, NEW source, NEW n \in Nat
  PROVE  \E f : Walked(out, source, n, f)
<1> DEFINE More(path) == IF Last(path) \in DOMAIN out THEN Append(path, out[Last(path)]) ELSE path
           good == {m \in Nat : \E f : Walked(out, source, m, f)}
<1>1. \A m, f : Walked(out, source, m, f) <=>
                  f = [i \in 0..m |-> IF i = 0 THEN <<source>> ELSE More(f[i - 1])]
  BY DEF Walked
<1> HIDE DEF More
<1>2. 0 \in good
  <2> DEFINE f == [i \in 0..0 |-> <<source>>]
  <2>1. f = [i \in 0..0 |-> IF i = 0 THEN <<source>> ELSE More(f[i - 1])] OBVIOUS
  <2>2. Walked(out, source, 0, f) BY <1>1, <2>1
  <2> QED BY <2>2
<1>3. \A m \in Nat : m \in good => m + 1 \in good
  <2> SUFFICES ASSUME NEW m \in Nat, NEW f, Walked(out, source, m, f)
               PROVE  \E g : Walked(out, source, m + 1, g) OBVIOUS
  <2> DEFINE g == [i \in 0..(m + 1) |-> IF i = m + 1 THEN More(f[m]) ELSE f[i]]
  <2>1. \A i \in 0..m : g[i] = f[i] OBVIOUS
  <2>2. f = [i \in 0..m |-> IF i = 0 THEN <<source>> ELSE More(f[i - 1])] BY <1>1
  <2>3. \A i \in 0..m : f[i] = IF i = 0 THEN <<source>> ELSE More(f[i - 1]) BY <2>2
  <2>4. g[m + 1] = More(f[m]) OBVIOUS
  <2>5. DOMAIN g = 0..(m + 1) /\ g = [i \in 0..(m + 1) |-> g[i]] OBVIOUS
  <2> HIDE DEF g
  <2>6. ASSUME NEW i \in 0..(m + 1)
        PROVE  g[i] = IF i = 0 THEN <<source>> ELSE More(g[i - 1])
    <3>1. CASE i = m + 1
      <4>1. i - 1 = m /\ g[i - 1] = f[m] /\ i # 0 BY <2>1, <3>1
      <4> QED BY <2>4, <3>1, <4>1
    <3>2. CASE i # m + 1
      <4>1. i \in 0..m BY <3>2
      <4>2. i # 0 => i - 1 \in 0..m BY <4>1
      <4> QED BY <2>1, <2>3, <4>1, <4>2
    <3> QED BY <3>1, <3>2
  <2>7. Walked(out, source, m + 1, g) BY <1>1, <2>5, <2>6
  <2> QED BY <2>7
<1> HIDE DEF good
<1>4. n \in good BY <1>2, <1>3, EveryNumber
<1> QED BY <1>4 DEF good

Nodes(v) == DOMAIN v.out \cup v.into

(* A way along the history, from a source. *)
Path(v, source, c) ==
  /\ c \in Seq(Nodes(v)) /\ c # <<>> /\ c[1] = source
  /\ \A i \in 1..(Len(c) - 1) : c[i] \in DOMAIN v.out /\ c[i + 1] = v.out[c[i]]

LEMMA PathMore ==
  ASSUME NEW entries, NEW v, Mapped(entries, v), NEW source, NEW c, Path(v, source, c),
         Last(c) \in DOMAIN v.out
  PROVE  /\ Path(v, source, Append(c, v.out[Last(c)]))
         /\ Len(Append(c, v.out[Last(c)])) = Len(c) + 1
<1> DEFINE x == v.out[Last(c)]
           d == Append(c, x)
           N == Len(c)
<1>1. c \in Seq(Nodes(v)) /\ N \in Nat /\ N # 0 /\ c[1] = source /\ Last(c) = c[N]
  BY DEF Path, Last
<1>2. x \in Nodes(v) BY DEF Mapped, Nodes
<1>3. x = v.out[c[N]] BY <1>1
<1> HIDE DEF x
<1>4. d \in Seq(Nodes(v)) /\ Len(d) = N + 1 /\ d[N + 1] = x /\ \A i \in 1..N : d[i] = c[i]
  BY <1>1, <1>2
<1> HIDE DEF d
<1>5. ASSUME NEW i \in 1..(Len(d) - 1)
      PROVE  d[i] \in DOMAIN v.out /\ d[i + 1] = v.out[d[i]]
  <2>1. i \in 1..N BY <1>1, <1>4
  <2>2. CASE i = N BY <1>1, <1>3, <1>4, <2>2
  <2>3. CASE i # N
    <3>1. i \in 1..(N - 1) /\ i + 1 \in 1..N BY <1>1, <2>1, <2>3
    <3>2. c[i] \in DOMAIN v.out /\ c[i + 1] = v.out[c[i]] BY <3>1 DEF Path
    <3> QED BY <1>4, <2>1, <3>1, <3>2
  <2> QED BY <2>2, <2>3
<1>6. d # <<>> /\ d[1] = source BY <1>1, <1>4
<1>7. Path(v, source, d) BY <1>4, <1>5, <1>6 DEF Path
<1> QED BY <1>4, <1>7 DEF d, x

(* It comes to no endpoint twice. *)
LEMMA PathApart ==
  ASSUME NEW entries, NEW v, Mapped(entries, v), NEW source, source \notin v.into, NEW c, Path(v, source, c)
  PROVE  \A i, j \in DOMAIN c : c[i] = c[j] => i = j
<1> DEFINE N == Len(c)
           good == {n \in Nat : \A j \in 1..N : (n + 1 < j) => c[n + 1] # c[j]}
<1>1. c \in Seq(Nodes(v)) /\ N \in Nat /\ DOMAIN c = 1..N /\ c[1] = source BY DEF Path
<1>2. ASSUME NEW j \in 1..N, j # 1
      PROVE  c[j - 1] \in DOMAIN v.out /\ c[j] = v.out[c[j - 1]] /\ c[j] \in v.into
  <2>1. j - 1 \in 1..(N - 1) /\ (j - 1) + 1 = j BY <1>1, <1>2
  <2>2. c[j - 1] \in DOMAIN v.out /\ c[j] = v.out[c[j - 1]] BY <2>1 DEF Path
  <2> QED BY <2>2 DEF Mapped
<1> HIDE DEF N
<1>3. 0 \in good BY <1>1, <1>2
<1>4. \A n \in Nat : n \in good => n + 1 \in good
  <2> SUFFICES ASSUME NEW n \in Nat, n \in good, NEW j \in 1..N, n + 2 < j, c[n + 2] = c[j]
               PROVE  FALSE
    BY <1>1
  <2>1. n + 2 \in 1..N /\ n + 2 # 1 /\ j # 1 /\ (n + 2) - 1 = n + 1 /\ j - 1 \in 1..N /\ n + 1 < j - 1
    BY <1>1
  <2>2. /\ c[n + 1] \in DOMAIN v.out /\ c[n + 2] = v.out[c[n + 1]]
        /\ c[j - 1] \in DOMAIN v.out /\ c[j] = v.out[c[j - 1]]
    BY <1>2, <2>1
  <2> DEFINE a == c[n + 1]
             b == c[j - 1]
  <2>3. a \in DOMAIN v.out /\ b \in DOMAIN v.out /\ v.out[a] = v.out[b] BY <2>2
  <2> HIDE DEF a, b, good
  <2>4. a = b BY <2>3 DEF Mapped
  <2>5. c[n + 1] = c[j - 1] BY <2>4 DEF a, b
  <2> USE DEF good
  <2> QED BY <2>1, <2>5
<1>5. \A n \in Nat : n \in good
  <2> HIDE DEF good
  <2> QED BY <1>3, <1>4, EveryNumber
<1>6. ASSUME NEW i \in 1..N, NEW j \in 1..N, i < j PROVE c[i] # c[j]
  <2>1. i - 1 \in Nat /\ (i - 1) + 1 = i BY <1>1
  <2>2. i - 1 \in good BY <1>5, <2>1
  <2> QED BY <1>6, <2>1, <2>2
<1> QED BY <1>1, <1>6

(* It is done where the history goes no further. *)
LEMMA ChainIs ==
  ASSUME NEW entries, NEW v, Mapped(entries, v), NEW source \in Sources(v)
  PROVE  Path(v, source, Chain(v, source)) /\ Last(Chain(v, source)) \notin DOMAIN v.out
<1> DEFINE out == v.out
           N == Cardinality(DOMAIN out)
           f == CHOOSE f : Walked(out, source, N, f)
           More(path) == IF Last(path) \in DOMAIN out THEN Append(path, out[Last(path)]) ELSE path
<1>1. N \in Nat BY FS_CardinalityType DEF Mapped
<1>2. Walked(out, source, N, f) BY <1>1, WalkExists
<1>3. Chain(v, source) = f[N] BY DEF Chain, Walked
<1>4. \A i \in 0..N : f[i] = IF i = 0 THEN <<source>> ELSE More(f[i - 1]) BY <1>2 DEF Walked
<1>5. source \in DOMAIN out /\ source \notin v.into BY DEF Sources
<1> HIDE DEF f, N
<1> DEFINE Fine(n) == Path(v, source, f[n]) /\ (Last(f[n]) \in DOMAIN out => Len(f[n]) = n + 1)
           good == {n \in Nat : n <= N => Fine(n)}
<1>6. 0 \in good
  <2>1. f[0] = <<source>> BY <1>1, <1>4
  <2>2. Path(v, source, <<source>>) BY <1>5 DEF Path, Nodes
  <2>3. Len(<<source>>) = 0 + 1 OBVIOUS
  <2> QED BY <2>1, <2>2, <2>3
<1>7. \A n \in Nat : n \in good => n + 1 \in good
  <2> SUFFICES ASSUME NEW n \in Nat, n \in good, n + 1 <= N PROVE Fine(n + 1)
    <3> HIDE DEF Fine
    <3> QED OBVIOUS
  <2>0. n <= N BY <1>1
  <2>1. Fine(n) BY <2>0
  <2>2. f[n + 1] = More(f[n])
    <3>1. n + 1 \in 0..N /\ n + 1 # 0 /\ (n + 1) - 1 = n BY <1>1
    <3> HIDE DEF More
    <3> QED BY <1>4, <3>1
  <2> DEFINE c == f[n]
             d == f[n + 1]
  <2>3. Path(v, source, c) /\ (Last(c) \in DOMAIN v.out => Len(c) = n + 1) BY <2>1
  <2>4. d = IF Last(c) \in DOMAIN v.out THEN Append(c, v.out[Last(c)]) ELSE c BY <2>2
  <2> HIDE DEF c, d, good
  <2>5. CASE Last(c) \in DOMAIN v.out
    <3>1. d = Append(c, v.out[Last(c)]) BY <2>4, <2>5
    <3>2. Path(v, source, d) /\ Len(d) = Len(c) + 1 BY <2>3, <2>5, <3>1, PathMore
    <3> QED BY <2>3, <2>5, <3>2 DEF d
  <2>6. CASE Last(c) \notin DOMAIN v.out BY <2>3, <2>4, <2>6 DEF d
  <2> QED BY <2>5, <2>6
<1> HIDE DEF good
<1>8. N \in good BY <1>1, <1>6, <1>7, EveryNumber
<1>9. Fine(N) BY <1>1, <1>8 DEF good
<1> DEFINE c == f[N]
<1>10. Path(v, source, c) /\ (Last(c) \in DOMAIN out => Len(c) = N + 1) BY <1>9
<1> HIDE DEF c
<1>11. ASSUME Last(c) \in DOMAIN out PROVE FALSE
  <2>1. Len(c) = N + 1 /\ c \in Seq(Nodes(v)) /\ Last(c) = c[N + 1] BY <1>1, <1>10, <1>11 DEF Path, Last
  <2>2. \A i \in DOMAIN c : c[i] \in DOMAIN out
    <3> SUFFICES ASSUME NEW i \in DOMAIN c PROVE c[i] \in DOMAIN out OBVIOUS
    <3>1. i \in 1..(N + 1) BY <2>1
    <3>2. CASE i = N + 1 BY <1>11, <2>1, <3>2
    <3>3. CASE i # N + 1
      <4>1. i \in 1..(Len(c) - 1) BY <1>1, <2>1, <3>1, <3>3
      <4> QED BY <1>10, <4>1 DEF Path
    <3> QED BY <3>2, <3>3
  <2>3. \A i, j \in DOMAIN c : c[i] = c[j] => i = j BY <1>5, <1>10, PathApart
  <2>4. Cardinality(Range(c)) = N + 1 BY <2>1, <2>3, RangeCounted
  <2>5. Range(c) \subseteq DOMAIN out BY <2>2 DEF Range
  <2>6. Cardinality(Range(c)) <= N BY <2>5, FS_Subset DEF Mapped, N
  <2> QED BY <1>1, <2>4, <2>6
<1> QED BY <1>3, <1>10, <1>11 DEF c

-----------------------------------------------------------------------------
(* Blocks. *)

(* An entry that changes the address.                                        *)
Change(v, x) == x \in DOMAIN v.out /\ x.idt # v.out[x].idt

(* With one object at an address, it is left once and reached once, and the   *)
(* history does not end at an address that is left.                           *)
LEMMA ChangesApart ==
  ASSUME NEW entries, NEW v, Mapped(entries, v), OneObjectEach(entries)
  PROVE  /\ \A x, y : Change(v, x) /\ Change(v, y) /\ (x.idt = y.idt \/ v.out[x].idt = v.out[y].idt) => x = y
         /\ \A x, y : Change(v, x) /\ y \in Nodes(v) /\ y \notin DOMAIN v.out => y.idt # x.idt
<1> DEFINE ends == {e.from : e \in entries} \cup {e.to : e \in entries}
           kept == {e \in entries : e.from.idt = e.to.idt}
<1>1. \A a, b \in ends : a.idt = b.idt =>
        /\ (\A e \in kept : e.from \notin {a, b}) => a = b
        /\ (\A e \in kept : e.to \notin {a, b}) => a = b
  BY DEF OneObjectEach
<1>2. \A k \in DOMAIN v.out : k \in ends /\ v.out[k] \in ends BY DEF Mapped
<1>3. Nodes(v) \subseteq ends BY <1>2 DEF Mapped, Nodes
<1>4. \A x : Change(v, x) => \A e \in kept : e.from # x /\ e.to # v.out[x]
  <2> SUFFICES ASSUME NEW x, Change(v, x), NEW e \in kept PROVE e.from # x /\ e.to # v.out[x] OBVIOUS
  <2>1. e \in entries /\ e.from.idt = e.to.idt OBVIOUS
  <2>2. e.from \in DOMAIN v.out /\ v.out[e.from] = e.to BY <2>1 DEF Mapped
  <2>3. e.from # x BY <2>1, <2>2 DEF Change
  <2>4. e.to = v.out[x] => e.from = x
    <3> DEFINE a == e.from
    <3>1. a \in DOMAIN v.out /\ x \in DOMAIN v.out /\ v.out[a] = e.to BY <2>2 DEF Change
    <3> HIDE DEF a
    <3>2. v.out[a] = v.out[x] => a = x BY <3>1 DEF Mapped
    <3> QED BY <3>1, <3>2 DEF a
  <2> QED BY <2>3, <2>4
<1> HIDE DEF ends, kept
<1>5. ASSUME NEW x, NEW y, Change(v, x), Change(v, y), x.idt = y.idt \/ v.out[x].idt = v.out[y].idt
      PROVE  x = y
  <2>1. x \in DOMAIN v.out /\ y \in DOMAIN v.out BY <1>5 DEF Change
  <2>2. \A e \in kept : e.from \notin {x, y} /\ e.to \notin {v.out[x], v.out[y]} BY <1>4, <1>5
  <2>3. x \in ends /\ y \in ends /\ v.out[x] \in ends /\ v.out[y] \in ends BY <1>2, <2>1
  <2>4. CASE x.idt = y.idt BY <1>1, <2>2, <2>3, <2>4
  <2>5. CASE v.out[x].idt = v.out[y].idt
    <3>1. v.out[x] = v.out[y] BY <1>1, <2>2, <2>3, <2>5
    <3> QED BY <2>1, <3>1 DEF Mapped
  <2> QED BY <1>5, <2>4, <2>5
<1>6. ASSUME NEW x, NEW y, Change(v, x), y \in Nodes(v), y \notin DOMAIN v.out, y.idt = x.idt
      PROVE  FALSE
  <2>1. x \in DOMAIN v.out BY <1>6 DEF Change
  <2>2. \A e \in kept : e.from # y BY <1>6 DEF kept, Mapped
  <2>3. \A e \in kept : e.from \notin {x, y} BY <1>4, <1>6, <2>2
  <2>4. x \in ends /\ y \in ends BY <1>2, <1>3, <1>6, <2>1
  <2>5. x = y BY <1>1, <1>6, <2>3, <2>4
  <2> QED BY <1>6, <2>1, <2>5
<1> QED BY <1>5, <1>6

Moved(v) == UNION {Blocks(c) : c \in Chains(v)}

(* A block is a change somewhere along a chain.                              *)
IsBlock(v, source, i, b) ==
  /\ source \in Sources(v) /\ i \in 1..(Len(Chain(v, source)) - 1)
  /\ Change(v, Chain(v, source)[i])
  /\ Chain(v, source)[i + 1] = v.out[Chain(v, source)[i]]
  /\ b = <<Chain(v, source)[i].idt, v.out[Chain(v, source)[i]].idt>>

LEMMA BlocksAre ==
  ASSUME NEW entries, NEW v, Mapped(entries, v)
  PROVE  \A b : b \in Moved(v) <=> \E source, i : IsBlock(v, source, i, b)
<1>1. ASSUME NEW source \in Sources(v), NEW b
      PROVE  b \in Blocks(Chain(v, source)) <=> \E i : IsBlock(v, source, i, b)
  <2> DEFINE c == Chain(v, source)
  <2>1. Path(v, source, c) BY ChainIs
  <2>2. \A i \in 1..(Len(c) - 1) : c[i] \in DOMAIN v.out /\ c[i + 1] = v.out[c[i]] BY <2>1 DEF Path
  <2>3. b \in Blocks(c) <=> \E i \in 1..(Len(c) - 1) : c[i].idt # c[i + 1].idt /\ b = <<c[i].idt, c[i + 1].idt>>
    BY DEF Blocks
  <2>4. \A i : IsBlock(v, source, i, b) <=>
                /\ i \in 1..(Len(c) - 1) /\ Change(v, c[i]) /\ c[i + 1] = v.out[c[i]]
                /\ b = <<c[i].idt, v.out[c[i]].idt>>
    BY DEF IsBlock
  <2> HIDE DEF c
  <2>5. ASSUME NEW i \in 1..(Len(c) - 1)
        PROVE  (c[i].idt # c[i + 1].idt /\ b = <<c[i].idt, c[i + 1].idt>>) <=> IsBlock(v, source, i, b)
    BY <2>2, <2>4 DEF Change
  <2>6. \A i : IsBlock(v, source, i, b) => i \in 1..(Len(c) - 1) BY <2>4
  <2>7. b \in Blocks(c) <=> \E i : IsBlock(v, source, i, b) BY <2>3, <2>5, <2>6, Zenon
  <2> QED BY <2>7 DEF c
<1>2. \A b : b \in Moved(v) <=> \E source \in Sources(v) : b \in Blocks(Chain(v, source)) BY DEF Moved, Chains
<1>3. \A source, i, b : IsBlock(v, source, i, b) => source \in Sources(v) BY DEF IsBlock
<1> QED BY <1>1, <1>2, <1>3, Zenon

(* There are finitely many. *)
LEMMA BlocksFinite ==
  ASSUME NEW entries, NEW v, Mapped(entries, v)
  PROVE  IsFiniteSet(Moved(v))
<1> DEFINE S == DOMAIN v.out
           blk == [x \in S |-> <<x.idt, v.out[x].idt>>]
           all == {blk[x] : x \in S}
<1>1. IsFiniteSet(S) /\ DOMAIN blk = S BY DEF Mapped
<1>2. IsFiniteSet(all) 
  <2> HIDE DEF S, blk
  <2> QED BY <1>1, ImageFinite
<1>3. Moved(v) \subseteq all
  <2> SUFFICES ASSUME NEW b \in Moved(v) PROVE b \in all OBVIOUS
  <2>1. PICK source, i : IsBlock(v, source, i, b) BY BlocksAre
  <2> DEFINE x == Chain(v, source)[i]
  <2>2. x \in S /\ b = <<x.idt, v.out[x].idt>> BY <2>1 DEF IsBlock, Change
  <2> HIDE DEF x
  <2> QED BY <2>2
<1> HIDE DEF all
<1> QED BY <1>2, <1>3, FS_Subset

(* No two of them leave, or reach, one address. *)
LEMMA BlocksUnambiguous ==
  ASSUME NEW entries, NEW v, Mapped(entries, v), OneObjectEach(entries)
  PROVE  Unambiguous(Moved(v))
<1> SUFFICES ASSUME NEW a \in Moved(v), NEW b \in Moved(v), a[1] = b[1] \/ a[2] = b[2]
             PROVE  a = b
  BY DEF Unambiguous
<1>1. PICK r, i : IsBlock(v, r, i, a) BY BlocksAre
<1>2. PICK s, j : IsBlock(v, s, j, b) BY BlocksAre
<1> DEFINE x == Chain(v, r)[i]
           y == Chain(v, s)[j]
<1>3. Change(v, x) /\ a = <<x.idt, v.out[x].idt>> BY <1>1 DEF IsBlock
<1>4. Change(v, y) /\ b = <<y.idt, v.out[y].idt>> BY <1>2 DEF IsBlock
<1> HIDE DEF x, y
<1>5. x.idt = y.idt \/ v.out[x].idt = v.out[y].idt BY <1>3, <1>4
<1>6. x = y BY <1>3, <1>4, <1>5, ChangesApart
<1> QED BY <1>3, <1>4, <1>6

-----------------------------------------------------------------------------
(* Where an address leads. *)

(* The recursion in Follow.                                                  *)
Traced(moved, idt, n, f) ==
  f = [i \in 0..n |->
         IF i = 0 THEN idt
         ELSE LET here == f[i - 1]
              IN  IF \E b \in moved : b[1] = here
                  THEN (CHOOSE b \in moved : b[1] = here)[2] ELSE here]

LEMMA TraceExists ==
  ASSUME NEW moved, NEW idt, NEW n \in Nat
  PROVE  \E f : Traced(moved, idt, n, f)
<1> DEFINE Next1(here) == IF \E b \in moved : b[1] = here
                          THEN (CHOOSE b \in moved : b[1] = here)[2] ELSE here
           good == {m \in Nat : \E f : Traced(moved, idt, m, f)}
<1>1. \A m, f : Traced(moved, idt, m, f) <=>
                  f = [i \in 0..m |-> IF i = 0 THEN idt ELSE Next1(f[i - 1])]
  BY DEF Traced
<1> HIDE DEF Next1
<1>2. 0 \in good
  <2> DEFINE f == [i \in 0..0 |-> idt]
  <2>1. f = [i \in 0..0 |-> IF i = 0 THEN idt ELSE Next1(f[i - 1])] OBVIOUS
  <2>2. Traced(moved, idt, 0, f) BY <1>1, <2>1
  <2> QED BY <2>2
<1>3. \A m \in Nat : m \in good => m + 1 \in good
  <2> SUFFICES ASSUME NEW m \in Nat, NEW f, Traced(moved, idt, m, f)
               PROVE  \E g : Traced(moved, idt, m + 1, g) OBVIOUS
  <2> DEFINE g == [i \in 0..(m + 1) |-> IF i = m + 1 THEN Next1(f[m]) ELSE f[i]]
  <2>1. \A i \in 0..m : g[i] = f[i] OBVIOUS
  <2>2. f = [i \in 0..m |-> IF i = 0 THEN idt ELSE Next1(f[i - 1])] BY <1>1
  <2>3. \A i \in 0..m : f[i] = IF i = 0 THEN idt ELSE Next1(f[i - 1]) BY <2>2
  <2>4. g[m + 1] = Next1(f[m]) OBVIOUS
  <2>5. DOMAIN g = 0..(m + 1) /\ g = [i \in 0..(m + 1) |-> g[i]] OBVIOUS
  <2> HIDE DEF g
  <2>6. ASSUME NEW i \in 0..(m + 1)
        PROVE  g[i] = IF i = 0 THEN idt ELSE Next1(g[i - 1])
    <3>1. CASE i = m + 1
      <4>1. i - 1 = m /\ g[i - 1] = f[m] /\ i # 0 BY <2>1, <3>1
      <4> QED BY <2>4, <3>1, <4>1
    <3>2. CASE i # m + 1
      <4>1. i \in 0..m BY <3>2
      <4>2. i # 0 => i - 1 \in 0..m BY <4>1
      <4> QED BY <2>1, <2>3, <4>1, <4>2
    <3> QED BY <3>1, <3>2
  <2>7. Traced(moved, idt, m + 1, g) BY <1>1, <2>5, <2>6
  <2> QED BY <2>7
<1> HIDE DEF good
<1>4. n \in good BY <1>2, <1>3, EveryNumber
<1> QED BY <1>4 DEF good

(* From anywhere on a chain there is a next change, unless its last address is reached. *)
Changes(c, k) == c[k].idt # c[k + 1].idt

LEMMA NextChange ==
  ASSUME NEW T, NEW c \in Seq(T), NEW j \in 1..Len(c)
  PROVE  c[j].idt = c[Len(c)].idt \/ \E k \in j..(Len(c) - 1) : Changes(c, k) /\ c[k].idt = c[j].idt
<1> DEFINE L == Len(c)
           Found(i) == c[i].idt = c[L].idt \/ \E k \in i..(L - 1) : Changes(c, k) /\ c[k].idt = c[i].idt
           good == {n \in Nat : n < L => Found(L - n)}
<1>1. L \in Nat /\ j \in 1..L OBVIOUS
<1> HIDE DEF L
<1>2. 0 \in good
  <2>1. L - 0 = L BY <1>1
  <2> QED BY <2>1
<1>3. \A n \in Nat : n \in good => n + 1 \in good
  <2> SUFFICES ASSUME NEW n \in Nat, n \in good, n + 1 < L PROVE Found(L - (n + 1)) 
    <3> HIDE DEF Found
    <3> QED OBVIOUS
  <2> DEFINE i == L - (n + 1)
  <2>1. i \in 1..(L - 1) /\ i + 1 = L - n /\ n < L BY <1>1
  <2>2. Found(i + 1) BY <2>1
  <2> HIDE DEF i
  <2>3. CASE Changes(c, i) BY <1>1, <2>1, <2>3 DEF i
  <2>4. CASE ~Changes(c, i)
    <3>1. c[i].idt = c[i + 1].idt BY <2>4 DEF Changes
    <3>2. \A k \in (i + 1)..(L - 1) : k \in i..(L - 1) BY <1>1, <2>1
    <3>3. Found(i) BY <2>2, <3>1, <3>2
    <3> QED BY <3>3 DEF i
  <2> QED BY <2>3, <2>4
<1> HIDE DEF good
<1>4. L - j \in Nat /\ L - j < L /\ L - (L - j) = j BY <1>1
<1>5. L - j \in good BY <1>2, <1>3, <1>4, EveryNumber
<1>6. Found(j) BY <1>4, <1>5 DEF good
<1> QED BY <1>6 DEF L

(* The blocks from a place of a chain on. *)
Ahead(c, j) == {<<c[i].idt, c[i + 1].idt>> : i \in {k \in j..(Len(c) - 1) : Changes(c, k)}}

(* What is known of a chain when its blocks are followed.                    *)
IsTrail(moved, c) ==
  /\ c \in Seq(Range(c)) /\ Len(c) \in Nat /\ Len(c) # 0
  /\ IsFiniteSet(moved)
  /\ \A k \in 1..(Len(c) - 1) : Changes(c, k) => <<c[k].idt, c[k + 1].idt>> \in moved
  /\ \A j, k \in 1..(Len(c) - 1) : Changes(c, j) /\ Changes(c, k) /\ c[j].idt = c[k].idt => j = k
  /\ \A b \in moved : b[1] # c[Len(c)].idt
  /\ \A a, b \in moved : a[1] = b[1] => a = b

(* Past a change there is a block less ahead. *)
LEMMA AheadLess ==
  ASSUME NEW moved, NEW c, IsTrail(moved, c), NEW j \in 1..Len(c), NEW k \in j..(Len(c) - 1), Changes(c, k)
  PROVE  /\ Ahead(c, j) \subseteq moved /\ IsFiniteSet(Ahead(c, j))
         /\ Cardinality(Ahead(c, j)) \in Nat /\ Cardinality(Ahead(c, k + 1)) \in Nat
         /\ Cardinality(Ahead(c, k + 1)) <= Cardinality(Ahead(c, j)) - 1
<1> DEFINE L == Len(c)
           b == <<c[k].idt, c[k + 1].idt>>
<1>1. L \in Nat /\ k \in 1..(L - 1) BY DEF IsTrail
<1> HIDE DEF L
<1>2. \A i \in j..(L - 1) : i \in 1..(L - 1) OBVIOUS
<1>3. Ahead(c, j) \subseteq moved BY <1>2 DEF Ahead, IsTrail, L
<1>4. b \in Ahead(c, j) BY <1>1 DEF Ahead, L
<1>5. Ahead(c, k + 1) \subseteq Ahead(c, j) \ {b}
  <2> SUFFICES ASSUME NEW i \in (k + 1)..(L - 1), Changes(c, i)
               PROVE  <<c[i].idt, c[i + 1].idt>> \in Ahead(c, j) \ {b}
    BY DEF Ahead, L
  <2>1. i \in j..(L - 1) /\ i \in 1..(L - 1) /\ i # k BY <1>1
  <2>2. <<c[i].idt, c[i + 1].idt>> \in Ahead(c, j) BY <2>1 DEF Ahead, L
  <2>3. c[i].idt # c[k].idt BY <1>1, <2>1 DEF IsTrail, L
  <2> QED BY <2>2, <2>3
<1>6. IsFiniteSet(Ahead(c, j)) BY <1>3, FS_Subset DEF IsTrail
<1> HIDE DEF b
<1>7. IsFiniteSet(Ahead(c, j) \ {b}) /\ Cardinality(Ahead(c, j) \ {b}) = Cardinality(Ahead(c, j)) - 1
  BY <1>4, <1>6, FS_RemoveElement
<1>8. IsFiniteSet(Ahead(c, k + 1)) /\ Cardinality(Ahead(c, k + 1)) <= Cardinality(Ahead(c, j) \ {b})
  BY <1>5, <1>7, FS_Subset
<1>9. Cardinality(Ahead(c, j)) \in Nat /\ Cardinality(Ahead(c, k + 1)) \in Nat
  BY <1>6, <1>8, FS_CardinalityType
<1> QED BY <1>3, <1>6, <1>7, <1>8, <1>9

(* So who follows the blocks comes to the end of the chain. *)
LEMMA TrailEnds ==
  ASSUME NEW moved, NEW c, IsTrail(moved, c), NEW j0 \in 1..Len(c)
  PROVE  Follow(moved, c[j0].idt) = c[Len(c)].idt
<1> DEFINE L == Len(c)
           M == Cardinality(moved)
           Next1(here) == IF \E b \in moved : b[1] = here
                          THEN (CHOOSE b \in moved : b[1] = here)[2] ELSE here
           at == CHOOSE f : Traced(moved, c[j0].idt, M, f)
           goal == c[L].idt
<1>1. /\ M \in Nat /\ L \in Nat /\ L # 0 /\ j0 \in 1..L
      /\ c \in Seq(Range(c)) /\ \A b \in moved : b[1] # goal
  BY FS_CardinalityType DEF IsTrail
<1>2. Traced(moved, c[j0].idt, M, at) BY <1>1, TraceExists
<1>3. Follow(moved, c[j0].idt) = at[M] BY DEF Follow, Traced
<1>4. \A i \in 0..M : at[i] = IF i = 0 THEN c[j0].idt ELSE Next1(at[i - 1]) BY <1>2 DEF Traced
<1> HIDE DEF at, M, L
<1>5. \A here : (\A b \in moved : b[1] # here) => Next1(here) = here OBVIOUS
<1>6. \A b \in moved : Next1(b[1]) = b[2]
  <2> SUFFICES ASSUME NEW b \in moved PROVE Next1(b[1]) = b[2] OBVIOUS
  <2>1. PICK d \in moved : d[1] = b[1] /\ Next1(b[1]) = d[2] OBVIOUS
  <2>2. d = b BY <2>1 DEF IsTrail
  <2> QED BY <2>1, <2>2
<1> HIDE DEF Next1, goal
<1> DEFINE Near(n) == \/ at[n] = goal
                      \/ \E j \in 1..L : at[n] = c[j].idt /\ Cardinality(Ahead(c, j)) <= M - n
           good == {n \in Nat : n <= M => Near(n)}
<1>7. \A j \in 1..L : c[j].idt = goal \/ \E k \in j..(L - 1) : Changes(c, k) /\ c[k].idt = c[j].idt
  BY <1>1, NextChange DEF L, goal
<1>8. 0 \in good
  <2>1. at[0] = c[j0].idt BY <1>1, <1>4
  <2>2. CASE c[j0].idt = goal BY <2>1, <2>2
  <2>3. CASE \E k \in j0..(L - 1) : Changes(c, k)
    <3>1. Ahead(c, j0) \subseteq moved BY <1>1, <2>3, AheadLess DEF L
    <3>2. Cardinality(Ahead(c, j0)) <= M - 0 BY <1>1, <3>1, FS_Subset DEF IsTrail, M
    <3> QED BY <1>1, <2>1, <3>2
  <2> QED BY <1>1, <1>7, <2>2, <2>3
<1>9. \A n \in Nat : n \in good => n + 1 \in good
  <2> SUFFICES ASSUME NEW n \in Nat, n \in good, n + 1 <= M PROVE Near(n + 1)
    <3> HIDE DEF Near
    <3> QED OBVIOUS
  <2>0. n <= M BY <1>1
  <2>1. Near(n) BY <2>0
  <2>2. at[n + 1] = Next1(at[n])
    <3>1. n + 1 \in 0..M /\ n + 1 # 0 /\ (n + 1) - 1 = n BY <1>1
    <3> QED BY <1>4, <3>1
  <2> HIDE DEF good
  <2>3. CASE at[n] = goal BY <1>1, <1>5, <2>2, <2>3
  <2>4. ASSUME NEW j \in 1..L, at[n] = c[j].idt, Cardinality(Ahead(c, j)) <= M - n, c[j].idt # goal
        PROVE  Near(n + 1)
    <3>1. PICK k \in j..(L - 1) : Changes(c, k) /\ c[k].idt = c[j].idt BY <1>7, <2>4
    <3>2. <<c[k].idt, c[k + 1].idt>> \in moved
      <4>1. k \in 1..(L - 1) OBVIOUS
      <4> QED BY <3>1, <4>1 DEF IsTrail, L
    <3>3. at[n + 1] = c[k + 1].idt
      <4> DEFINE b == <<c[k].idt, c[k + 1].idt>>
      <4>1. b \in moved /\ b[1] = c[k].idt /\ b[2] = c[k + 1].idt BY <3>2
      <4> HIDE DEF b
      <4> QED BY <1>6, <2>2, <2>4, <3>1, <4>1
    <3>4. /\ Cardinality(Ahead(c, j)) \in Nat /\ Cardinality(Ahead(c, k + 1)) \in Nat
          /\ Cardinality(Ahead(c, k + 1)) <= Cardinality(Ahead(c, j)) - 1
      BY <3>1, AheadLess DEF L
    <3>5. Cardinality(Ahead(c, k + 1)) <= M - (n + 1) /\ k + 1 \in 1..L BY <1>1, <2>4, <3>4
    <3> QED BY <3>3, <3>5
  <2> QED BY <2>1, <2>3, <2>4
<1> HIDE DEF good
<1>12. M \in good BY <1>1, <1>8, <1>9, EveryNumber
<1> HIDE DEF Near
<1>13. Near(M) BY <1>1, <1>12 DEF good
<1>10. \/ at[M] = goal
       \/ \E j \in 1..L : at[M] = c[j].idt /\ Cardinality(Ahead(c, j)) <= M - M
  BY <1>13 DEF Near
<1>11. at[M] = goal
  <2> SUFFICES ASSUME NEW j \in 1..L, at[M] = c[j].idt, Cardinality(Ahead(c, j)) <= M - M, c[j].idt # goal
               PROVE  FALSE
    BY <1>10
  <2>1. PICK k \in j..(L - 1) : Changes(c, k) BY <1>7
  <2>2. /\ Cardinality(Ahead(c, j)) \in Nat /\ Cardinality(Ahead(c, k + 1)) \in Nat
        /\ Cardinality(Ahead(c, k + 1)) <= Cardinality(Ahead(c, j)) - 1
    BY <2>1, AheadLess DEF L
  <2> QED BY <1>1, <2>2
<1> QED BY <1>3, <1>11 DEF goal, L

(* A chain of such a history is one. *)
LEMMA ChainTrail ==
  ASSUME NEW entries, NEW v, Mapped(entries, v), OneObjectEach(entries), NEW source \in Sources(v)
  PROVE  IsTrail(Moved(v), Chain(v, source))
<1> DEFINE c == Chain(v, source)
           L == Len(c)
           moved == Moved(v)
<1>1. Path(v, source, c) /\ Last(c) \notin DOMAIN v.out BY ChainIs
<1>2. c \in Seq(Nodes(v)) /\ L \in Nat /\ L # 0 /\ DOMAIN c = 1..L /\ Last(c) = c[L] BY <1>1 DEF Path, Last
<1>3. \A k \in 1..(L - 1) : c[k] \in DOMAIN v.out /\ c[k + 1] = v.out[c[k]] BY <1>1 DEF Path
<1>4. \A i, j \in DOMAIN c : c[i] = c[j] => i = j
  <2>1. source \notin v.into BY DEF Sources
  <2> HIDE DEF c
  <2> QED BY <1>1, <2>1, PathApart
<1>5. \A k \in 1..(L - 1) : Changes(c, k) => IsBlock(v, source, k, <<c[k].idt, c[k + 1].idt>>)
  BY <1>3 DEF Changes, Change, IsBlock
<1>6. \A k \in 1..(L - 1) : Changes(c, k) => Change(v, c[k]) BY <1>3 DEF Changes, Change
<1> HIDE DEF c, L
<1>7. \A k \in 1..(L - 1) : Changes(c, k) => <<c[k].idt, c[k + 1].idt>> \in moved BY <1>5, BlocksAre
<1>8. ASSUME NEW j \in 1..(L - 1), NEW k \in 1..(L - 1), Changes(c, j), Changes(c, k), c[j].idt = c[k].idt
      PROVE  j = k
  <2> DEFINE x == c[j]
             y == c[k]
  <2>1. Change(v, x) /\ Change(v, y) /\ x.idt = y.idt BY <1>6, <1>8
  <2> HIDE DEF x, y
  <2>2. x = y BY <2>1, ChangesApart
  <2>3. j \in DOMAIN c /\ k \in DOMAIN c BY <1>2
  <2> QED BY <1>4, <2>2, <2>3 DEF x, y
<1>9. ASSUME NEW b \in moved PROVE b[1] # c[L].idt
  <2>1. PICK r, i : IsBlock(v, r, i, b) BY BlocksAre
  <2> DEFINE x == Chain(v, r)[i]
             y == c[L]
  <2>2. Change(v, x) /\ b[1] = x.idt BY <2>1 DEF IsBlock
  <2>3. y \in Nodes(v) /\ y \notin DOMAIN v.out BY <1>1, <1>2
  <2> HIDE DEF x, y
  <2>4. y.idt # x.idt BY <2>2, <2>3, ChangesApart
  <2> QED BY <2>2, <2>4 DEF y
<1>10. IsFiniteSet(moved) BY BlocksFinite
<1>11. \A a, b \in moved : a[1] = b[1] => a = b BY BlocksUnambiguous DEF Unambiguous
<1>12. c \in Seq(Range(c)) BY <1>2 DEF Range
<1> HIDE DEF moved
<1>13. IsTrail(moved, c) BY <1>2, <1>7, <1>8, <1>9, <1>10, <1>11, <1>12 DEF IsTrail, L
<1> QED BY <1>13 DEF moved, c

(* Every address that is left leads to the end of a chain. *)
LEMMA BlocksLead ==
  ASSUME NEW entries, NEW v, Mapped(entries, v), OneObjectEach(entries), NEW b \in Moved(v)
  PROVE  \E c \in Chains(v) : Follow(Moved(v), b[1]) = Last(c).idt
<1>1. PICK source, i : IsBlock(v, source, i, b) BY BlocksAre
<1> DEFINE c == Chain(v, source)
<1>2. source \in Sources(v) /\ i \in 1..(Len(c) - 1) /\ b[1] = c[i].idt BY <1>1 DEF IsBlock
<1>3. c \in Chains(v) BY <1>2 DEF Chains
<1>4. IsTrail(Moved(v), c) BY <1>2, ChainTrail
<1> HIDE DEF c
<1>5. i \in 1..Len(c) BY <1>2, <1>4 DEF IsTrail
<1>6. Follow(Moved(v), c[i].idt) = c[Len(c)].idt BY <1>4, <1>5, TrailEnds
<1>7. Last(c) = c[Len(c)] BY DEF Last
<1> QED BY <1>2, <1>3, <1>6, <1>7

(* What a history makes of the resources: nothing, or blocks that lead to them. *)
Leading(moved, addresses) ==
  Unambiguous(moved) /\ \A b \in moved : Follow(moved, b[1]) \in addresses

LEMMA MovesBuilt ==
  ASSUME NEW T, NEW moves \in Seq(T), OneObjectEach(Range(moves)), NEW current,
         BuildMoves(current, moves).errors = {}
  PROVE  Leading(BuildMoves(current, moves).moved, {e.idt : e \in current})
<1> DEFINE v == ValidateMoves(moves)
           errors == IF v.errors # {} THEN v.errors ELSE ChainErrors(v, current)
<1>1. /\ BuildMoves(current, moves).errors = errors
      /\ BuildMoves(current, moves).moved = IF errors = {} THEN Moved(v) ELSE {}
  BY DEF BuildMoves, Moved
<1>2. v.errors = {} /\ ChainErrors(v, current) = {} /\ BuildMoves(current, moves).moved = Moved(v) BY <1>1
<1>3. Mapped(Range(moves), v) BY <1>2, ValidIs
<1> HIDE DEF v
<1>4. \A c \in Chains(v) : Last(c) \in current BY <1>2 DEF ChainErrors
<1>5. Unambiguous(Moved(v)) BY <1>3, BlocksUnambiguous
<1>6. ASSUME NEW b \in Moved(v) PROVE Follow(Moved(v), b[1]) \in {e.idt : e \in current}
  <2>1. PICK c \in Chains(v) : Follow(Moved(v), b[1]) = Last(c).idt BY <1>3, BlocksLead
  <2> QED BY <1>4, <2>1
<1> QED BY <1>2, <1>5, <1>6 DEF Leading

-----------------------------------------------------------------------------
(* The moves of the files: the inductive invariant. *)

(* In every history that a project can have, an address has one object.      *)
HistoriesPlain ==
  \A p \in Projects \cup Versions : p.moves.form = "ok" => OneObjectEach(Range(p.moves.moves))

Led(tree) == MovedName \in DOMAIN tree => Leading(tree[MovedName].moved, Held(tree))

MInv ==
  /\ project.moves.form = "ok" => OneObjectEach(Range(project.moves.moves))
  /\ (cmd.stage = "write" /\ AllApps) => Led(cmd.output)
  /\ history.whole => Led(infra)

(* Most steps write nothing, and are not about to. *)
LEMMA QuietM ==
  ASSUME MInv, UNCHANGED <<project, infra, history>>, cmd'.stage # "write"
  PROVE  MInv'
<1>1. Led(infra)' <=> Led(infra) BY DEF Led, Held
<1> QED BY <1>1 DEF MInv

LEMMA OthersM ==
  ASSUME IInv, MInv, Interrupt \/ LoadModel \/ LoadPlugins \/ BuildApp \/ BuildEnds \/ Select
                     \/ MaterializeApp \/ CheckProject
  PROVE  MInv'
<1>1. UNCHANGED <<project, infra, history>>
  BY DEF Interrupt, LoadModel, LoadPlugins, BuildApp, BuildEnds, Select, MaterializeApp, CheckProject, files
<1>2. ASSUME NEW code, NEW errors, Fail(code, errors) PROVE cmd'.stage # "write"
  BY <1>2 DEF Fail, IInv, Idle
<1>3. CASE Interrupt \/ BuildEnds BY <1>1, <1>2, <1>3, QuietM DEF Interrupt, BuildEnds
<1>4. CASE CheckProject BY <1>1, <1>2, <1>4, ChecksEnd, QuietM
<1>5. CASE LoadModel
  <2> DEFINE model == LoadProjectModel(project, project.env)
  <2>1. /\ cmd.stage = "load"
        /\ \/ \E code, errors : Fail(code, errors)
           \/ cmd' = [cmd EXCEPT !.model = model, !.stage = NextStage[cmd.name]]
    BY <1>5 DEF LoadModel
  <2> HIDE DEF model
  <2>2. CASE cmd' = [cmd EXCEPT !.model = model, !.stage = NextStage[cmd.name]]
    <3>1. NextStage[cmd.name] \in {"registry", "check"} BY <2>1 DEF IInv, NextStage
    <3>2. cmd'.stage # "write" BY <2>2, <3>1 DEF IInv, Idle
    <3> QED BY <1>1, <3>2, QuietM
  <2> QED BY <1>1, <1>2, <2>1, <2>2, QuietM
<1>6. CASE LoadPlugins
  <2> DEFINE records == LoadRegistry(project.builders).records
             order == Only(cmd.model.order, Scope(cmd.model))
  <2>1. \/ \E code, errors : Fail(code, errors)
        \/ cmd' = [cmd EXCEPT !.records = records, !.todo = order, !.stage = "build"]
        \/ cmd' = [cmd EXCEPT !.records = records, !.stage = "select"]
    BY <1>6 DEF LoadPlugins
  <2> HIDE DEF records, order
  <2>2. CASE \/ cmd' = [cmd EXCEPT !.records = records, !.todo = order, !.stage = "build"]
             \/ cmd' = [cmd EXCEPT !.records = records, !.stage = "select"]
    <3>1. cmd'.stage # "write" BY <2>2 DEF IInv, Idle
    <3> QED BY <1>1, <3>1, QuietM
  <2> QED BY <1>1, <1>2, <2>1, <2>2, QuietM
<1>7. CASE BuildApp
  <2>1. cmd.stage = "build" /\ (Fail(1, {"CLI_BUILD_FAILED"}) \/ cmd' = [cmd EXCEPT !.todo = Tail(@)])
    BY <1>7 DEF BuildApp, Running
  <2>2. cmd' = [cmd EXCEPT !.todo = Tail(@)] => cmd'.stage # "write" BY <2>1 DEF IInv, Idle
  <2> QED BY <1>1, <1>2, <2>1, <2>2, QuietM
<1>8. CASE Select
  <2> DEFINE extensions == ParseExtensions(project.extensions)
             order == DeterministicOrder(cmd.model.apps)
             rules == IF extensions = "ok" THEN project.extensions.rules ELSE <<>>
             artifacts == ReadStore.artifacts
             matches == SelectArtifacts(cmd.model, cmd.records).matches
  <2>1. \/ \E code, errors : Fail(code, errors)
        \/ cmd' = [cmd EXCEPT !.artifacts = artifacts, !.rules = rules, !.matches = matches,
                              !.todo = order, !.stage = "materialize"]
    BY <1>8 DEF Select
  <2> HIDE DEF order, rules, artifacts, matches
  <2>2. CASE cmd' = [cmd EXCEPT !.artifacts = artifacts, !.rules = rules, !.matches = matches,
                                !.todo = order, !.stage = "materialize"]
    <3>1. cmd'.stage # "write" BY <2>2 DEF IInv, Idle
    <3> QED BY <1>1, <3>1, QuietM
  <2> QED BY <1>1, <1>2, <2>1, <2>2, QuietM
<1>9. CASE MaterializeApp
  <2> DEFINE id == Head(cmd.todo)
             result == Materialize(cmd.matches[id], id, Of(cmd.artifacts, id, NoValue), Of(dist, id, EmptyDist))
             products == cmd.products \o [i \in DOMAIN result.resources |->
                                             [app |-> id, resource |-> result.resources[i]]]
             auto == Declare(cmd.auto, result.outputs)
             duplicates == cmd.duplicates \/ \E o \in Range(result.outputs), p \in Range(cmd.auto) :
                                                   o.name = p.name
  <2>1. /\ cmd.stage = "materialize"
        /\ \/ Fail(1, {"MTL_MATERIALIZE_FAILED"})
           \/ cmd' = [cmd EXCEPT !.todo = Tail(@), !.products = products, !.auto = auto,
                                 !.duplicates = duplicates]
    BY <1>9 DEF MaterializeApp, Running
  <2> HIDE DEF id, result, products, auto, duplicates
  <2>2. CASE cmd' = [cmd EXCEPT !.todo = Tail(@), !.products = products, !.auto = auto,
                                !.duplicates = duplicates]
    <3>1. cmd'.stage # "write" BY <2>1, <2>2 DEF IInv, Idle
    <3> QED BY <1>1, <3>1, QuietM
  <2> QED BY <1>1, <1>2, <2>1, <2>2, QuietM
<1> QED BY <1>3, <1>4, <1>5, <1>6, <1>7, <1>8, <1>9

LEMMA InitM == HistoriesPlain /\ Init => MInv
  BY DEF HistoriesPlain, Init, MInv, Idle

LEMMA BeginM ==
  ASSUME MInv, NEW name \in DOMAIN NextStage, NEW target, NEW dir, NEW validateTf, Begin(name, target, dir, validateTf)
  PROVE  MInv'
<1>1. cmd'.stage # "write" BY DEF Begin, Idle
<1>2. UNCHANGED <<project, infra, history>> BY DEF Begin, files
<1> QED BY <1>1, <1>2, QuietM

(* An edit takes a history of another definition. *)
LEMMA EditM ==
  ASSUME HistoriesPlain, IInv, RInv, MInv, Edit
  PROVE  MInv'
<1>1. /\ cmd' = [cmd EXCEPT !.edited = TRUE] /\ UNCHANGED infra
      /\ history' = [history EXCEPT !.edited = TRUE]
  BY DEF Edit, files
<1>2. PICK p \in Versions, f \in DOMAIN project : project' = [project EXCEPT ![f] = p[f]] BY DEF Edit
<1>3. cmd'.stage = cmd.stage /\ cmd'.output = cmd.output /\ cmd'.target = cmd.target BY <1>1 DEF IInv, Idle
<1>4. history'.whole = history.whole BY <1>1 DEF RInv
<1>5. project'.moves.form = "ok" => OneObjectEach(Range(project'.moves.moves))
  <2>1. "moves" \in DOMAIN project BY DEF IInv
  <2>2. project'.moves = project.moves \/ project'.moves = p.moves BY <1>2, <2>1
  <2> QED BY <2>2 DEF MInv, HistoriesPlain
<1>6. Led(infra)' <=> Led(infra) BY <1>1 DEF Led, Held
<1>7. Led(cmd.output)' <=> Led(cmd.output) BY <1>3 DEF Led, Held
<1>8. AllApps' <=> AllApps BY <1>3 DEF AllApps
<1> QED BY <1>3, <1>4, <1>5, <1>6, <1>7, <1>8 DEF MInv

(* The blocks are those of the history, and lead to the products. *)
LEMMA GenerateM ==
  ASSUME NamesFree, IInv, GInv, RInv, MInv, Generate
  PROVE  MInv'
<1> DEFINE grouped   == Grouped(cmd.products, cmd.rules)
           g         == grouped.products
           resources == [i \in DOMAIN g |-> g[i].resource]
           invalid   == \E r \in Range(resources) : ~ValidAddress(r)
           document  == ParseMoves(project.moves)
           list      == IF document.ok THEN document.moves ELSE <<>>
           moves     == BuildMoves(MoveEndpoints(resources), list)
           moved     == moves.moved
           wanted    == ParseOutputs(project.outputs) = "ok"
           outputs   == BuildOutputs(resources, project.outputs.entries, cmd.auto)
           values    == outputs.values
           all       == GeneratedFiles(g, moved, wanted, values)
           output    == IF cmd.target = NoTarget THEN all
                        ELSE [n \in {cmd.target} \cap DOMAIN all |-> all[n]]
           todo      == Only(FileNames(g), DOMAIN output)
<1>1. /\ cmd.stage = "materialize" /\ UNCHANGED <<project, infra, history>>
      /\ \/ \E errors : Fail(1, errors)
         \/ /\ grouped.errors = {} /\ moves.errors = {}
            /\ cmd' = [cmd EXCEPT !.output = output, !.stage = "write", !.todo = todo]
  <2>1. cmd.stage = "materialize" /\ UNCHANGED <<project, infra, history>> BY DEF Generate, Running, files
  <2>2. IF grouped.errors # {} THEN Fail(1, grouped.errors)
        ELSE IF invalid THEN Fail(1, {"MTL_INVALID_TERRAFORM_ADDRESS"})
        ELSE IF cmd.duplicates THEN Fail(1, {"MTL_OUTPUT_NAME_COLLISION"})
        ELSE IF moves.errors # {} THEN Fail(1, moves.errors)
        ELSE IF wanted /\ outputs.errors # {} THEN Fail(1, outputs.errors)
        ELSE cmd' = [cmd EXCEPT !.output = output, !.stage = "write", !.todo = todo]
    BY DEF Generate
  <2> HIDE DEF grouped, invalid, moves, wanted, outputs, output, todo
  <2> QED BY <2>1, <2>2
<1>2. CASE \E errors : Fail(1, errors)
  <2>1. cmd'.stage # "write" BY <1>2 DEF Fail, IInv, Idle
  <2> QED BY <1>1, <2>1, QuietM
<1>3. CASE /\ grouped.errors = {} /\ moves.errors = {}
           /\ cmd' = [cmd EXCEPT !.output = output, !.stage = "write", !.todo = todo]
  <2>1. /\ grouped = Grouped(cmd.products, cmd.rules) /\ g = grouped.products /\ wanted \in BOOLEAN
        /\ resources = [i \in DOMAIN g |-> g[i].resource]
        /\ moves = BuildMoves(MoveEndpoints(resources), list) /\ moved = moves.moved
        /\ all = GeneratedFiles(g, moved, wanted, values)
        /\ (cmd.target = NoTarget => output = all)
    OBVIOUS
  <2>2. list \in Seq(Range(list)) /\ OneObjectEach(Range(list))
    <3>1. CASE ~document.ok \/ project.moves.form = "absent"
      <4>1. list = <<>> BY <3>1 DEF ParseMoves
      <4> HIDE DEF list
      <4>2. Range(list) = {} /\ list \in Seq(Range(list)) BY <4>1 DEF Range
      <4>3. OneObjectEach({}) BY DEF OneObjectEach
      <4> QED BY <4>2, <4>3
    <3>2. CASE document.ok /\ project.moves.form # "absent"
      <4>1. project.moves.form = "ok" /\ list = project.moves.moves BY <3>2 DEF ParseMoves
      <4> QED BY <4>1 DEF IInv, IsDefinition, MInv
    <3> QED BY <3>1, <3>2
  <2> HIDE DEF grouped, g, resources, list, moves, moved, wanted, outputs, values, all, output, todo
  <2>3. cmd'.output = output /\ cmd'.stage = "write" /\ cmd'.target = cmd.target BY <1>3 DEF IInv, Idle
  <2>4. AreProducts(cmd.model.apps, cmd.products) /\ IsRuleList(cmd.rules)
    BY <1>1 DEF GInv, Collected
  <2>5. Regrouped(g, cmd.products, cmd.rules) BY <1>3, <2>1, <2>4, GroupedIs
  <2>6. {MovedName, OutputsName} \cap {p.app : p \in Range(g)} = {}
    <3>1. IsAppList(cmd.model.apps) BY <1>1 DEF IInv, Loaded
    <3>2. IdsOf(cmd.model.apps) \subseteq Range(Alphabet) BY <3>1 DEF IsAppList, IdsOf, Range
    <3>3. {p.app : p \in Range(g)} \subseteq IdsOf(cmd.model.apps) BY <2>4, <2>5 DEF Regrouped, AreProducts
    <3> QED BY <3>2, <3>3 DEF NamesFree
  <2> DEFINE products == cmd.products
             rules == cmd.rules
  <2>7. AddressesOf(products) \subseteq Held(all)
    <3>1. Regrouped(g, products, rules) BY <2>5
    <3>2. wanted \in BOOLEAN /\ all = GeneratedFiles(g, moved, wanted, values) BY <2>1
    <3> HIDE DEF products, rules
    <3> QED BY <2>6, <3>1, <3>2, HeldIs
  <2>8. {e.idt : e \in MoveEndpoints(resources)} \subseteq Held(all)
    <3> SUFFICES ASSUME NEW r \in Range(resources) PROVE Address(r) \in Held(all) BY DEF MoveEndpoints
    <3>1. DOMAIN g = 1..Len(g) /\ Len(g) \in Nat BY <2>5 DEF Regrouped
    <3>2. PICK q \in Range(g) : q.resource = r BY <2>1, <3>1 DEF Range
    <3>3. PICK p \in Range(products) : Address(p.resource) = Address(q.resource) BY <2>5 DEF Regrouped
    <3> QED BY <2>7, <3>2, <3>3 DEF AddressesOf
  <2> HIDE DEF products, rules
  <2>9. Leading(moved, {e.idt : e \in MoveEndpoints(resources)})
    <3> DEFINE current == MoveEndpoints(resources)
               ends == {e.idt : e \in current}
    <3>1. moves = BuildMoves(current, list) /\ moves.errors = {} /\ moved = moves.moved BY <1>3, <2>1
    <3>2. ends = {e.idt : e \in current} OBVIOUS
    <3> HIDE DEF current, ends
    <3>3. BuildMoves(current, list).errors = {} BY <3>1
    <3>4. Leading(BuildMoves(current, list).moved, {e.idt : e \in current}) BY <2>2, <3>3, MovesBuilt
    <3>5. Leading(moved, ends) BY <3>1, <3>2, <3>4
    <3> QED BY <3>5 DEF ends, current
  <2>10. Led(all)
    <3> SUFFICES ASSUME MovedName \in DOMAIN all PROVE Leading(all[MovedName].moved, Held(all)) BY DEF Led
    <3>1. MovedName # OutputsName BY DEF MovedName, OutputsName
    <3>2. moved # {} BY <2>1, <2>6, <3>1 DEF GeneratedFiles
    <3>3. all[MovedName] = MovedFile(moved) BY <2>1, <3>1, <3>2 DEF GeneratedFiles
    <3>4. all[MovedName].moved = moved BY <3>3 DEF MovedFile
    <3> QED BY <2>8, <2>9, <3>4 DEF Leading
  <2>11. (AllApps => Led(cmd.output))'
    <3>1. AllApps' => output = all BY <2>1, <2>3 DEF AllApps
    <3> QED BY <2>3, <2>10, <3>1 DEF Led, Held
  <2>12. (history.whole => Led(infra))' BY <1>1 DEF MInv, Led, Held
  <2> QED BY <1>1, <2>11, <2>12 DEF MInv
<1> QED BY <1>1, <1>2, <1>3

LEMMA WriteM ==
  ASSUME IInv, RInv, MInv, WriteFile
  PROVE  MInv'
<1>1. /\ cmd.stage = "write" /\ cmd' = [cmd EXCEPT !.todo = Tail(@)]
      /\ history' = [history EXCEPT !.whole = FALSE] /\ UNCHANGED project
  BY DEF WriteFile, Running
<1>2. cmd'.stage = "write" /\ cmd'.output = cmd.output /\ cmd'.target = cmd.target
  BY <1>1 DEF IInv, Idle
<1>3. ~history'.whole BY <1>1 DEF RInv
<1>4. (AllApps => Led(cmd.output))' BY <1>1, <1>2 DEF MInv, AllApps, Led, Held
<1> QED BY <1>1, <1>3, <1>4 DEF MInv

LEMMA RemoveM ==
  ASSUME IInv, GInv, RInv, MInv, RemoveStale
  PROVE  MInv'
<1>1. /\ cmd.stage = "write" /\ cmd.todo = <<>> /\ infra' = [n \in DOMAIN cmd.output |-> infra[n]]
      /\ history' = [whole |-> cmd.target = NoTarget, edited |-> cmd.edited]
      /\ Fail(0, {}) /\ UNCHANGED project
  BY DEF RemoveStale, Running
<1>2. cmd'.stage = "done" BY <1>1 DEF Fail, IInv, Idle
<1>3. infra' = [n \in DOMAIN cmd.output |-> cmd.output[n]]
  <2>1. Range(cmd.todo) = {} BY <1>1 DEF Range
  <2>2. \A n \in DOMAIN cmd.output : infra[n] = cmd.output[n] BY <1>1, <2>1 DEF GInv, Pending
  <2> QED BY <1>1, <2>2
<1>4. AllApps => Led(cmd.output) /\ infra' = cmd.output BY <1>1, <1>3 DEF RInv, MInv, Whole
<1>5. (history.whole => Led(infra))'
  <2>1. history'.whole => AllApps BY <1>1 DEF AllApps
  <2> QED BY <1>4, <2>1 DEF Led, Held
<1> QED BY <1>1, <1>2, <1>5 DEF MInv

(* A step per action. *)
LEMMA NextM == HistoriesPlain /\ NamesFree /\ IInv /\ GInv /\ RInv /\ MInv /\ [Next]_vars => MInv'
<1> SUFFICES ASSUME HistoriesPlain, NamesFree, IInv, GInv, RInv, MInv, [Next]_vars PROVE MInv' OBVIOUS
<1>1. ASSUME NEW name \in DOMAIN NextStage, NEW t \in Targets, NEW dir \in {"infra", ".ycsf"},
             NEW v \in BOOLEAN, Begin(name, t, dir, v)
      PROVE  MInv'
  BY <1>1, BeginM
<1>2. CASE UNCHANGED vars
  <2>1. UNCHANGED <<project, infra, history, cmd>> BY <1>2 DEF vars, files
  <2>2. Led(infra)' <=> Led(infra) BY <2>1 DEF Led, Held
  <2>3. Led(cmd.output)' <=> Led(cmd.output) BY <2>1 DEF Led, Held
  <2> QED BY <2>1, <2>2, <2>3 DEF MInv, AllApps
<1> QED BY <1>1, <1>2, EditM, OthersM, GenerateM, WriteM, RemoveM DEF Next

(* The moved blocks of a generation give Terraform one destination for every object, *)
(* and an object known under any address of the history ends at an address that is   *)
(* generated now: if no app can be called as one of the two other files, and every   *)
(* history has one object at an address.                                             *)
THEOREM MovesAlwaysLead ==
  ASSUME NamesFree, HistoriesPlain
  PROVE  Spec => []MovesLead
<1>1. Spec => []IInv BY IInvInit, IInvNext, PTL DEF Spec
<1>2. Init /\ []IInv /\ [][Next]_vars => []GInv BY InitG, NextG, PTL
<1>3. IInv /\ GInv /\ RInv /\ [Next]_vars => RInv' BY NextR
<1>4. Init /\ []IInv /\ []GInv /\ [][Next]_vars => []RInv BY <1>3, InitR, PTL
<1>5. Init => MInv BY InitM
<1>6. IInv /\ GInv /\ RInv /\ MInv /\ [Next]_vars => MInv' BY NextM
<1>7. Init /\ []IInv /\ []GInv /\ []RInv /\ [][Next]_vars => []MInv BY <1>5, <1>6, PTL
<1>8. MInv => MovesLead
  <2>1. Generated = Held(infra) BY DEF Generated, Held
  <2> QED BY <2>1 DEF MInv, Led, Leading, MovesLead
<1> QED BY <1>1, <1>2, <1>4, <1>7, <1>8, PTL DEF Spec

-----------------------------------------------------------------------------
(* A check after a materialize: lists of what the files hold. *)

(* Every element of a finite set is listed once. *)
LEMMA SetListed ==
  ASSUME NEW S, IsFiniteSet(S), NEW list, list = SetToSeq(S)
  PROVE  /\ list \in Seq(S) /\ Range(list) = S
         /\ \A i, j \in DOMAIN list : list[i] = list[j] => i = j
<1> DEFINE N == Cardinality(S)
<1>1. N \in Nat /\ ExistsBijection(1..N, S) BY FS_CardinalityType
<1>2. PICK h \in Bijection(1..N, S) : TRUE BY <1>1 DEF ExistsBijection
<1>3. h \in [1..N -> S] /\ IsInjective(h) BY <1>2 DEF Bijection, Injection, IsInjective
<1>4. list = CHOOSE f \in [1..N -> S] : IsInjective(f) BY DEF SetToSeq
<1>5. list \in [1..N -> S] /\ IsInjective(list) BY <1>3, <1>4
<1>6. IsFiniteSet(1..N) /\ Cardinality(1..N) = N BY <1>1, FS_Interval
<1>7. list \in Injection(1..N, S) BY <1>5 DEF Injection, IsInjective
<1>8. list \in Surjection(1..N, S) BY <1>6, <1>7, FS_Injection
<1> HIDE DEF N
<1>9. Range(list) = S BY <1>5, <1>8 DEF Surjection, Range
<1>10. list \in Seq(S) BY <1>1, <1>5
<1> QED BY <1>5, <1>9, <1>10 DEF IsInjective

(* Where no value is listed twice, none is in what Only returns. *)
LEMMA OnlyOnce ==
  ASSUME NEW T, NEW seq \in Seq(T), NEW set, \A i, j \in DOMAIN seq : seq[i] = seq[j] => i = j
  PROVE  \A i, j \in DOMAIN Only(seq, set) : Only(seq, set)[i] = Only(seq, set)[j] => i = j
<1> DEFINE t == Only(seq, set)
<1>1. PICK at : Left(seq, set, Len(seq), t, at) BY OnlyLeft
<1> HIDE DEF t
<1>2. t \in Seq(Range(seq) \cap set) BY <1>1 DEF Left
<1>3. DOMAIN t = 1..Len(t) /\ Len(t) \in Nat /\ DOMAIN seq = 1..Len(seq) /\ Len(seq) \in Nat BY <1>2
<1>4. ASSUME NEW i \in DOMAIN t, NEW j \in DOMAIN t, t[i] = t[j] PROVE i = j
  <2>1. at[i] \in DOMAIN seq /\ at[j] \in DOMAIN seq /\ seq[at[i]] = seq[at[j]]
    BY <1>1, <1>3, <1>4 DEF Left
  <2>2. at[i] = at[j] BY <2>1
  <2>3. ~(i < j) /\ ~(j < i)
    <3>1. \A x, y \in DOMAIN t : x < y => at[x] < at[y] BY <1>1 DEF Left
    <3>2. at[i] \in Int /\ at[j] \in Int BY <1>3, <2>1
    <3> QED BY <2>2, <3>1, <3>2
  <2> QED BY <1>3, <2>3
<1> QED BY <1>4 DEF t

-----------------------------------------------------------------------------
(* The generated files, read again. *)

(* The resource at an address of a file, as check reads it.                  *)
ReadAt(tree, n, address) ==
  [type |-> address[1], name |-> address[2], config |-> tree[n].resources[address], refs |-> {}]

ReadFiles(tree) ==
  {ReadAt(tree, p[1], p[2]) : p \in UNION {{<<n, a>> : a \in DOMAIN tree[n].resources} : n \in DOMAIN tree}}

(* A resource that rules can name has the name of its app.                   *)
Named(products) ==
  \A p \in Range(products) : p.resource.type \in DOMAIN IdlDomain => p.resource.name = p.app

(* tree has the files of g, and g the resources of products, patched.        *)
Written(products, rules, g, tree) ==
  /\ Named(products) /\ Regrouped(g, products, rules)
  /\ Files(g, {q.app : q \in Range(g)}, tree)

(* What is read are the resources of the products, each from the file of its app. *)
LEMMA ReadIs ==
  ASSUME NEW products, NEW rules, NEW g, NEW tree, Written(products, rules, g, tree)
  PROVE  ReadFiles(tree) = {ReadAt(tree, q.app, Address(q.resource)) : q \in Range(g)}
<1> DEFINE own == {q.app : q \in Range(g)}
<1>1. g \in Seq(Range(g)) BY DEF Written, Regrouped
<1>2. /\ own \subseteq DOMAIN tree
      /\ \A n \in own : tree[n] = SerializeAppFile(g, n)
      /\ \A n \in DOMAIN tree \ own : DOMAIN tree[n].resources = {}
  BY Zenon DEF Written, Files
<1>3. ASSUME NEW n \in own PROVE Owned(g, n, tree[n].resources)
  <2>1. tree[n].resources = SerializeAppFile(g, n).resources BY <1>2
  <2> QED BY <1>1, <2>1, SerializedIs
<1>4. ASSUME NEW n \in DOMAIN tree, NEW a \in DOMAIN tree[n].resources
      PROVE  \E q \in Range(g) : n = q.app /\ a = Address(q.resource)
  <2>1. n \in own BY <1>2
  <2> QED BY <1>3, <2>1 DEF Owned
<1>5. ASSUME NEW q \in Range(g)
      PROVE  q.app \in DOMAIN tree /\ Address(q.resource) \in DOMAIN tree[q.app].resources
  <2>1. q.app \in own OBVIOUS
  <2> QED BY <1>2, <1>3, <2>1 DEF Owned
<1> HIDE DEF own
<1>6. ASSUME NEW x \in ReadFiles(tree)
      PROVE  \E q \in Range(g) : x = ReadAt(tree, q.app, Address(q.resource))
  <2>1. PICK n \in DOMAIN tree : \E a \in DOMAIN tree[n].resources : x = ReadAt(tree, n, a) BY DEF ReadFiles
  <2> QED BY <1>4, <2>1
<1>7. ASSUME NEW q \in Range(g)
      PROVE  ReadAt(tree, q.app, Address(q.resource)) \in ReadFiles(tree)
  <2> DEFINE pair == <<q.app, Address(q.resource)>>
  <2>1. pair \in UNION {{<<n, a>> : a \in DOMAIN tree[n].resources} : n \in DOMAIN tree} BY <1>5
  <2>2. ReadAt(tree, pair[1], pair[2]) = ReadAt(tree, q.app, Address(q.resource)) OBVIOUS
  <2> HIDE DEF pair
  <2> QED BY <2>1, <2>2 DEF ReadFiles
<1> QED BY <1>6, <1>7

(* No logical name is read twice, and those of the products are all read. *)
LEMMA ReadApart ==
  ASSUME NEW products, NEW rules, NEW g, NEW tree, Written(products, rules, g, tree),
         NEW x \in ReadFiles(tree), NEW y \in ReadFiles(tree),
         x.type \in DOMAIN IdlDomain, y.type \in DOMAIN IdlDomain, IdlFor(x) = IdlFor(y)
  PROVE  x = y
<1>1. PICK q \in Range(g) : x = ReadAt(tree, q.app, Address(q.resource)) BY ReadIs
<1>2. PICK s \in Range(g) : y = ReadAt(tree, s.app, Address(s.resource)) BY ReadIs
<1>3. ASSUME NEW z \in Range(g), z.resource.type \in DOMAIN IdlDomain PROVE z.app = z.resource.name
  <2>1. PICK p \in Range(products) : Address(p.resource) = Address(z.resource) /\ p.app = z.app
    BY DEF Written, Regrouped
  <2>2. p.resource.type = z.resource.type /\ p.resource.name = z.resource.name BY <2>1 DEF Address
  <2> QED BY <1>3, <2>1, <2>2 DEF Written, Named
<1>4. x.type = q.resource.type /\ x.name = q.resource.name BY <1>1 DEF ReadAt, Address
<1>5. y.type = s.resource.type /\ y.name = s.resource.name BY <1>2 DEF ReadAt, Address
<1>6. x.type = y.type /\ x.name = y.name
  <2>1. IdlDomain[x.type] = IdlDomain[y.type] /\ x.name = y.name BY DEF IdlFor
  <2> QED BY <2>1, TypesAssumption
<1>7. q.app = s.app /\ Address(q.resource) = Address(s.resource)
  BY <1>3, <1>4, <1>5, <1>6 DEF Address
<1> QED BY <1>1, <1>2, <1>7

LEMMA ReadNames ==
  ASSUME NEW products, NEW rules, NEW g, NEW tree, Written(products, rules, g, tree),
         NEW list, list \in Seq(Range(list)), Range(list) = ReadFiles(tree),
         NEW resources, resources \in Seq(Range(resources)),
         \A r \in Range(resources) : Address(r) \in AddressesOf(products)
  PROVE  Idls(resources) \subseteq Idls(list)
<1> SUFFICES ASSUME NEW r \in Range(Addressable(resources)) PROVE IdlFor(r) \in Idls(list) BY DEF Idls
<1>1. r \in Range(resources) /\ r.type \in DOMAIN IdlDomain BY AddressableIs
<1>2. PICK q \in Range(g) : Address(q.resource) = Address(r)
  <2>1. PICK p \in Range(products) : Address(p.resource) = Address(r) BY <1>1 DEF AddressesOf
  <2> QED BY <2>1 DEF Written, Regrouped
<1> DEFINE x == ReadAt(tree, q.app, Address(q.resource))
<1>3. x \in Range(list) BY ReadIs
<1>4. x.type = r.type /\ x.name = r.name BY <1>2 DEF ReadAt, Address
<1> HIDE DEF x
<1>5. x \in Range(Addressable(list)) BY <1>1, <1>3, <1>4, AddressableIs
<1>6. IdlFor(x) = IdlFor(r) BY <1>4 DEF IdlFor
<1> QED BY <1>5, <1>6 DEF Idls

(* What the check reads is a list of them, each once.                        *)
Listing(list, tree) ==
  /\ list \in Seq(Range(list)) /\ Range(list) = ReadFiles(tree)
  /\ \A i, j \in DOMAIN list : list[i] = list[j] => i = j

LEMMA ListingIs ==
  ASSUME NEW products, NEW rules, NEW g, NEW tree, Written(products, rules, g, tree)
  PROVE  Listing(SetToSeq(ReadFiles(tree)), tree)
<1> DEFINE at == [i \in DOMAIN g |-> ReadAt(tree, g[i].app, Address(g[i].resource))]
           list == SetToSeq(ReadFiles(tree))
<1>1. g \in Seq(Range(g)) BY DEF Written, Regrouped
<1>2. DOMAIN g = 1..Len(g) /\ Len(g) \in Nat BY <1>1
<1>3. ReadFiles(tree) = {at[i] : i \in DOMAIN g}
  <2>1. ReadFiles(tree) = {ReadAt(tree, q.app, Address(q.resource)) : q \in Range(g)} BY ReadIs
  <2> QED BY <2>1 DEF Range
<1>4. DOMAIN at = DOMAIN g /\ IsFiniteSet(DOMAIN g) BY <1>2, FS_Interval
<1> HIDE DEF at
<1>5. IsFiniteSet(ReadFiles(tree)) BY <1>3, <1>4, ImageFinite
<1>6. list = SetToSeq(ReadFiles(tree)) OBVIOUS
<1> HIDE DEF list
<1>7. /\ list \in Seq(ReadFiles(tree)) /\ Range(list) = ReadFiles(tree)
      /\ \A i, j \in DOMAIN list : list[i] = list[j] => i = j
  BY <1>5, <1>6, SetListed
<1> QED BY <1>7 DEF Listing, list

(* The rules that were applied to the products have nothing to complain of in the files. *)
LEMMA RulesAgree ==
  ASSUME NEW apps, NEW products, AreProducts(apps, products), NEW rules, IsRuleList(rules),
         NEW g, NEW tree, Written(products, rules, g, tree), Grouped(products, rules).errors = {},
         NEW list, Listing(list, tree)
  PROVE  RuleErrors(list, rules) = {}
<1> DEFINE plain == [i \in DOMAIN products |-> products[i].resource]
<1>1. list \in Seq(Range(list)) /\ Range(list) = ReadFiles(tree) BY DEF Listing
<1>2. DuplicateIdls(list) = {}
  <2> DEFINE a == Addressable(list)
             able == {r \in Range(list) : r.type \in DOMAIN IdlDomain}
  <2>1. a \in Seq(Range(list)) /\ Range(a) = able BY <1>1, OnlyIs, AddressableIs DEF Addressable
  <2>2. \A i, j \in DOMAIN a : a[i] = a[j] => i = j BY <1>1, OnlyOnce DEF Addressable, Listing
  <2>3. \A x, y \in able : IdlFor(x) = IdlFor(y) => x = y BY <1>1, ReadApart
  <2>4. DuplicateIdls(list) = {IdlFor(a[i]) : i \in {j \in DOMAIN a : \E k \in 1..j - 1 : IdlFor(a[k]) = IdlFor(a[j])}}
    BY DEF DuplicateIdls
  <2> HIDE DEF a, able
  <2>5. DOMAIN a = 1..Len(a) /\ Len(a) \in Nat BY <2>1
  <2>6. \A j \in DOMAIN a : a[j] \in able BY <2>1 DEF Range
  <2>7. \A j \in DOMAIN a : \A k \in 1..j - 1 : IdlFor(a[k]) # IdlFor(a[j])
    <3> SUFFICES ASSUME NEW j \in DOMAIN a, NEW k \in 1..j - 1, IdlFor(a[k]) = IdlFor(a[j]) PROVE FALSE
      OBVIOUS
    <3>1. k \in DOMAIN a /\ k # j BY <2>5
    <3>2. a[k] = a[j] BY <2>3, <2>6, <3>1
    <3> QED BY <2>2, <3>1, <3>2
  <2> QED BY <2>4, <2>7
<1>3. CASE rules = <<>>
  <2>1. Range(rules) = {} /\ DOMAIN rules = {} BY <1>3 DEF Range
  <2> QED BY <1>2, <2>1 DEF RuleErrors
<1>4. CASE rules # <<>>
  <2>1. ApplyRules(plain, rules).errors = {} BY <1>4 DEF Grouped
  <2>2. plain \in Seq(Range(plain)) /\ Range(plain) = {p.resource : p \in Range(products)} BY ResourcesAre
  <2>3. \A r \in Range(plain) : Address(r) \in AddressesOf(products) BY <2>2 DEF AddressesOf
  <2> HIDE DEF plain
  <2>4. RuleErrors(plain, rules) = {}
    <3>1. ApplyRules(plain, rules).errors = {e[1] : e \in RuleErrors(plain, rules)} BY DEF ApplyRules
    <3> QED BY <2>1, <3>1
  <2>5. Idls(plain) \subseteq Idls(list) BY <1>1, <2>2, <2>3, ReadNames
  <2>6. \A x \in Range(rules) : x.target \in Idls(list) BY <2>4, <2>5, RulesApply
  <2>7. {<<"EXT_DUPLICATE_TARGET", rules[i].target>> :
           i \in {j \in DOMAIN rules : \E k \in 1..j - 1 : rules[k].target = rules[j].target}} = {}
    BY <2>4 DEF RuleErrors
  <2> QED BY <1>2, <2>6, <2>7 DEF RuleErrors
<1> QED BY <1>3, <1>4

(* Nor have the outputs, *)
LEMMA OutputsAgree ==
  ASSUME NEW resources, NEW list, Idls(resources) \subseteq Idls(list), NEW entries,
         UserErrors(resources, entries) = {}
  PROVE  UserErrors(list, entries) = {}
<1>1. {"OUT_RESERVED_PREFIX" : e \in {f \in Range(entries) : Reserved(f.name)}} = {} BY DEF UserErrors
<1>2. ASSUME NEW e \in Range(entries), ~Reserved(e.name) PROVE ReferenceError(list, e.ref) = "none"
  <2>1. ReferenceError(resources, e.ref) = "none" BY <1>2 DEF UserErrors
  <2> QED BY <2>1 DEF ReferenceError
<1> QED BY <1>1, <1>2 DEF UserErrors

(* and the moves are the same. *)
LEMMA MovesAgree ==
  ASSUME NEW current, NEW moves, BuildMoves(current, moves).errors = {}
  PROVE  ValidateMoves(moves).errors = {}
  BY DEF BuildMoves

-----------------------------------------------------------------------------
(* A check agrees: the inductive invariant. *)

RulesNow == IF ParseExtensions(project.extensions) = "ok" THEN project.extensions.rules ELSE <<>>

(* That a check that reads this list has nothing to say of what materialize  *)
(* accepts.                                                                  *)
Accepts(list) ==
  /\ ModelNow.kind = "ok"
  /\ ParseExtensions(project.extensions) = "ok" => RuleErrors(list, project.extensions.rules) = {}
  /\ ParseOutputs(project.outputs) = "ok" => UserErrors(list, project.outputs.entries) = {}
  /\ ParseMoves(project.moves).ok => ValidateMoves(ParseMoves(project.moves).moves).errors = {}

Agrees(tree) == Accepts(SetToSeq(ReadFiles(tree)))

CInv ==
  /\ cmd.name = "check" => cmd.target = NoTarget /\ cmd.stage \in {"load", "check", "done"}
  /\ (cmd.stage \notin {"load", "done"} /\ ~cmd.edited) => ModelNow.kind = "ok"
  /\ cmd.stage = "materialize" => Named(cmd.products)
  /\ (cmd.stage = "materialize" /\ ~cmd.edited) => cmd.rules = RulesNow
  /\ (cmd.stage = "write" /\ AllApps /\ ~cmd.edited) => Agrees(cmd.output)
  /\ (history.whole /\ ~history.edited) => Agrees(infra)
  /\ CheckAgrees

(* A step that leaves the project and the files, and is not about to write. *)
LEMMA QuietC ==
  ASSUME CInv, UNCHANGED <<project, infra, history>>, cmd'.stage \notin {"materialize", "write"},
         cmd'.name = "check" => cmd'.target = NoTarget /\ cmd'.stage \in {"load", "check", "done"},
         (cmd'.stage \notin {"load", "done"} /\ ~cmd'.edited) => ModelNow.kind = "ok",
         CheckAgrees'
  PROVE  CInv'
<1>1. ModelNow' = ModelNow BY DEF ModelNow
<1>2. Agrees(infra)' <=> Agrees(infra) BY <1>1 DEF Agrees, Accepts
<1> QED BY <1>1, <1>2 DEF CInv

(* A command that fails and is no check is one. *)
LEMMA FailsC ==
  ASSUME IInv, CInv, UNCHANGED <<project, infra, history>>, cmd.name # "check", NEW code, NEW errors, Fail(code, errors)
  PROVE  CInv'
<1>1. cmd'.stage = "done" /\ cmd'.name # "check" BY DEF Fail, IInv, Idle
<1>2. CheckAgrees' BY <1>1 DEF CheckAgrees, Running
<1> QED BY <1>1, <1>2, QuietC

(* At the start nothing is generated. *)
LEMMA InitC == Init => CInv
  BY DEF Init, CInv, Idle, CheckAgrees, Running

(* A command starts, *)
LEMMA BeginC ==
  ASSUME CInv, NEW name \in DOMAIN NextStage, NEW target, NEW dir, NEW validateTf, Begin(name, target, dir, validateTf)
  PROVE  CInv'
<1>1. /\ cmd' = [Idle EXCEPT !.name = name, !.target = target, !.dir = dir,
                             !.validateTf = validateTf, !.stage = "load"]
      /\ UNCHANGED <<project, infra, history>>
      /\ name = "check" => target = NoTarget
  BY DEF Begin, files
<1>2. cmd'.stage = "load" /\ cmd'.name = name /\ cmd'.target = target BY <1>1 DEF Idle
<1>3. CheckAgrees' BY <1>2 DEF CheckAgrees, Running
<1> QED BY <1>1, <1>2, <1>3, QuietC

(* an edit is remembered, *)
LEMMA EditC ==
  ASSUME IInv, RInv, CInv, Edit
  PROVE  CInv'
<1>1. /\ cmd' = [cmd EXCEPT !.edited = TRUE] /\ history' = [history EXCEPT !.edited = TRUE] BY DEF Edit
<1>2. /\ UNCHANGED <<cmd.name, cmd.stage, cmd.target, cmd.products>> /\ cmd'.edited = TRUE
  BY <1>1 DEF IInv, Idle
<1>3. history'.edited = TRUE BY <1>1 DEF RInv
<1>4. CheckAgrees' BY <1>3 DEF CheckAgrees
<1> QED BY <1>2, <1>3, <1>4 DEF CInv

(* a model is loaded, and not refused where there are files that agree, *)
LEMMA LoadC ==
  ASSUME IInv, CInv, LoadModel
  PROVE  CInv'
<1> DEFINE env == IF cmd.name # "build" THEN {}
                  ELSE UNION {PrepareBuildEnv(project, project.env, a) :
                                a \in {b \in Range(ModelNow.apps) : b.id \in Scope(ModelNow)}}
<1>1. cmd.stage = "load" /\ UNCHANGED <<project, infra, history>> BY DEF LoadModel, files
<1>2. IF ModelNow.kind = "missing" THEN Fail(2, {"CLI_MISSING_PROJECT_DIR"})
      ELSE IF ModelNow.kind = "invalid" THEN Fail(1, ModelNow.errors)
      ELSE IF ~(Scope(ModelNow) \subseteq IdsOf(ModelNow.apps)) THEN Fail(2, {"CLI_APP_NOT_FOUND"})
      ELSE IF env # {} THEN Fail(1, env)
      ELSE cmd' = [cmd EXCEPT !.model = ModelNow, !.stage = NextStage[cmd.name]]
  BY DEF LoadModel, ModelNow
<1>3. cmd.name = "check" => env = {} OBVIOUS
<1> HIDE DEF env
<1>4. ModelNow.kind \in {"missing", "invalid", "ok"}
  BY DEF ModelNow, LoadProjectModel, Refused
<1>5. CASE cmd' = [cmd EXCEPT !.model = ModelNow, !.stage = NextStage[cmd.name]] /\ ModelNow.kind = "ok"
  <2>1. cmd.name \in {"build", "materialize", "check"} BY <1>1 DEF IInv, NextStage
  <2>2. /\ NextStage[cmd.name] \in {"registry", "check"}
        /\ cmd.name = "check" => NextStage[cmd.name] = "check"
    BY <2>1 DEF NextStage
  <2>3. cmd'.stage = NextStage[cmd.name] /\ cmd'.name = cmd.name /\ cmd'.target = cmd.target
    BY <1>5 DEF IInv, Idle
  <2>4. CheckAgrees' BY <2>2, <2>3 DEF CheckAgrees, Running
  <2>5. cmd'.name = "check" => cmd'.target = NoTarget /\ cmd'.stage \in {"load", "check", "done"}
    BY <2>2, <2>3 DEF CInv
  <2> QED BY <1>1, <1>5, <2>2, <2>3, <2>4, <2>5, QuietC
<1>6. CASE /\ \E code, errors : Fail(code, errors)
           /\ cmd.name # "check" \/ ModelNow.kind # "ok"
  <2>1. cmd'.stage = "done" /\ cmd'.name = cmd.name /\ cmd'.target = cmd.target BY <1>6 DEF Fail, IInv, Idle
  <2>2. CheckAgrees'
    <3> SUFFICES ASSUME cmd.name = "check", history.whole, ~history.edited PROVE FALSE
      BY <1>1, <2>1 DEF CheckAgrees, Running
    <3>1. Agrees(infra) BY DEF CInv
    <3> QED BY <1>6, <3>1 DEF Agrees, Accepts
  <2>3. cmd'.name = "check" => cmd'.target = NoTarget BY <2>1 DEF CInv
  <2> QED BY <1>1, <2>1, <2>2, <2>3, QuietC
<1>7. (cmd.name = "check" /\ ModelNow.kind = "ok") => Scope(ModelNow) \subseteq IdsOf(ModelNow.apps)
  BY DEF CInv, Scope
<1> QED BY <1>2, <1>3, <1>4, <1>5, <1>6, <1>7

(* plugins are loaded and apps built, *)
LEMMA OthersC ==
  ASSUME IInv, CInv, Interrupt \/ LoadPlugins \/ BuildApp \/ BuildEnds
  PROVE  CInv'
<1>1. UNCHANGED <<project, infra, history>> BY DEF Interrupt, LoadPlugins, BuildApp, BuildEnds, files
<1>2. cmd.name # "check"
  <2>1. cmd.stage \in {"registry", "build", "materialize", "write"}
    BY DEF Interrupt, LoadPlugins, BuildApp, BuildEnds, Running
  <2> QED BY <2>1 DEF CInv
<1>3. CASE Interrupt \/ BuildEnds BY <1>1, <1>2, <1>3, FailsC DEF Interrupt, BuildEnds
<1>4. ASSUME cmd'.stage \in {"build", "select"}, cmd'.name = cmd.name, cmd'.edited = cmd.edited,
             cmd.stage \in {"registry", "build"}
      PROVE  CInv'
  <2>1. CheckAgrees' BY <1>2, <1>4 DEF CheckAgrees, Running
  <2>2. ~cmd'.edited => ModelNow.kind = "ok" BY <1>4 DEF CInv
  <2> QED BY <1>1, <1>2, <1>4, <2>1, <2>2, QuietC
<1>5. CASE LoadPlugins
  <2> DEFINE records == LoadRegistry(project.builders).records
             order == Only(cmd.model.order, Scope(cmd.model))
  <2>1. /\ cmd.stage = "registry"
        /\ \/ \E code, errors : Fail(code, errors)
           \/ cmd' = [cmd EXCEPT !.records = records, !.todo = order, !.stage = "build"]
           \/ cmd' = [cmd EXCEPT !.records = records, !.stage = "select"]
    BY <1>5 DEF LoadPlugins
  <2> HIDE DEF records, order
  <2>2. CASE \/ cmd' = [cmd EXCEPT !.records = records, !.todo = order, !.stage = "build"]
             \/ cmd' = [cmd EXCEPT !.records = records, !.stage = "select"]
    <3>1. cmd'.stage \in {"build", "select"} /\ cmd'.name = cmd.name /\ cmd'.edited = cmd.edited
      BY <2>2 DEF IInv, Idle
    <3> QED BY <1>4, <2>1, <3>1
  <2> QED BY <1>1, <1>2, <2>1, <2>2, FailsC
<1>6. CASE BuildApp
  <2>1. cmd.stage = "build" /\ (Fail(1, {"CLI_BUILD_FAILED"}) \/ cmd' = [cmd EXCEPT !.todo = Tail(@)])
    BY <1>6 DEF BuildApp, Running
  <2>2. CASE cmd' = [cmd EXCEPT !.todo = Tail(@)]
    <3>1. cmd'.stage = "build" /\ cmd'.name = cmd.name /\ cmd'.edited = cmd.edited BY <2>1, <2>2 DEF IInv, Idle
    <3> QED BY <1>4, <2>1, <3>1
  <2> QED BY <1>1, <1>2, <2>1, <2>2, FailsC
<1> QED BY <1>3, <1>5, <1>6

(* A step of materialize before it writes. *)
LEMMA GoesOnC ==
  ASSUME CInv, UNCHANGED <<project, infra, history>>, cmd.stage \in {"select", "materialize"},
         cmd'.stage \in {"materialize", "write"}, cmd'.name = cmd.name, cmd'.edited = cmd.edited,
         cmd'.stage = "materialize" => Named(cmd'.products),
         (cmd'.stage = "materialize" /\ ~cmd'.edited) => cmd'.rules = RulesNow,
         (cmd'.stage = "write" /\ cmd'.target = NoTarget /\ ~cmd'.edited) => Agrees(cmd'.output)
  PROVE  CInv'
<1>1. ModelNow' = ModelNow /\ RulesNow' = RulesNow BY DEF ModelNow, RulesNow
<1>2. Agrees(infra)' <=> Agrees(infra) BY <1>1 DEF Agrees, Accepts
<1>3. Agrees(cmd.output)' <=> Agrees(cmd'.output) BY <1>1 DEF Agrees, Accepts
<1>4. cmd'.name # "check" BY DEF CInv
<1>5. CheckAgrees' BY <1>4 DEF CheckAgrees, Running
<1>6. (history.whole /\ ~history.edited => Agrees(infra))' BY <1>2 DEF CInv
<1>7. ~cmd'.edited => ModelNow.kind = "ok" BY DEF CInv
<1> QED BY <1>1, <1>3, <1>4, <1>5, <1>6, <1>7 DEF CInv, AllApps

(* The rules are read, *)
LEMMA SelectC ==
  ASSUME IInv, GInv, CInv, Select
  PROVE  CInv'
<1> DEFINE extensions == ParseExtensions(project.extensions)
           rules == IF extensions = "ok" THEN project.extensions.rules ELSE <<>>
           order == DeterministicOrder(cmd.model.apps)
           artifacts == ReadStore.artifacts
           matches == SelectArtifacts(cmd.model, cmd.records).matches
           to == [cmd EXCEPT !.artifacts = artifacts, !.rules = rules, !.matches = matches,
                             !.todo = order, !.stage = "materialize"]
<1>1. /\ cmd.stage = "select" /\ UNCHANGED <<project, infra, history>>
      /\ \/ \E code, errors : Fail(code, errors)
         \/ cmd' = to
  BY DEF Select, Running, files
<1>2. cmd.name # "check" BY <1>1 DEF CInv
<1>3. CASE \E code, errors : Fail(code, errors) BY <1>1, <1>2, <1>3, FailsC
<1>4. CASE cmd' = to
  <2>1. rules = RulesNow BY DEF RulesNow
  <2> HIDE DEF rules, order, artifacts, matches
  <2>2. /\ cmd'.stage = "materialize" /\ cmd'.name = cmd.name /\ cmd'.edited = cmd.edited
        /\ cmd'.products = cmd.products /\ cmd'.rules = rules
    BY <1>4 DEF IInv, Idle
  <2>3. Named(cmd'.products)
    <3>1. cmd'.products = <<>> BY <1>1, <2>2 DEF GInv
    <3>2. Range(cmd'.products) = {} BY <3>1 DEF Range
    <3> QED BY <3>2 DEF Named
  <2> QED BY <1>1, <2>1, <2>2, <2>3, GoesOnC
<1> QED BY <1>1, <1>3, <1>4

(* What a materializer returns for an app has its name, or is an object of a bucket. *)
NamedAfter(app, resources) ==
  \A r \in Range(resources) : r.name = app \/ r.type = "yandex_storage_object"

LEMMA OneNamed ==
  ASSUME NEW type, NEW app, NEW config, NEW refs, NEW resources,
         resources = <<Resource(type, app, config, refs)>>
  PROVE  NamedAfter(app, resources)
<1> DEFINE r == Resource(type, app, config, refs)
<1>1. r.name = app BY DEF Resource
<1> HIDE DEF r
<1>2. Range(resources) = {r}
  <2>1. resources = <<r>> BY DEF r
  <2> QED BY <2>1 DEF Range
<1> QED BY <1>1, <1>2 DEF NamedAfter

LEMMA BucketNamed ==
  ASSUME NEW app, NEW value, NEW tree, NEW result, result = YandexStorageBucket(app, value, tree), result.ok
  PROVE  NamedAfter(app, result.resources)
<1> DEFINE names == Only(FileOrder, tree.files)
           bucket == Resource("yandex_storage_bucket", app, <<"bucket">> :> app, {})
           object(f) == Resource("yandex_storage_object", app \o SanitizeFilename(f),
                                 <<"key">> :> f, {<<"yandex_storage_bucket", app>>})
           objects == [i \in DOMAIN names |-> object(names[i])]
<1>1. result.resources = <<bucket>> \o objects BY DEF YandexStorageBucket, Failed, Produced
<1>2. bucket.name = app /\ \A f : object(f).type = "yandex_storage_object" BY DEF Resource
<1> HIDE DEF bucket, object
<1>3. FileOrder \in Seq(Range(FileOrder)) BY DefinitionsAssumption
<1>4. names \in Seq(Range(FileOrder)) BY <1>3, OnlyIs
<1> HIDE DEF names
<1>5. DOMAIN names = 1..Len(names) /\ Len(names) \in Nat BY <1>4
<1>6. /\ DOMAIN objects = 1..Len(names) /\ objects = [i \in 1..Len(names) |-> objects[i]]
      /\ \A i \in DOMAIN objects : objects[i] = object(names[i])
  BY <1>5
<1> HIDE DEF objects
<1>7. objects \in Seq(Range(objects)) BY <1>5, <1>6, ListIs
<1> DEFINE first == <<bucket>>
<1>8. first \in Seq({bucket}) /\ Range(first) = {bucket} BY DEF Range
<1>9. Range(result.resources) = {bucket} \cup Range(objects)
  <2>1. result.resources = first \o objects BY <1>1
  <2> HIDE DEF first
  <2>2. Range(first \o objects) = Range(first) \cup Range(objects) BY <1>7, <1>8, Joined
  <2> QED BY <1>8, <2>1, <2>2, Zenon
<1>10. \A r \in Range(objects) : r.type = "yandex_storage_object" BY <1>2, <1>6 DEF Range
<1> QED BY <1>2, <1>9, <1>10 DEF NamedAfter

LEMMA MaterializedNamed ==
  ASSUME NEW package, NEW app, NEW value, NEW tree, NEW result,
         result = Materialize(package, app, value, tree), result.ok
  PROVE  NamedAfter(app, result.resources)
<1>1. CASE result = YandexFunction(app, value, tree)
  <2>1. \E config : result.resources = <<Resource("yandex_function", app, config, {})>>
    BY <1>1 DEF YandexFunction, Failed, Produced
  <2> QED BY <2>1, OneNamed
<1>2. CASE result = YandexServerlessContainer(app, value)
  <2>1. \E config : result.resources = <<Resource("yandex_serverless_container", app, config, {})>>
    BY <1>2 DEF YandexServerlessContainer, Failed, Produced
  <2> QED BY <2>1, OneNamed
<1>3. CASE result = YandexMessageQueue(app, value)
  <2>1. \E config : result.resources = <<Resource("yandex_message_queue", app, config, {})>>
    BY <1>3 DEF YandexMessageQueue, Failed, Produced
  <2> QED BY <2>1, OneNamed
<1>4. CASE result = YandexStorageBucket(app, value, tree) BY <1>4, BucketNamed
<1>5. CASE result = YandexApiGateway(app, value)
  <2>1. value.kind = "spec" BY <1>5 DEF YandexApiGateway, Failed
  <2>2. \E config : result.resources = <<Resource("yandex_api_gateway", app, config, value.refs)>>
    BY <1>5, <2>1 DEF YandexApiGateway, Failed, Produced
  <2> QED BY <2>2, OneNamed
<1>6. CASE result = Failed BY <1>6 DEF Failed
<1> QED BY <1>1, <1>2, <1>3, <1>4, <1>5, <1>6, Zenon DEF Materialize

(* apps are materialized, *)
LEMMA MaterializeC ==
  ASSUME IInv, GInv, CInv, MaterializeApp
  PROVE  CInv'
<1> DEFINE id == Head(cmd.todo)
           value == Of(cmd.artifacts, id, NoValue)
           tree == Of(dist, id, EmptyDist)
           result == Materialize(cmd.matches[id], id, value, tree)
           new == [i \in DOMAIN result.resources |-> [app |-> id, resource |-> result.resources[i]]]
           products == cmd.products \o new
           auto == Declare(cmd.auto, result.outputs)
           duplicates == cmd.duplicates \/ \E o \in Range(result.outputs), p \in Range(cmd.auto) :
                                                 o.name = p.name
           to == [cmd EXCEPT !.todo = Tail(@), !.products = products, !.auto = auto,
                             !.duplicates = duplicates]
<1>1. /\ cmd.stage = "materialize" /\ cmd.todo # <<>> /\ UNCHANGED <<project, infra, history>>
      /\ Fail(1, {"MTL_MATERIALIZE_FAILED"}) \/ (result.ok /\ cmd' = to)
  BY DEF MaterializeApp, Running
<1>2. cmd.name # "check" BY <1>1 DEF CInv
<1>3. CASE Fail(1, {"MTL_MATERIALIZE_FAILED"}) BY <1>1, <1>2, <1>3, FailsC
<1>4. CASE result.ok /\ cmd' = to
  <2>1. Returned(result, value) /\ NamedAfter(id, result.resources)
    <3>1. result = Materialize(cmd.matches[id], id, value, tree) OBVIOUS
    <3> HIDE DEF result, value, tree
    <3> QED BY <1>4, <3>1, MaterializedIs, MaterializedNamed
  <2> HIDE DEF auto, duplicates, value, result, new
  <2>2. /\ cmd'.stage = "materialize" /\ cmd'.rules = cmd.rules /\ cmd'.name = cmd.name
        /\ cmd'.edited = cmd.edited /\ cmd'.products = cmd.products \o new
    BY <1>1, <1>4 DEF IInv, Idle
  <2>3. AreProducts(cmd.model.apps, cmd.products) BY <1>1 DEF GInv, Collected
  <2>4. id \in IdsOf(cmd.model.apps)
    <3>1. cmd.todo \in Seq(IdsOf(cmd.model.apps)) BY <1>1 DEF IInv, Sorted
    <3> DEFINE t == cmd.todo
    <3>2. t \in Seq(IdsOf(cmd.model.apps)) /\ t # <<>> BY <1>1, <3>1
    <3> HIDE DEF t
    <3>3. Head(t) \in IdsOf(cmd.model.apps) BY <3>2
    <3> QED BY <3>3 DEF t
  <2>5. new = [i \in DOMAIN result.resources |-> [app |-> id, resource |-> result.resources[i]]] BY DEF new
  <2> HIDE DEF id
  <2>6. Extended(cmd.model.apps, cmd.products, id, result.resources, cmd.products \o new)
    BY <2>1, <2>3, <2>4, <2>5, ProductsMore
  <2>7. Named(cmd.products \o new)
    <3> DEFINE more == cmd.products \o new
    <3>1. \A p \in Range(more) :
            p \in Range(cmd.products) \/ (p.app = id /\ p.resource \in Range(result.resources))
      BY <2>6 DEF Extended
    <3> HIDE DEF more
    <3>2. Named(cmd.products) BY <1>1 DEF CInv
    <3>3. \A p \in Range(more) : p.resource.type \in DOMAIN IdlDomain => p.resource.name = p.app
      BY <2>1, <3>1, <3>2, TypesAssumption DEF Named, NamedAfter
    <3> QED BY <3>3 DEF Named, more
  <2>8. ~cmd'.edited => cmd'.rules = RulesNow BY <1>1, <2>2 DEF CInv
  <2> QED BY <1>1, <2>2, <2>7, <2>8, GoesOnC
<1> QED BY <1>1, <1>3, <1>4

(* What was accepted is written, *)
LEMMA GenerateC ==
  ASSUME NamesFree, IInv, GInv, CInv, Generate
  PROVE  CInv'
<1> DEFINE grouped   == Grouped(cmd.products, cmd.rules)
           g         == grouped.products
           resources == [i \in DOMAIN g |-> g[i].resource]
           invalid   == \E r \in Range(resources) : ~ValidAddress(r)
           document  == ParseMoves(project.moves)
           current   == MoveEndpoints(resources)
           moves     == BuildMoves(current, IF document.ok THEN document.moves ELSE <<>>)
           moved     == moves.moved
           wanted    == ParseOutputs(project.outputs) = "ok"
           entries   == project.outputs.entries
           outputs   == BuildOutputs(resources, entries, cmd.auto)
           values    == outputs.values
           all       == GeneratedFiles(g, moved, wanted, values)
           output    == IF cmd.target = NoTarget THEN all
                        ELSE [n \in {cmd.target} \cap DOMAIN all |-> all[n]]
           todo      == Only(FileNames(g), DOMAIN output)
<1>1. /\ cmd.stage = "materialize" /\ UNCHANGED <<project, infra, history>>
      /\ \/ \E errors : Fail(1, errors)
         \/ /\ grouped.errors = {} /\ moves.errors = {} /\ (wanted => outputs.errors = {})
            /\ cmd' = [cmd EXCEPT !.output = output, !.stage = "write", !.todo = todo]
  <2>1. cmd.stage = "materialize" /\ UNCHANGED <<project, infra, history>> BY DEF Generate, Running, files
  <2>2. IF grouped.errors # {} THEN Fail(1, grouped.errors)
        ELSE IF invalid THEN Fail(1, {"MTL_INVALID_TERRAFORM_ADDRESS"})
        ELSE IF cmd.duplicates THEN Fail(1, {"MTL_OUTPUT_NAME_COLLISION"})
        ELSE IF moves.errors # {} THEN Fail(1, moves.errors)
        ELSE IF wanted /\ outputs.errors # {} THEN Fail(1, outputs.errors)
        ELSE cmd' = [cmd EXCEPT !.output = output, !.stage = "write", !.todo = todo]
    BY DEF Generate
  <2> HIDE DEF grouped, invalid, moves, wanted, outputs, output, todo
  <2> QED BY <2>1, <2>2
<1>2. cmd.name # "check" BY <1>1 DEF CInv
<1>3. CASE \E errors : Fail(1, errors) BY <1>1, <1>2, <1>3, FailsC
<1>4. CASE /\ grouped.errors = {} /\ moves.errors = {} /\ (wanted => outputs.errors = {})
           /\ cmd' = [cmd EXCEPT !.output = output, !.stage = "write", !.todo = todo]
  <2>1. /\ grouped = Grouped(cmd.products, cmd.rules) /\ g = grouped.products
        /\ resources = [i \in DOMAIN g |-> g[i].resource]
        /\ (cmd.target = NoTarget => output = all)
    OBVIOUS
  <2>2. wanted \in BOOLEAN /\ all = GeneratedFiles(g, moved, wanted, values) OBVIOUS
  <2>3. wanted => UserErrors(resources, entries) = {}
    <3>1. outputs.errors = UserErrors(resources, entries) \cup AutoErrors(entries, cmd.auto) BY DEF BuildOutputs
    <3> HIDE DEF outputs, wanted, resources, entries
    <3> QED BY <1>4, <3>1
  <2>4. document.ok => ValidateMoves(document.moves).errors = {}
    <3> SUFFICES ASSUME document.ok PROVE ValidateMoves(document.moves).errors = {} OBVIOUS
    <3> DEFINE listed == document.moves
    <3>1. moves = BuildMoves(current, listed) OBVIOUS
    <3> HIDE DEF moves, current, listed
    <3>2. BuildMoves(current, listed).errors = {} BY <1>4, <3>1
    <3>3. ValidateMoves(listed).errors = {} BY <3>2, MovesAgree
    <3> QED BY <3>3 DEF listed
  <2>5. wanted <=> ParseOutputs(project.outputs) = "ok" OBVIOUS
  <2> HIDE DEF grouped, g, resources, moves, moved, wanted, outputs, values, all, output, todo
  <2>6. /\ cmd'.output = output /\ cmd'.stage = "write" /\ cmd'.target = cmd.target
        /\ cmd'.name = cmd.name /\ cmd'.edited = cmd.edited
    BY <1>4 DEF IInv, Idle
  <2>7. AreProducts(cmd.model.apps, cmd.products) /\ IsRuleList(cmd.rules)
    BY <1>1 DEF GInv, Collected
  <2>8. Regrouped(g, cmd.products, cmd.rules) BY <1>4, <2>1, <2>7, GroupedIs
  <2>9. {MovedName, OutputsName} \cap {p.app : p \in Range(g)} = {}
    <3>1. IsAppList(cmd.model.apps) BY <1>1 DEF IInv, Loaded
    <3>2. IdsOf(cmd.model.apps) \subseteq Range(Alphabet) BY <3>1 DEF IsAppList, IdsOf, Range
    <3>3. {p.app : p \in Range(g)} \subseteq IdsOf(cmd.model.apps) BY <2>7, <2>8 DEF Regrouped, AreProducts
    <3> QED BY <3>2, <3>3 DEF NamesFree
  <2>10. Files(g, {p.app : p \in Range(g)}, all) BY <2>2, <2>9, FilesAre
  <2>11. Written(cmd.products, cmd.rules, g, all)
    <3>1. Named(cmd.products) BY <1>1 DEF CInv
    <3> QED BY <2>8, <2>10, <3>1 DEF Written
  <2> DEFINE list == SetToSeq(ReadFiles(all))
             products == cmd.products
             rules == cmd.rules
  <2>12. Listing(list, all) BY <2>11, ListingIs
  <2>13. RuleErrors(list, rules) = {}
    <3>1. /\ AreProducts(cmd.model.apps, products) /\ IsRuleList(rules) /\ Written(products, rules, g, all)
          /\ Grouped(products, rules).errors = {}
      BY <1>4, <2>1, <2>7, <2>11
    <3> HIDE DEF list, products, rules
    <3> QED BY <2>12, <3>1, RulesAgree
  <2>14. Idls(resources) \subseteq Idls(list)
    <3>1. DOMAIN g = 1..Len(g) /\ Len(g) \in Nat BY <2>8 DEF Regrouped
    <3>2. resources \in Seq(Range(resources))
      <4>1. resources = [i \in 1..Len(g) |-> resources[i]] BY <2>1, <3>1
      <4> QED BY <3>1, <4>1, ListIs
    <3>3. \A r \in Range(resources) : Address(r) \in AddressesOf(products)
      <4> SUFFICES ASSUME NEW r \in Range(resources) PROVE Address(r) \in AddressesOf(products) OBVIOUS
      <4>1. PICK q \in Range(g) : q.resource = r BY <2>1, <3>1 DEF Range
      <4>2. PICK p \in Range(products) : Address(p.resource) = Address(q.resource) BY <2>8 DEF Regrouped
      <4> QED BY <4>1, <4>2 DEF AddressesOf
    <3>4. Written(products, rules, g, all) /\ list \in Seq(Range(list)) /\ Range(list) = ReadFiles(all)
      BY <2>11, <2>12 DEF Listing
    <3> HIDE DEF list, products, rules
    <3> QED BY <3>2, <3>3, <3>4, ReadNames
  <2> HIDE DEF list
  <2>15. wanted => UserErrors(list, entries) = {} BY <2>3, <2>14, OutputsAgree
  <2>16. ~cmd.edited => Accepts(list)
    <3> SUFFICES ASSUME ~cmd.edited PROVE Accepts(list) OBVIOUS
    <3>1. ModelNow.kind = "ok" /\ cmd.rules = RulesNow BY <1>1 DEF CInv
    <3>2. ParseExtensions(project.extensions) = "ok" => RuleErrors(list, project.extensions.rules) = {}
      BY <2>13, <3>1 DEF RulesNow
    <3> QED BY <2>4, <2>5, <2>15, <3>1, <3>2 DEF Accepts
  <2>17. (cmd'.target = NoTarget /\ ~cmd'.edited) => Agrees(cmd'.output)
    <3>1. cmd'.target = NoTarget => cmd'.output = all BY <2>1, <2>6
    <3> QED BY <2>6, <2>16, <3>1 DEF Agrees, list
  <2> QED BY <1>1, <2>6, <2>17, GoesOnC
<1> QED BY <1>1, <1>3, <1>4

LEMMA WriteC ==
  ASSUME IInv, RInv, CInv, WriteFile
  PROVE  CInv'
<1>1. /\ cmd.stage = "write" /\ cmd' = [cmd EXCEPT !.todo = Tail(@)]
      /\ history' = [history EXCEPT !.whole = FALSE] /\ UNCHANGED project
  BY DEF WriteFile, Running
<1>2. /\ cmd'.stage = "write" /\ UNCHANGED <<cmd.output, cmd.target, cmd.name, cmd.edited>>
  BY <1>1 DEF IInv, Idle
<1>3. ~history'.whole BY <1>1 DEF RInv
<1>4. ModelNow' = ModelNow BY <1>1 DEF ModelNow
<1>5. Agrees(cmd.output)' <=> Agrees(cmd.output) BY <1>1, <1>2, <1>4 DEF Agrees, Accepts
<1>6. CheckAgrees' BY <1>3 DEF CheckAgrees
<1>7. AllApps' <=> AllApps BY <1>2 DEF AllApps
<1> QED BY <1>1, <1>2, <1>3, <1>4, <1>5, <1>6, <1>7 DEF CInv

(* and is all that is left. *)
LEMMA RemoveC ==
  ASSUME IInv, GInv, RInv, CInv, RemoveStale
  PROVE  CInv'
<1>1. /\ cmd.stage = "write" /\ cmd.todo = <<>> /\ infra' = [n \in DOMAIN cmd.output |-> infra[n]]
      /\ history' = [whole |-> cmd.target = NoTarget, edited |-> cmd.edited]
      /\ Fail(0, {}) /\ UNCHANGED project
  BY DEF RemoveStale, Running
<1>2. cmd'.stage = "done" /\ cmd'.name = cmd.name BY <1>1 DEF Fail, IInv, Idle
<1>3. infra' = [n \in DOMAIN cmd.output |-> cmd.output[n]]
  <2>1. Range(cmd.todo) = {} BY <1>1 DEF Range
  <2>2. \A n \in DOMAIN cmd.output : infra[n] = cmd.output[n] BY <1>1, <2>1 DEF GInv, Pending
  <2> QED BY <1>1, <2>2
<1>4. AllApps => infra' = cmd.output BY <1>1, <1>3 DEF RInv, Whole
<1>5. (AllApps /\ ~cmd.edited) => Agrees(cmd.output) BY <1>1 DEF CInv
<1>6. ModelNow' = ModelNow BY <1>1 DEF ModelNow
<1>7. (history.whole /\ ~history.edited => Agrees(infra))'
  <2> SUFFICES ASSUME history'.whole, ~history'.edited PROVE Agrees(infra)' OBVIOUS
  <2>1. AllApps /\ ~cmd.edited BY <1>1 DEF AllApps
  <2>2. infra' = cmd.output /\ Agrees(cmd.output) BY <1>4, <1>5, <2>1
  <2> QED BY <1>1, <1>6, <2>2 DEF Agrees, Accepts
<1>8. cmd.name # "check" BY <1>1 DEF CInv
<1>9. CheckAgrees' BY <1>2, <1>8 DEF CheckAgrees, Running
<1> QED BY <1>2, <1>7, <1>8, <1>9 DEF CInv

(* A check over what was left reports nothing that was accepted. *)
LEMMA CheckC ==
  ASSUME IInv, CInv, CheckProject
  PROVE  CInv'
<1> DEFINE generated  == SetToSeq(LoadGeneratedModel)
           registry   == LoadRegistry(project.builders)
           extensions == ParseExtensions(project.extensions)
           rules      == project.extensions.rules
           entries    == project.outputs.entries
           document   == ParseMoves(project.moves)
           unknown    == IF registry.kind = "ok" THEN ValidateBuilders(cmd.model, registry.records) ELSE {}
           ruled      == IF extensions = "ok"
                         THEN CheckOverrideTargets(rules, generated) \cup ApplyRules(generated, rules).errors
                              \cup ScanPatchForEnvRefs(rules)
                         ELSE {}
           consistent == CheckResourceConsistency(cmd.model, generated)
           outputs    == IF ParseOutputs(project.outputs) = "ok"
                         THEN BuildOutputs(generated, entries, <<>>).errors ELSE {}
           moves      == IF document.ok THEN ValidateMoves(document.moves).errors ELSE {}
           suspicious == ScanSuspiciousKeys(cmd.model)
           found      == unknown \cup ruled \cup consistent \cup outputs \cup moves \cup suspicious
           verdicts   == IF cmd.validateTf /\ found = {} THEN RunTerraformValidate ELSE {{}}
           code(v)    == IF found \cup v = {} THEN 0 ELSE 1
           allowed    == {"YCK_SUSPICIOUS_KEY", "YCK_ENV_IN_PATCH", "YCK_REF_UNRESOLVED",
                          "YCK_TERRAFORM_INVALID", "YCK_TERRAFORM_UNAVAILABLE", "BRG_UNKNOWN_BUILDER"}
<1>1. /\ cmd.name = "check" /\ cmd.stage = "check" /\ UNCHANGED <<project, infra, history>>
      /\ \E v \in verdicts : Fail(code(v), found \cup v)
  BY DEF CheckProject, Running, files
<1>2. \A v \in verdicts : v \subseteq allowed BY DEF RunTerraformValidate
<1>3. unknown \subseteq allowed /\ consistent \subseteq allowed /\ suspicious \subseteq allowed
  BY DEF ValidateBuilders, CheckResourceConsistency, ScanSuspiciousKeys
<1>4. ScanPatchForEnvRefs(rules) \subseteq allowed BY DEF ScanPatchForEnvRefs
<1>5. ASSUME cmd.dir = "infra", history.whole, ~history.edited
      PROVE  ruled \subseteq allowed /\ outputs = {} /\ moves = {}
  <2>1. LoadGeneratedModel = ReadFiles(infra)
    BY <1>5, Zenon DEF LoadGeneratedModel, ReadFiles, ReadAt
  <2>2. Accepts(generated) BY <1>5, <2>1 DEF CInv, Agrees
  <2> HIDE DEF generated, rules, entries
  <2>3. (extensions = "ok" => RuleErrors(generated, rules) = {})
        /\ (ParseOutputs(project.outputs) = "ok" => UserErrors(generated, entries) = {})
        /\ (document.ok => ValidateMoves(document.moves).errors = {})
    BY <2>2 DEF Accepts, rules, entries
  <2>4. AutoErrors(entries, <<>>) = {}
    <3>1. Range(<<>>) = {} BY DEF Range
    <3> QED BY <3>1 DEF AutoErrors
  <2>5. outputs = {} BY <2>3, <2>4 DEF BuildOutputs
  <2>6. CASE extensions = "ok"
    <3>1. RuleErrors(generated, rules) = {} BY <2>3, <2>6
    <3>2. CheckOverrideTargets(rules, generated) = {} BY <3>1 DEF CheckOverrideTargets, RuleErrors
    <3>3. ApplyRules(generated, rules).errors = {} BY <3>1 DEF ApplyRules
    <3> QED BY <1>4, <2>3, <2>5, <2>6, <3>2, <3>3
  <2>7. CASE extensions # "ok" BY <2>3, <2>5, <2>7
  <2> QED BY <2>6, <2>7
<1> HIDE DEF verdicts, code, allowed, unknown, ruled, consistent, outputs, moves, suspicious
<1>6. PICK v \in verdicts : Fail(code(v), found \cup v) BY <1>1
<1>7. /\ cmd'.stage = "done" /\ cmd'.name = "check" /\ cmd'.target = cmd.target /\ cmd'.dir = cmd.dir
      /\ cmd'.errors = found \cup v
  BY <1>1, <1>6 DEF Fail, IInv, Idle
<1>8. CheckAgrees'
  <2> SUFFICES ASSUME cmd'.dir = "infra", history'.whole, ~history'.edited PROVE cmd'.errors \subseteq allowed
    BY DEF CheckAgrees, allowed
  <2>1. ruled \subseteq allowed /\ outputs = {} /\ moves = {} BY <1>1, <1>5, <1>7
  <2> QED BY <1>2, <1>3, <1>7, <2>1
<1>9. cmd'.target = NoTarget BY <1>1, <1>7 DEF CInv
<1> QED BY <1>1, <1>7, <1>8, <1>9, QuietC

(* A step per action. *)
LEMMA NextC == NamesFree /\ IInv /\ GInv /\ RInv /\ CInv /\ [Next]_vars => CInv'
<1> SUFFICES ASSUME NamesFree, IInv, GInv, RInv, CInv, [Next]_vars PROVE CInv' OBVIOUS
<1>1. ASSUME NEW name \in DOMAIN NextStage, NEW t \in Targets, NEW dir \in {"infra", ".ycsf"},
             NEW v \in BOOLEAN, Begin(name, t, dir, v)
      PROVE  CInv'
  BY <1>1, BeginC
<1>2. CASE UNCHANGED vars
  <2>1. UNCHANGED <<project, infra, history, cmd>> BY <1>2 DEF vars, files
  <2>2. ModelNow' = ModelNow /\ RulesNow' = RulesNow BY <2>1 DEF ModelNow, RulesNow
  <2>3. Agrees(infra)' <=> Agrees(infra) BY <2>1, <2>2 DEF Agrees, Accepts
  <2>4. Agrees(cmd.output)' <=> Agrees(cmd.output) BY <2>1, <2>2 DEF Agrees, Accepts
  <2>5. CheckAgrees' <=> CheckAgrees BY <2>1 DEF CheckAgrees, Running
  <2> QED BY <2>1, <2>2, <2>3, <2>4, <2>5 DEF CInv, AllApps
<1> QED BY <1>1, <1>2, EditC, LoadC, OthersC, SelectC, MaterializeC, GenerateC, WriteC, RemoveC, CheckC DEF Next

(* check agrees with materialize: over the files that materialize has just written, and  *)
(* with no edit since, the extensions, the outputs and the moves it accepted are not      *)
(* reported, unless an app may be called as one of the two other files.                   *)
THEOREM ChecksAgree ==
  ASSUME NamesFree
  PROVE  Spec => []CheckAgrees
<1>1. Spec => []IInv BY IInvInit, IInvNext, PTL DEF Spec
<1>2. Init /\ []IInv /\ [][Next]_vars => []GInv BY InitG, NextG, PTL
<1>3. IInv /\ GInv /\ RInv /\ [Next]_vars => RInv' BY NextR
<1>4. Init /\ []IInv /\ []GInv /\ [][Next]_vars => []RInv BY <1>3, InitR, PTL
<1>5. IInv /\ GInv /\ RInv /\ CInv /\ [Next]_vars => CInv' BY NextC
<1>6. Init /\ []IInv /\ []GInv /\ []RInv /\ [][Next]_vars => []CInv BY <1>5, InitC, PTL
<1>7. CInv => CheckAgrees BY DEF CInv
<1> QED BY <1>1, <1>2, <1>4, <1>6, <1>7, PTL DEF Spec
=============================================================================
