-------------------------- MODULE HttpEdge_proofs --------------------------
(***************************************************************************)
(* What is proved of HttpEdge, for any requests, any drift of the frames   *)
(* and any applications whose layers are programs of Writes.               *)
(***************************************************************************)
EXTENDS HttpEdge, FiniteSetTheorems, SequenceTheorems, WellFoundedInduction, TLAPS

-----------------------------------------------------------------------------
(* The inductive invariant. *)

Early == {"sent", "detecting", "starting", "context"}
Invoked == {"validating", "facade", "parsing", "scanning", "guarding", "running", "serializing"}
Served == {"parsing", "scanning", "guarding", "running", "serializing", "done"}
Stages == Early \cup Invoked \cup {"done", "refused"}

(* A request is where an application has a layer and a write for it.           *)
Flow ==
  /\ stage \in Stages
  /\ client \in Clients /\ app \in Apps
  /\ frame \in {"none", "v1", "v2", "dev"}
  /\ index \in 0..Len(app.layers)
  /\ stage \in {"guarding", "running"} =>
       index \in DOMAIN app.layers /\ pc \in DOMAIN app.layers[index].program

(* The records so far. *)
StartRecord == [event |-> "start", code |-> "none", status |-> 0]
FinishRecord(status) == [event |-> "finish", code |-> "none", status |-> status]
ErrorCodes == {"UNKNOWN_INVOCATION_EVENT", "UNSUPPORTED_ROUTE_PATTERN", "Error",
               "INVALID_INVOCATION_EVENT"}
ErrorRecords == [event : {"error"}, code : ErrorCodes, status : {0}]

Records ==
  /\ stage \in Early => log = <<>>
  /\ stage \in Invoked => log = <<StartRecord>>
  /\ stage = "refused" => \E e \in ErrorRecords : log = <<e>> \/ log = <<StartRecord, e>>
  /\ stage = "done" => wire.status \in Nat /\ log = <<StartRecord, FinishRecord(wire.status)>>

(* What has arrived is a frame of the client's request, which may lack a field. *)
DriftOf(e) == {e} \cup {[g \in DOMAIN e \ {f} |-> e[g]] : f \in DOMAIN e}
Frames ==
  CASE frame = "dev" -> {V2Event(client, DevBody(client.type, client.body))}
    [] frame = "v2"  -> {V2Event(client, GatewayBody(client.type, client.body))}
    [] OTHER -> {V1Event(client, GatewayBody(client.type, client.body), optional) :
                   optional \in SUBSET OptionalV1}

Arrived ==
  /\ stage # "sent" =>
       frame \in {"dev", "v2", "v1"} /\ \E e \in Frames : event \in DriftOf(e)
  /\ stage \notin {"sent", "detecting", "refused"} => IsV2 \/ IsV1

(* What the application reads is what the client has sent. *)
SingleValued == frame = "v1" /\ ~Has(event, "url") /\ ~Has(event, "multiValueQueryStringParameters")
BodyIntact(body) ==
  \/ body = (IF client.body = "empty" THEN "none" ELSE client.body)
  \/ frame = "dev" /\ client.body = "binary" /\ IsText(client.type)

FacadeOf(f) ==
  [method |-> f.method, path |-> f.path, query |-> f.query, headers |-> f.headers,
   params |-> f.params, body |-> f.body, rawBody |-> f.rawBody]

Intact ==
  /\ stage = "facade" =>
       /\ request.method = client.method /\ request.path = client.path
       /\ (request.query = client.query \/ SingleValued) /\ BodyIntact(request.body)
  /\ stage \notin Served => facade = Nothing
  /\ stage \in Served =>
       /\ facade = FacadeOf(facade) /\ facade.body \in {"none", "json"}
       /\ facade.method = client.method /\ facade.path = client.path
       /\ facade.query = Grouped(client.query) \/ SingleValued
       /\ BodyIntact(facade.rawBody)

(* The response that is being written: no header without a value, and no body  *)
(* without a content type.                                                     *)
HeaderTexts == STRING \cup {"application/json", "text/plain", "application/octet-stream"}
HeaderLists == Seq(HeaderTexts) \ {<<>>}
IsResponse(r) ==
  /\ r = [status |-> r.status, headers |-> r.headers, body |-> r.body, ended |-> r.ended]
  /\ r.status \in Nat /\ r.ended \in BOOLEAN
  /\ r.body \in {"none", "object", "traced", "text", "binary"}
  /\ r.headers \in [DOMAIN r.headers -> HeaderLists]
Described(r) == r.body # "none" => "content-type" \in DOMAIN r.headers

Answer ==
  /\ IsResponse(response) /\ Described(response)
  /\ stage = "done" => /\ wire.headers = response.headers
                       /\ wire.status = response.status /\ wire.body = response.body

(* The statuses that are no layer's choice are those of a fallback, which goes *)
(* with the trace id; and a trace id under a success status takes a layer that *)
(* has changed the status.                                                     *)
WritesSoFar == UNION {ToSet(app.layers[k].program) : k \in 1..index}
Chosen == {w.code : w \in {v \in WritesSoFar : v.op \in {"status", "redirect"}}}

Traced ==
  /\ \/ response.status \in Chosen \cup {200}
     \/ stage \in {"serializing", "done"} /\ response.body = "traced"
  /\ response.body = "traced" =>
       response.status >= 400 \/ \E w \in WritesSoFar : w.op = "status"

(* Routes that fit were passed over by their own next(); the one that is       *)
(* entered has its own parameters and its own guard.                           *)
Fits(k) ==
  /\ app.layers[k].kind = "route" /\ MatchesMethod(app.layers[k], client.method)
  /\ Matches(app.layers[k].pattern, client.path)
HasNext(k) == \E i \in DOMAIN app.layers[k].program : app.layers[k].program[i].op = "next"

Routed ==
  /\ stage \notin {"sent", "detecting", "starting", "refused"} =>
       \A k \in DOMAIN app.layers : Supported(app.layers[k].pattern)
  /\ stage \in Early \cup {"validating", "facade", "parsing"} => index = 0
  /\ stage = "scanning" => \A k \in 1..index : Fits(k) => HasNext(k)
  /\ stage \in {"guarding", "running"} =>
       /\ \A k \in 1..(index - 1) : Fits(k) => HasNext(k)
       /\ app.layers[index].kind = "route" =>
            /\ Fits(index) /\ facade.params = Captured(app.layers[index].pattern, client.path)
            /\ stage = "running" => guarded = GuardOf(app.layers[index])
  /\ stage = "guarding" => app.layers[index].kind = "route"

IInv == Flow /\ Records /\ Arrived /\ Intact /\ Answer /\ Traced /\ Routed

-----------------------------------------------------------------------------
(* The response facade. *)

LEMMA PutHeaderKeeps ==
  ASSUME NEW r, IsResponse(r), NEW name, NEW values \in HeaderLists
  PROVE  /\ IsResponse(PutHeader(r, name, values))
         /\ PutHeader(r, name, values).status = r.status
         /\ PutHeader(r, name, values).body = r.body
         /\ DOMAIN PutHeader(r, name, values).headers = DOMAIN r.headers \cup {name}
<1> DEFINE h == [n \in DOMAIN r.headers \cup {name} |-> IF n = name THEN values ELSE r.headers[n]]
<1>1. h \in [DOMAIN h -> HeaderLists] /\ DOMAIN h = DOMAIN r.headers \cup {name}
  BY DEF IsResponse
<1>2. PutHeader(r, name, values) = [r EXCEPT !.headers = h]
  BY DEF PutHeader
<1> HIDE DEF h
<1> QED BY <1>1, <1>2 DEF IsResponse

LEMMA HeaderValuesIn ==
  ASSUME NEW r, IsResponse(r), NEW name
  PROVE  HeaderValues(r, name) \in Seq(HeaderTexts)
BY EmptySeq DEF HeaderValues, Has, IsResponse, HeaderLists

LEMMA Singleton ==
  ASSUME NEW S, NEW v \in S
  PROVE  <<v>> \in Seq(S) \ {<<>>}
<1>1. <<v>> \in Seq(S) /\ Len(<<v>>) = 1 /\ Len(<<>>) = 0
  OBVIOUS
<1> QED BY <1>1, Zenon

LEMMA Appended ==
  ASSUME NEW S, NEW s \in Seq(S), NEW v \in S
  PROVE  Append(s, v) \in Seq(S) \ {<<>>}
<1>1. Append(s, v) \in Seq(S) /\ Len(Append(s, v)) = Len(s) + 1 /\ Len(s) \in Nat
  OBVIOUS
<1>2. Len(Append(s, v)) # 0 /\ Len(<<>>) = 0
  BY <1>1
<1> QED BY <1>1, <1>2, Zenon

LEMMA ImplicitTypeKeeps ==
  ASSUME NEW r, IsResponse(r), NEW type \in HeaderTexts
  PROVE  /\ IsResponse(ImplicitType(r, type))
         /\ ImplicitType(r, type).status = r.status
         /\ ImplicitType(r, type).body = r.body
         /\ "content-type" \in DOMAIN ImplicitType(r, type).headers
<1>1. <<type>> \in HeaderLists
  BY Singleton, Zenon DEF HeaderLists
<1> QED BY <1>1, PutHeaderKeeps DEF ImplicitType, Has

EndedWith(m, code, body) == [m EXCEPT !.status = code, !.body = body, !.ended = TRUE]

LEMMA EndedKeeps ==
  ASSUME NEW m, IsResponse(m), NEW code \in Nat,
         NEW body \in {"none", "object", "traced", "text", "binary"},
         body = "none" \/ "content-type" \in DOMAIN m.headers
  PROVE  /\ IsResponse(EndedWith(m, code, body)) /\ Described(EndedWith(m, code, body))
         /\ EndedWith(m, code, body).status = code /\ EndedWith(m, code, body).body = body
<1> DEFINE n == EndedWith(m, code, body)
<1>1. n = [status |-> code, headers |-> m.headers, body |-> body, ended |-> TRUE]
  <2>1. PICK s, h, b, e : m = [status |-> s, headers |-> h, body |-> b, ended |-> e]
    BY Zenon DEF IsResponse
  <2>2. m.headers = h
    BY <2>1
  <2>3. n = [status |-> code, headers |-> h, body |-> body, ended |-> TRUE]
    <3>1. n = [[status |-> s, headers |-> h, body |-> b, ended |-> e]
                 EXCEPT !.status = code, !.body = body, !.ended = TRUE]
      BY <2>1, Zenon DEF EndedWith
    <3> HIDE DEF n
    <3> QED BY <3>1
  <2> QED BY <2>2, <2>3, Zenon
<1> HIDE DEF n
<1>2. /\ n.status = code /\ n.headers = m.headers /\ n.body = body /\ n.ended = TRUE
  BY <1>1
<1>3. m.headers \in [DOMAIN m.headers -> HeaderLists]
  BY DEF IsResponse
<1>4. IsResponse(n) /\ Described(n)
  BY <1>1, <1>2, <1>3 DEF IsResponse, Described
<1> QED BY <1>2, <1>4 DEF n

(* A write leaves a response, and puts a body under a content type; the trace  *)
(* id gets into the body only under a failure.                                 *)
LEMMA WrittenKeeps ==
  ASSUME NEW r, IsResponse(r), Described(r),
         NEW w \in Writes, w.op \notin {"next", "throw"}
  PROVE  /\ IsResponse(Written(r, w)) /\ Described(Written(r, w))
         /\ Written(r, w).status = (IF w.op \in {"status", "redirect"} THEN w.code ELSE r.status)
         /\ \/ Written(r, w).body # "traced"
            \/ w.op \in {"status", "set", "append", "end"} /\ Written(r, w).body = r.body
            \/ w.op = "json" /\ r.status >= 400
<1> DEFINE n == Written(r, w)
<1>1. CASE w.op = "status"
  <2>1. n = [r EXCEPT !.status = w.code] /\ w.code \in Nat
    BY <1>1 DEF Written, Writes
  <2> QED BY <1>1, <2>1 DEF IsResponse, Described
<1>2. CASE w.op \in {"set", "append"}
  <2>1. w.value \in HeaderTexts
    BY <1>2 DEF Writes, HeaderTexts
  <2> DEFINE values == IF w.op = "set" THEN <<w.value>> ELSE Append(HeaderValues(r, w.name), w.value)
  <2>2. values \in HeaderLists
    BY <2>1, HeaderValuesIn, Singleton, Appended, Zenon DEF HeaderLists
  <2>3. n = PutHeader(r, w.name, values)
    BY <1>2 DEF Written
  <2> HIDE DEF values
  <2> QED BY <1>2, <2>1, <2>2, <2>3, PutHeaderKeeps DEF Described
<1>3. CASE w.op \in {"json", "text", "binary"}
  <2> DEFINE type == CASE w.op = "json" -> "application/json"
                       [] w.op = "text" -> "text/plain"
                       [] w.op = "binary" -> "application/octet-stream"
             body == CASE w.op = "json" -> WithTrace(r.status)
                       [] w.op = "text" -> "text"
                       [] w.op = "binary" -> "binary"
  <2> DEFINE m == ImplicitType(r, type)
  <2>1. n = [m EXCEPT !.body = body, !.ended = TRUE]
    BY <1>3 DEF Written
  <2>2. type \in HeaderTexts
    BY <1>3 DEF HeaderTexts
  <2>3. /\ body \in {"object", "traced", "text", "binary"}
        /\ body = "traced" => w.op = "json" /\ r.status >= 400
    BY <1>3 DEF WithTrace, IsResponse
  <2>4. /\ IsResponse(m) /\ m.status = r.status /\ m.status \in Nat
        /\ "content-type" \in DOMAIN m.headers
    BY <2>2, ImplicitTypeKeeps DEF IsResponse
  <2> HIDE DEF type, body, m
  <2>5. n = EndedWith(m, m.status, body)
    BY <2>1, <2>4 DEF IsResponse, EndedWith
  <2> HIDE DEF n
  <2>6. IsResponse(n) /\ Described(n) /\ n.status = m.status /\ n.body = body
    <3>1. body \in {"none", "object", "traced", "text", "binary"}
      BY <2>3
    <3> QED BY <3>1, <2>4, <2>5, EndedKeeps
  <2> QED BY <1>3, <2>3, <2>4, <2>6 DEF n
<1>4. CASE w.op = "redirect"
  <2>1. w.code \in Nat /\ w.value \in HeaderTexts
    BY <1>4 DEF Writes, HeaderTexts
  <2>3. <<w.value>> \in HeaderLists
    BY <2>1, Singleton, Zenon DEF HeaderLists
  <2>2. n = [PutHeader(r, "location", <<w.value>>)
               EXCEPT !.status = w.code, !.body = "none", !.ended = TRUE]
    BY <1>4 DEF Written
  <2> HIDE DEF n
  <2>4. IsResponse(n) /\ Described(n) /\ n.status = w.code /\ n.body = "none"
    <3> DEFINE m == PutHeader(r, "location", <<w.value>>)
    <3>1. IsResponse(m)
      BY <2>3, PutHeaderKeeps
    <3>2. n = EndedWith(m, w.code, "none")
      BY <2>2 DEF EndedWith
    <3> HIDE DEF m
    <3> QED BY <3>1, <3>2, <2>1, EndedKeeps
  <2> QED BY <1>4, <2>4 DEF n
<1>5. CASE w.op = "end"
  <2>1. n = [r EXCEPT !.ended = TRUE]
    BY <1>5 DEF Written
  <2> QED BY <1>5, <2>1 DEF IsResponse, Described
<1>6. w.op \in {"status", "set", "append", "json", "text", "binary", "redirect", "end"}
  BY DEF Writes
<1> QED BY <1>1, <1>2, <1>3, <1>4, <1>5, <1>6

(* The answer of a fallback. *)
LEMMA ReplyKeeps ==
  ASSUME NEW r, IsResponse(r), Described(r), NEW status \in Nat
  PROVE  /\ IsResponse(Reply(r, status, "json")) /\ Described(Reply(r, status, "json"))
         /\ Reply(r, status, "json").status = status
         /\ Reply(r, status, "json").body = WithTrace(status)
<1> DEFINE s == [r EXCEPT !.status = status]
           w == [op |-> "json"]
<1>1. IsResponse(s) /\ Described(s) /\ s.status = status /\ w \in Writes
  BY DEF IsResponse, Described, Writes
<1>2. Reply(r, status, "json") = Written(s, w)
  BY DEF Reply
<1>3. Written(s, w).body = WithTrace(status)
  <2>1. Written(s, w) = [ImplicitType(s, "application/json")
                           EXCEPT !.body = WithTrace(s.status), !.ended = TRUE]
    BY DEF Written
  <2>2. IsResponse(ImplicitType(s, "application/json"))
    BY <1>1, ImplicitTypeKeeps DEF HeaderTexts
  <2> QED BY <1>1, <2>1, <2>2 DEF IsResponse
<1> HIDE DEF s
<1> QED BY <1>1, <1>2, <1>3, WrittenKeeps

LEMMA FallBackKeeps ==
  ASSUME IsResponse(response), Described(response), NEW status \in Nat, FallBack(status)
  PROVE  /\ IsResponse(response') /\ Described(response')
         /\ \/ response' = response
            \/ response'.status = status /\ response'.body = WithTrace(status)
<1>1. CASE response.ended
  BY <1>1 DEF FallBack
<1>2. CASE ~response.ended
  <2>1. response' = Reply(response, status, "json")
    BY <1>2 DEF FallBack
  <2> QED BY <2>1, ReplyKeeps
<1> QED BY <1>1, <1>2

-----------------------------------------------------------------------------
(* The layers. *)

LEMMA LayersOf ==
  ASSUME Flow
  PROVE  /\ Len(app.layers) \in Nat /\ DOMAIN app.layers = 1..Len(app.layers)
         /\ \A k \in DOMAIN app.layers :
              /\ app.layers[k].program \in Seq(Writes)
              /\ Len(app.layers[k].program) \in Nat \ {0}
              /\ DOMAIN app.layers[k].program = 1..Len(app.layers[k].program)
<1>1. app \in Apps
  BY DEF Flow
<1>2. \A k \in DOMAIN app.layers : app.layers[k].program \in Seq(Writes) \ {<<>>}
  BY <1>1, AppAssumption
<1>3. \A p \in Seq(Writes) \ {<<>>} : Len(p) \in Nat \ {0} /\ DOMAIN p = 1..Len(p)
  BY EmptySeq
<1> QED BY <1>1, <1>2, <1>3, AppAssumption

LEMMA FirstOf ==
  ASSUME Flow, NextLayers(index) # {}
  PROVE  /\ Min(NextLayers(index)) \in NextLayers(index)
         /\ \A k \in NextLayers(index) : Min(NextLayers(index)) =< k
<1> DEFINE T == NextLayers(index)
<1>1. T \subseteq Nat
  BY LayersOf DEF NextLayers
<1>2. \E x \in T : \A y \in T : ~(<<y, x>> \in OpToRel(<, Nat))
  BY <1>1, NatLessThanWellFounded, WFMin
<1>3. \E x \in T : \A y \in T : x =< y
  <2>1. PICK x \in T : \A y \in T : ~(<<y, x>> \in OpToRel(<, Nat))
    BY <1>2
  <2>2. ASSUME NEW y \in T, ~(x =< y) PROVE FALSE
    <3>1. y \in Nat /\ x \in Nat /\ y < x
      BY <1>1, <2>2
    <3>2. <<y, x>> \in OpToRel(<, Nat)
      BY <3>1 DEF OpToRel
    <3> QED BY <2>1, <3>2
  <2> QED BY <2>2
<1> QED BY <1>3 DEF Min

-----------------------------------------------------------------------------
(* The matcher. *)

FixedLength(pattern) == Len(pattern) - (IF HasWildcard(pattern) THEN 1 ELSE 0)

LEMMA FixedIs ==
  ASSUME NEW pattern \in Seq(Segments), Supported(pattern)
  PROVE  /\ FixedLength(pattern) \in 0..Len(pattern)
         /\ DOMAIN Fixed(pattern) = 1..FixedLength(pattern)
         /\ \A i \in 1..FixedLength(pattern) :
              /\ i \in DOMAIN pattern /\ Fixed(pattern)[i] = pattern[i]
              /\ pattern[i] \in Segments /\ pattern[i].kind \in {"literal", "param"}
         /\ \A i \in DOMAIN pattern : pattern[i].kind = "param" => i \in 1..FixedLength(pattern)
<1> DEFINE n == FixedLength(pattern)
<1>1. PICK l \in Nat : l = Len(pattern) /\ DOMAIN pattern = 1..l
  BY LenProperties
<1>2. \A i \in 1..l : pattern[i] \in Segments
  BY <1>1, ElementOfSeq
<1>3. \A i \in 1..l : pattern[i].kind \in {"literal", "param", "wildcard"}
  BY <1>1, <1>2 DEF Supported, Segments
<1>4. CASE HasWildcard(pattern)
  <2>1. n = l - 1
    BY <1>1, <1>4 DEF FixedLength
  <2>2. l >= 1 /\ pattern[l].kind = "wildcard"
    BY <1>1, <1>4 DEF HasWildcard, Supported
  <2>3. \A i \in 1..l : pattern[i].kind = "wildcard" => i = l
    BY <1>1 DEF Supported
  <2>4. Fixed(pattern) = SubSeq(pattern, 1, l - 1)
    BY <1>1, <1>4 DEF Fixed
  <2>5. DOMAIN Fixed(pattern) = 1..(l - 1) /\ \A i \in 1..(l - 1) : Fixed(pattern)[i] = pattern[i]
    BY <1>1, <2>2, <2>4, SubSeqProperties
  <2> HIDE DEF n
  <2> QED BY <1>1, <1>2, <1>3, <2>1, <2>2, <2>3, <2>5 DEF n
<1>5. CASE ~HasWildcard(pattern)
  <2>1. n = l /\ Fixed(pattern) = pattern
    BY <1>1, <1>5 DEF Fixed, FixedLength
  <2>2. \A i \in 1..l : pattern[i].kind # "wildcard"
    BY <1>1, <1>5 DEF HasWildcard
  <2> QED BY <1>1, <1>2, <1>3, <2>1, <2>2
<1> QED BY <1>4, <1>5

(* A route matches exactly the paths that its pattern means. *)
LEMMA MatchesMeans ==
  ASSUME NEW pattern \in Seq(Segments), Supported(pattern), NEW path \in Seq(Texts)
  PROVE  Matches(pattern, path) <=> Means(pattern, path)
<1>1. PICK n \in Nat : n = FixedLength(pattern)
  BY FixedIs, LenProperties
<1>2. PICK l \in Nat : l = Len(path) /\ DOMAIN path = 1..l
  BY LenProperties
<1>3. \A i \in 1..l : path[i] \in Texts
  BY <1>2, ElementOfSeq
<1>4. /\ DOMAIN Fixed(pattern) = 1..n
      /\ \A i \in 1..n : /\ Fixed(pattern)[i] = pattern[i]
                         /\ pattern[i].kind \in {"literal", "param"}
  BY <1>1, FixedIs
<1>5. Matches(pattern, path) <=>
        /\ l >= n /\ \A i \in 1..n : SegmentMatches(pattern[i], path[i])
        /\ HasWildcard(pattern) \/ l = n
  BY <1>1, <1>2 DEF Matches, FixedLength
<1>6. \A m \in 0..l : /\ Len(SubSeq(path, 1, m)) = m
                      /\ \A i \in 1..m : SubSeq(path, 1, m)[i] = path[i]
  BY <1>2, SubSeqProperties
<1>7. ASSUME NEW texts \in [DOMAIN Fixed(pattern) -> Texts]
      PROVE  /\ Len(Filled(Fixed(pattern), texts)) = n
             /\ DOMAIN Filled(Fixed(pattern), texts) = 1..n
             /\ \A i \in 1..n : Filled(Fixed(pattern), texts)[i] =
                                  IF pattern[i].kind = "param" THEN texts[i] ELSE pattern[i].text
  BY <1>4 DEF Filled
<1>8. ASSUME Matches(pattern, path)
      PROVE  Means(pattern, path)
  <2> DEFINE texts == [i \in 1..n |-> path[i]]
  <2>1. l >= n /\ texts \in [DOMAIN Fixed(pattern) -> Texts]
    BY <1>3, <1>4, <1>5, <1>8
  <2>2. ASSUME NEW i \in 1..n
        PROVE  LowerCase[Filled(Fixed(pattern), texts)[i]] = LowerCase[SubSeq(path, 1, n)[i]]
    <3>1. SubSeq(path, 1, n)[i] = path[i]
      BY <1>6, <2>1
    <3>2. Filled(Fixed(pattern), texts)[i] = IF pattern[i].kind = "param" THEN path[i] ELSE pattern[i].text
      BY <1>7, <2>1
    <3>3. pattern[i].kind = "literal" => LowerCase[pattern[i].text] = LowerCase[path[i]]
      BY <1>5, <1>8 DEF SegmentMatches
    <3> QED BY <1>4, <3>1, <3>2, <3>3
  <2>3. SameText(Filled(Fixed(pattern), texts), SubSeq(path, 1, n))
    <3> HIDE DEF texts
    <3>1. /\ Len(Filled(Fixed(pattern), texts)) = n /\ DOMAIN Filled(Fixed(pattern), texts) = 1..n
          /\ Len(SubSeq(path, 1, n)) = n
      BY <1>6, <1>7, <2>1
    <3> QED BY <2>2, <3>1, Zenon DEF SameText
  <2>4. n \in 0..Len(path) /\ (n = Len(path) \/ HasWildcard(pattern))
    BY <1>2, <1>5, <1>8
  <2> HIDE DEF texts
  <2> QED BY <2>1, <2>3, <2>4, Zenon DEF Means
<1>9. ASSUME Means(pattern, path)
      PROVE  Matches(pattern, path)
  <2>1. PICK texts \in [DOMAIN Fixed(pattern) -> Texts], m \in 0..l :
          /\ SameText(Filled(Fixed(pattern), texts), SubSeq(path, 1, m))
          /\ m = l \/ HasWildcard(pattern)
    BY <1>2, <1>9 DEF Means
  <2>2. m = n
    BY <1>6, <1>7, <2>1 DEF SameText
  <2>3. ASSUME NEW i \in 1..n
        PROVE  SegmentMatches(pattern[i], path[i])
    <3>1. LowerCase[Filled(Fixed(pattern), texts)[i]] = LowerCase[SubSeq(path, 1, n)[i]]
      BY <1>7, <2>1, <2>2 DEF SameText
    <3>2. SubSeq(path, 1, n)[i] = path[i]
      BY <1>6, <2>1, <2>2
    <3> QED BY <1>4, <1>7, <3>1, <3>2 DEF SegmentMatches
  <2> QED BY <1>5, <2>1, <2>2, <2>3
<1> QED BY <1>8, <1>9

LEMMA GreatestIn ==
  ASSUME NEW l \in Nat, NEW S \in SUBSET (1..l), S # {}
  PROVE  Max(S) \in S
<1> DEFINE Bounds == {n \in Nat : \A i \in S : i =< n}
<1>1. l \in Bounds /\ Bounds \subseteq Nat
  OBVIOUS
<1>2. PICK m \in Bounds : \A n \in Bounds : ~(<<n, m>> \in OpToRel(<, Nat))
  <2> HIDE DEF Bounds
  <2> QED BY <1>1, NatLessThanWellFounded, WFMin
<1>3. m \in Nat /\ \A i \in S : i =< m
  OBVIOUS
<1>4. m \in S
  <2> SUFFICES ASSUME m \notin S PROVE FALSE
    OBVIOUS
  <2>1. m - 1 \in Bounds
    <3>4. PICK e : e \in S
      OBVIOUS
    <3>1. e \in Nat /\ e >= 1 /\ e =< m
      BY <1>3, <3>4
    <3>2. \A i \in S : i \in Nat /\ i # m /\ i =< m
      BY <1>3
    <3>3. m - 1 \in Nat /\ \A i \in S : i =< m - 1
      BY <1>3, <3>1, <3>2
    <3> QED BY <3>3, Zenon
  <2>2. <<m - 1, m>> \in OpToRel(<, Nat)
    BY <2>1, <1>3 DEF OpToRel
  <2> QED BY <1>2, <2>1, <2>2
<1>5. \E x \in S : \A y \in S : x >= y
  BY <1>3, <1>4
<1> QED BY <1>5 DEF Max

(* What a parameter captures stands in one of its places. *)
LEMMA CapturedFrom ==
  ASSUME NEW pattern \in Seq(Segments), NEW path
  PROVE  /\ DOMAIN Captured(pattern, path) = ParamNames(pattern)
         /\ \A name \in ParamNames(pattern) : \E i \in DOMAIN pattern :
              pattern[i] = Param(name) /\ Captured(pattern, path)[name] = path[i]
<1>1. PICK l \in Nat : l = Len(pattern) /\ DOMAIN pattern = 1..l
  BY LenProperties
<1>2. ASSUME NEW name \in ParamNames(pattern)
      PROVE  \E i \in DOMAIN pattern :
               pattern[i] = Param(name) /\ Captured(pattern, path)[name] = path[i]
  <2> DEFINE places == {i \in DOMAIN pattern : pattern[i] = Param(name)}
  <2>1. PICK i \in DOMAIN pattern : pattern[i].kind = "param" /\ pattern[i].text = name
    BY DEF ParamNames
  <2>2. pattern[i] \in Segments
    BY <1>1, <2>1, ElementOfSeq
  <2>3. pattern[i] = Param(name)
    BY <2>1, <2>2 DEF Segments, Param
  <2>4. places \in SUBSET (1..l) /\ places # {}
    BY <1>1, <2>3
  <2>5. Max(places) \in places
    BY <2>4, GreatestIn
  <2>6. Captured(pattern, path)[name] = path[Max(places)]
    BY DEF Captured
  <2> HIDE DEF places
  <2>7. Max(places) \in DOMAIN pattern /\ pattern[Max(places)] = Param(name)
    BY <2>5 DEF places
  <2> QED BY <2>6, <2>7
<1> QED BY <1>2 DEF Captured

-----------------------------------------------------------------------------
(* Every step keeps the request on its way. *)

LEMMA FlowStep ==
  ASSUME Flow, Next
  PROVE  Flow'
<1> USE DEF Flow, Stages, Early, Invoked, Go, Refuse, FallBack, inputVars, appVars
<1>1. CASE Arrive
  BY <1>1 DEF Arrive
<1>2. CASE Detect
  BY <1>2 DEF Detect
<1>3. CASE ColdStart
  BY <1>3 DEF ColdStart
<1>4. CASE BuildContext
  BY <1>4 DEF BuildContext
<1>5. CASE Normalize
  BY <1>5 DEF Normalize
<1>6. CASE BuildFacade
  BY <1>6 DEF BuildFacade
<1>7. CASE ParseBody
  BY <1>7 DEF ParseBody
<1>8. CASE Enter
  <2> DEFINE k == Min(NextLayers(index))
  <2>1. k \in NextLayers(index) /\ index' = k /\ pc' = 1 /\ stage' \in {"guarding", "running"}
    BY <1>8, FirstOf DEF Enter
  <2> HIDE DEF k
  <2>2. k \in DOMAIN app.layers /\ 1 \in DOMAIN app.layers[k].program /\ k \in 0..Len(app.layers)
    BY <2>1, LayersOf DEF NextLayers
  <2>3. app' = app /\ client' = client /\ frame' = frame
    BY <1>8 DEF Enter
  <2> QED BY <2>1, <2>2, <2>3
<1>9. CASE NotFound
  BY <1>9 DEF NotFound
<1>10. CASE Guard
  BY <1>10 DEF Guard
<1>11. CASE Run
  <2>1. stage = "running" /\ pc' = pc + 1 /\ index' = index /\ app' = app /\ client' = client
        /\ frame' = frame /\ stage' = (IF pc = Len(app.layers[index].program) THEN "serializing" ELSE "running")
    BY <1>11 DEF Run, Program
  <2>2. /\ index \in DOMAIN app.layers /\ pc \in DOMAIN app.layers[index].program
        /\ Len(app.layers[index].program) \in Nat
        /\ DOMAIN app.layers[index].program = 1..Len(app.layers[index].program)
    BY <2>1, LayersOf
  <2>3. pc # Len(app.layers[index].program) => pc + 1 \in DOMAIN app.layers[index].program
    BY <2>2
  <2> QED BY <2>1, <2>2, <2>3
<1>12. CASE PassOn
  BY <1>12 DEF PassOn
<1>13. CASE Fail
  BY <1>13 DEF Fail
<1>14. CASE Serialize
  BY <1>14 DEF Serialize
<1> QED BY <1>1, <1>2, <1>3, <1>4, <1>5, <1>6, <1>7, <1>8, <1>9, <1>10, <1>11, <1>12, <1>13, <1>14 DEF Next

LEMMA AppendRecord ==
  ASSUME NEW a, NEW b
  PROVE  Append(<<a>>, b) = <<a, b>> /\ Append(<<>>, b) = <<b>>
<1> DEFINE S == {a, b}
<1>1. a \in S /\ b \in S
  OBVIOUS
<1> HIDE DEF S
<1>2. Append(<<>>, b) = <<b>>
  BY <1>1
<1>3. <<a>> \in Seq(S) /\ Len(<<a>>) = 1 /\ <<a>>[1] = a
  BY <1>1
<1>4. PICK s \in Seq(S) : s = <<a>> /\ Len(s) = 1 /\ s[1] = a
  BY <1>3
<1>5. /\ Append(s, b) \in Seq(S) /\ Len(Append(s, b)) = 2
      /\ Append(s, b)[1] = a /\ Append(s, b)[2] = b
  BY <1>1, <1>4
<1>6. <<a, b>> \in Seq(S) /\ Len(<<a, b>>) = 2 /\ <<a, b>>[1] = a /\ <<a, b>>[2] = b
  BY <1>1
<1>7. Append(s, b) = <<a, b>>
  <2>1. \A i \in 1..2 : Append(s, b)[i] = <<a, b>>[i]
    BY <1>5, <1>6
  <2> QED BY <1>5, <1>6, <2>1, SeqEqual
<1> QED BY <1>2, <1>4, <1>7

(* The records: one at the start, one at the end. *)
LEMMA RecordsStep ==
  ASSUME Flow, Records, IsResponse(response), Next
  PROVE  Records'
<1> USE DEF Records, Flow, Stages, Early, Invoked, Go, FallBack, inputVars, appVars
<1>0. \A code \in ErrorCodes : Refuse(code) /\ (log = <<>> \/ log = <<StartRecord>>) => Records'
  <2> SUFFICES ASSUME NEW code \in ErrorCodes, Refuse(code), log = <<>> \/ log = <<StartRecord>>
               PROVE  Records'
    OBVIOUS
  <2> DEFINE e == [event |-> "error", code |-> code, status |-> 0]
  <2>1. e \in ErrorRecords /\ stage' = "refused" /\ log' = Append(log, e)
    BY DEF ErrorRecords, Refuse, Logged
  <2> HIDE DEF e
  <2>2. log' = <<e>> \/ log' = <<StartRecord, e>>
    BY <2>1, AppendRecord, Zenon
  <2> QED BY <2>1, <2>2
<1>1. CASE Arrive
  BY <1>1 DEF Arrive
<1>2. CASE Detect
  BY <1>0, <1>2 DEF Detect, ErrorCodes
<1>3. CASE ColdStart
  BY <1>0, <1>3 DEF ColdStart, ErrorCodes
<1>4. CASE BuildContext
  <2>1. CASE Refuse("Error")
    BY <1>0, <1>4, <2>1 DEF BuildContext, ErrorCodes
  <2>2. CASE ~Refuse("Error")
    <3>1. log = <<>> /\ stage' = "validating" /\ log' = Append(log, StartRecord)
      BY <1>4, <2>2 DEF BuildContext, Logged, StartRecord
    <3> QED BY <3>1
  <2> QED BY <2>1, <2>2
<1>5. CASE Normalize
  BY <1>0, <1>5 DEF Normalize, ErrorCodes
<1>6. CASE BuildFacade
  BY <1>6 DEF BuildFacade
<1>7. CASE ParseBody
  BY <1>7 DEF ParseBody
<1>8. CASE Enter
  BY <1>8 DEF Enter
<1>9. CASE NotFound
  BY <1>9 DEF NotFound
<1>10. CASE Guard
  BY <1>10 DEF Guard
<1>11. CASE Run
  BY <1>11 DEF Run
<1>12. CASE PassOn
  BY <1>12 DEF PassOn
<1>13. CASE Fail
  BY <1>13 DEF Fail
<1>14. CASE Serialize
  <2>1. /\ log = <<StartRecord>> /\ stage' = "done"
        /\ log' = Append(log, FinishRecord(response.status)) /\ wire'.status = response.status
    BY <1>14 DEF Serialize, Logged, FinishRecord, Envelope
  <2>2. response.status \in Nat
    BY DEF IsResponse
  <2>3. log' = <<StartRecord, FinishRecord(wire'.status)>>
    BY <2>1, AppendRecord, Zenon
  <2> QED BY <2>1, <2>2, <2>3
<1> QED BY <1>1, <1>2, <1>3, <1>4, <1>5, <1>6, <1>7, <1>8, <1>9, <1>10, <1>11, <1>12, <1>13, <1>14 DEF Next

(* The event stays the frame it came in. *)
LEMMA ArrivedStep ==
  ASSUME Flow, Arrived, Next
  PROVE  Arrived'
<1>1. CASE Arrive
  <2>1. stage' = "detecting" /\ client' = client
    BY <1>1 DEF Arrive
  <2>2. frame' \in {"dev", "v2", "v1"} /\ \E e \in Frames' : event' \in DriftOf(e)
    BY <1>1 DEF Arrive, Delivered, Frames, DriftOf
  <2> QED BY <2>1, <2>2 DEF Arrived, DriftOf
<1>2. CASE ~Arrive
  <2>1. UNCHANGED inputVars /\ event' = event /\ stage # "sent" /\ stage' \notin {"sent", "detecting"}
    BY <1>2 DEF Next, Detect, ColdStart, BuildContext, Normalize, BuildFacade, ParseBody, Enter,
                NotFound, Guard, Run, PassOn, Fail, Serialize, Go, Refuse, FallBack
  <2>2. stage = "detecting" /\ stage' # "refused" => IsV2 \/ IsV1
    BY <1>2 DEF Next, Detect, ColdStart, BuildContext, Normalize, BuildFacade, ParseBody, Enter,
                NotFound, Guard, Run, PassOn, Fail, Serialize, Go, Refuse, FallBack
  <2>3. stage = "refused" => stage' = "refused"
    BY <1>2 DEF Next, Detect, ColdStart, BuildContext, Normalize, BuildFacade, ParseBody, Enter,
                NotFound, Guard, Run, PassOn, Fail, Serialize
  <2>4. Frames' = Frames /\ (IsV2 <=> IsV2') /\ (IsV1 <=> IsV1')
    BY <2>1 DEF inputVars, Frames, IsV2, IsV1, WellTyped
  <2> QED BY <2>1, <2>2, <2>3, <2>4 DEF Arrived, DriftOf, inputVars
<1> QED BY <1>1, <1>2

-----------------------------------------------------------------------------
(* What the application reads. *)

LEMMA DriftKeeps ==
  ASSUME NEW e, NEW d \in DriftOf(e), NEW f \in DOMAIN d
  PROVE  f \in DOMAIN e /\ d[f] = e[f]
BY DEF DriftOf

LEMMA V2Fields ==
  ASSUME NEW body, NEW d \in DriftOf(V2Event(client, body))
  PROVE  /\ "httpMethod" \notin DOMAIN d
         /\ "rawQueryString" \in DOMAIN d => d.rawQueryString = client.query
         /\ "rawPath" \in DOMAIN d => d.rawPath = client.path
         /\ "requestContext" \in DOMAIN d => d.requestContext = client.method
         /\ "body" \in DOMAIN d => d.body = body
<1> DEFINE e == V2Event(client, body)
<1>1. /\ "httpMethod" \notin DOMAIN e /\ e.rawQueryString = client.query /\ e.body = body
      /\ e.rawPath = client.path /\ e.requestContext = client.method
  BY DEF V2Event
<1>2. \A f \in DOMAIN d : f \in DOMAIN e /\ d[f] = e[f]
  BY DriftKeeps
<1> HIDE DEF e
<1> QED BY <1>1, <1>2

LEMMA V1Fields ==
  ASSUME NEW body, NEW optional \in SUBSET OptionalV1,
         NEW d \in DriftOf(V1Event(client, body, optional))
  PROVE  /\ "version" \notin DOMAIN d
         /\ \A f \in {"url", "multiValueQueryStringParameters"} \cap DOMAIN d : d[f] = client.query
         /\ "queryStringParameters" \in DOMAIN d =>
              DOMAIN d.queryStringParameters = Keys(client.query)
         /\ "path" \in DOMAIN d => d.path = client.path
         /\ "httpMethod" \in DOMAIN d => d.httpMethod = client.method
         /\ "body" \in DOMAIN d => d.body = body
<1> DEFINE e == V1Event(client, body, optional)
<1>1. "version" \notin DOMAIN e
  BY DEF V1Event, OptionalV1
<1>2. \A f \in {"url", "multiValueQueryStringParameters"} \cap DOMAIN e : e[f] = client.query
  BY DEF V1Event
<1>3. DOMAIN e.queryStringParameters = Keys(client.query)
  BY DEF V1Event
<1>4. e.body = body /\ e.path = client.path /\ e.httpMethod = client.method
  BY DEF V1Event
<1>5. \A f \in DOMAIN d : f \in DOMAIN e /\ d[f] = e[f]
  BY DriftKeeps
<1> HIDE DEF e
<1> QED BY <1>1, <1>2, <1>3, <1>4, <1>5

(* An empty query has an empty query string. *)
LEMMA NothingToFlatten == FlattenSeq(SetToSeq({})) = <<>>
<1>1. Cardinality({}) = 0
  BY FS_EmptySet
<1>2. \E f \in [1..0 -> {}] : IsInjective(f)
  <2>1. <<>> \in [1..0 -> {}] /\ DOMAIN <<>> = {}
    OBVIOUS
  <2> QED BY <2>1 DEF IsInjective
<1>3. SetToSeq({}) \in [1..0 -> {}]
  BY <1>1, <1>2 DEF SetToSeq
<1>4. SetToSeq({}) = <<>>
  BY <1>3
<1>5. Len(<<>>) = 0
  OBVIOUS
<1> QED BY <1>4, <1>5, Zenon DEF FlattenSeq

LEMMA QueryOfV1 ==
  ASSUME frame = "v1", Has(event, "queryStringParameters"),
         DOMAIN event.queryStringParameters = Keys(client.query),
         \A f \in {"url", "multiValueQueryStringParameters"} \cap DOMAIN event :
            event[f] = client.query
  PROVE  QueryStringV1(event) = client.query \/ SingleValued
<1>1. CASE Has(event, "url")
  BY <1>1 DEF QueryStringV1, Has
<1>2. CASE ~Has(event, "url") /\ ~Has(event, "multiValueQueryStringParameters")
  BY <1>2 DEF SingleValued
<1>3. CASE /\ ~Has(event, "url") /\ Has(event, "multiValueQueryStringParameters")
           /\ event.multiValueQueryStringParameters # <<>>
  BY <1>3 DEF QueryStringV1, Has
<1>4. CASE /\ ~Has(event, "url") /\ Has(event, "multiValueQueryStringParameters")
           /\ event.multiValueQueryStringParameters = <<>>
  <2> DEFINE values == event.queryStringParameters
             lists == {[i \in DOMAIN values[k] |-> <<k, values[k][i]>>] : k \in DOMAIN values}
  <2>1. client.query = <<>>
    BY <1>4 DEF Has
  <2>2. DOMAIN values = {}
    BY <2>1 DEF Keys
  <2>3. lists = {}
    BY <2>2
  <2>4. QueryStringV1(event) = FlattenSeq(SetToSeq(lists))
    BY <1>4, Zenon DEF QueryStringV1
  <2> QED BY <2>1, <2>3, <2>4, NothingToFlatten, Zenon
<1> QED BY <1>1, <1>2, <1>3, <1>4

LEMMA BodyOf ==
  ASSUME NEW body, \/ frame = "dev" /\ body = DevBody(client.type, client.body)
                   \/ body = GatewayBody(client.type, client.body)
  PROVE  BodyIntact(DecodedBody(body))
<1>1. CASE frame = "dev" /\ body = DevBody(client.type, client.body)
  <2>1. body.text = (IF client.body = "binary" /\ IsText(client.type) THEN "mangled" ELSE client.body)
    BY <1>1 DEF DevBody
  <2> QED BY <1>1, <2>1 DEF DecodedBody, BodyIntact
<1>2. CASE body = GatewayBody(client.type, client.body)
  <2>1. body.text = client.body
    BY <1>2 DEF GatewayBody
  <2> QED BY <2>1 DEF DecodedBody, BodyIntact
<1> QED BY <1>1, <1>2

(* A valid event says what the client has sent. *)
LEMMA NormalizedIntact ==
  ASSUME Flow, Arrived, stage = "validating", Valid, NEW version
  PROVE  LET r == Normalized(Adapted(event), version)
         IN /\ r.method = client.method /\ r.path = client.path
            /\ (r.query = client.query \/ SingleValued) /\ BodyIntact(r.body)
<1>1. /\ frame \in {"dev", "v2", "v1"} /\ (IsV2 \/ IsV1)
      /\ \E e \in Frames : event \in DriftOf(e)
  BY DEF Arrived
<1>2. \A f \in Required : Has(event, f)
  BY DEF Valid, WellTyped
<1> DEFINE r == Normalized(Adapted(event), version)
<1>3. CASE frame \in {"dev", "v2"}
  <2>1. PICK body : /\ event \in DriftOf(V2Event(client, body))
                    /\ \/ frame = "dev" /\ body = DevBody(client.type, client.body)
                       \/ body = GatewayBody(client.type, client.body)
    BY <1>1, <1>3 DEF Frames
  <2>2. /\ "httpMethod" \notin DOMAIN event
        /\ "rawQueryString" \in DOMAIN event => event.rawQueryString = client.query
        /\ "rawPath" \in DOMAIN event => event.rawPath = client.path
        /\ "requestContext" \in DOMAIN event => event.requestContext = client.method
        /\ "body" \in DOMAIN event => event.body = body
    BY <2>1, V2Fields
  <2>3. Has(event, "version")
    BY <1>1, <2>2 DEF IsV1, IsV2, WellTyped, Has
  <2>4. {"rawQueryString", "rawPath", "requestContext", "body"} \subseteq DOMAIN event
    BY <1>2, <2>3 DEF Required, Has
  <2>5. Adapted(event) = event
    BY <2>3 DEF Adapted
  <2>6. /\ r.query = client.query /\ r.body = DecodedBody(body)
        /\ r.method = client.method /\ r.path = client.path
    BY <2>2, <2>4, <2>5 DEF Normalized
  <2> QED BY <2>1, <2>6, BodyOf
<1>4. CASE frame = "v1"
  <2> DEFINE body == GatewayBody(client.type, client.body)
  <2>1. PICK optional \in SUBSET OptionalV1 : event \in DriftOf(V1Event(client, body, optional))
    BY <1>1, <1>4 DEF Frames
  <2>2. /\ "version" \notin DOMAIN event
        /\ \A f \in {"url", "multiValueQueryStringParameters"} \cap DOMAIN event :
             event[f] = client.query
        /\ "queryStringParameters" \in DOMAIN event =>
             DOMAIN event.queryStringParameters = Keys(client.query)
        /\ "path" \in DOMAIN event => event.path = client.path
        /\ "httpMethod" \in DOMAIN event => event.httpMethod = client.method
        /\ "body" \in DOMAIN event => event.body = body
    BY <2>1, V1Fields
  <2>3. /\ Has(event, "queryStringParameters") /\ Has(event, "body")
        /\ Has(event, "path") /\ Has(event, "httpMethod")
    BY <1>2, <2>2 DEF Required, Has
  <2>4. /\ r.query = QueryStringV1(event) /\ r.body = DecodedBody(event.body)
        /\ r.method = event.httpMethod /\ r.path = event.path
    BY <2>2, Zenon DEF Normalized, Adapted, Has
  <2>5. r.query = client.query \/ SingleValued
    BY <1>4, <2>2, <2>3, <2>4, QueryOfV1 DEF Has
  <2>6. r.body = DecodedBody(body)
    BY <2>2, <2>3, <2>4 DEF Has
  <2>7. BodyIntact(r.body)
    BY <2>6, BodyOf
  <2>8. r.method = client.method /\ r.path = client.path
    BY <2>2, <2>3, <2>4 DEF Has
  <2> QED BY <2>5, <2>7, <2>8
<1> QED BY <1>1, <1>3, <1>4

LEMMA IntactStep ==
  ASSUME Flow, Arrived, Intact, Next
  PROVE  Intact'
<1> USE DEF Intact, Served, Go, inputVars
<1>0. ASSUME UNCHANGED inputVars, event' = event
      PROVE  (SingleValued <=> SingleValued') /\ \A body : BodyIntact(body) <=> BodyIntact(body)'
  BY <1>0 DEF SingleValued, BodyIntact
<1>1. CASE Arrive
  BY <1>1 DEF Arrive, appVars
<1>2. CASE Detect \/ ColdStart \/ BuildContext
  BY <1>2 DEF Detect, ColdStart, BuildContext, Refuse, appVars
<1>3. CASE Normalize
  <2>1. CASE Valid
    <3> DEFINE r == Normalized(Adapted(event), IF Has(event, "version") THEN "2.0" ELSE "1.0")
    <3>1. request' = r /\ stage' = "facade" /\ facade' = facade /\ facade = Nothing
          /\ UNCHANGED inputVars /\ event' = event
      BY <1>3, <2>1 DEF Normalize, appVars
    <3>2. /\ r.method = client.method /\ r.path = client.path
          /\ (r.query = client.query \/ SingleValued) /\ BodyIntact(r.body)
      BY <1>3, <2>1, NormalizedIntact DEF Normalize
    <3> HIDE DEF r
    <3> QED BY <1>0, <3>1, <3>2
  <2>2. CASE ~Valid
    BY <1>3, <2>2 DEF Normalize, Refuse, appVars
  <2> QED BY <2>1, <2>2
<1>4. CASE BuildFacade
  <2>1. /\ stage = "facade" /\ stage' = "parsing" /\ UNCHANGED inputVars /\ event' = event
        /\ facade' = FacadeOf(facade') /\ facade'.body = "none"
        /\ facade'.method = request.method /\ facade'.path = request.path
        /\ facade'.query = Grouped(request.query) /\ facade'.rawBody = request.body
    BY <1>4 DEF BuildFacade, FacadeOf
  <2> QED BY <1>0, <2>1
<1>5. CASE ParseBody \/ Enter
  <2>1. /\ stage \in Served /\ stage' \in Served /\ UNCHANGED inputVars /\ event' = event
    BY <1>5 DEF ParseBody, Enter, FallBack
  <2>2. /\ facade' = FacadeOf(facade') /\ facade'.body \in {"none", "json"}
        /\ facade'.query = facade.query /\ facade'.rawBody = facade.rawBody
        /\ facade'.method = facade.method /\ facade'.path = facade.path
    <3>1. PICK m, p, q, h, n, b, w :
            facade = [method |-> m, path |-> p, query |-> q, headers |-> h, params |-> n,
                      body |-> b, rawBody |-> w] /\ b \in {"none", "json"}
      BY <2>1, Zenon DEF FacadeOf
    <3>2. \/ facade' = facade \/ facade' = [facade EXCEPT !.body = "json"]
          \/ \E params : facade' = [facade EXCEPT !.params = params]
      BY <1>5 DEF ParseBody, Enter, FallBack, appVars
    <3> QED BY <3>1, <3>2 DEF FacadeOf
  <2> QED BY <1>0, <2>1, <2>2
<1>6. CASE NotFound \/ Guard \/ Run \/ PassOn \/ Fail \/ Serialize
  <2>1. /\ stage \in Served /\ stage' \in Served /\ UNCHANGED inputVars /\ event' = event
        /\ facade' = facade
    BY <1>6 DEF NotFound, Guard, Run, PassOn, Fail, Serialize, FallBack, appVars
  <2> QED BY <1>0, <2>1 DEF FacadeOf
<1> QED BY <1>1, <1>2, <1>3, <1>4, <1>5, <1>6 DEF Next

-----------------------------------------------------------------------------
(* The answer. *)

LEMMA WireKeeps ==
  ASSUME IsResponse(response)
  PROVE  WireHeaders(Envelope(response)) = response.headers
<1> DEFINE h == response.headers
           many == {n \in DOMAIN h : Len(h[n]) > 1}
           flat == [n \in DOMAIN h \ many |-> h[n][1]]
           multi == [n \in many |-> h[n]]
           e == Envelope(response)
<1>1. e.flat = flat /\ e.multi = multi
  BY DEF Envelope
<1>2. h \in [DOMAIN h -> HeaderLists]
  BY DEF IsResponse
<1>3. ASSUME NEW n \in DOMAIN h \ many
      PROVE  <<h[n][1]>> = h[n]
  <2>1. h[n] \in HeaderLists /\ ~(Len(h[n]) > 1)
    BY <1>2, <1>3
  <2>2. PICK s \in Seq(HeaderTexts) : s = h[n] /\ s # <<>>
    BY <2>1 DEF HeaderLists
  <2>3. Len(s) = 1
    <3>1. PICK n0 \in Nat : n0 = Len(s) /\ n0 # 0
      BY <2>2, EmptySeq
    <3>2. ~(n0 > 1)
      BY <2>1, <2>2, <3>1, Zenon
    <3> QED BY <3>1, <3>2
  <2>4. <<s[1]>> \in Seq(HeaderTexts) /\ Len(<<s[1]>>) = 1 /\ <<s[1]>>[1] = s[1]
    BY <2>3
  <2>5. s = <<s[1]>>
    <3>1. \A i \in 1..Len(s) : s[i] = <<s[1]>>[i]
      BY <2>3, <2>4
    <3> QED BY <2>3, <2>4, <3>1, SeqEqual
  <2> QED BY <2>2, <2>5
<1>4. ASSUME NEW n \in DOMAIN h
      PROVE  /\ n \in many => /\ h[n] \in Seq(HeaderTexts)
                              /\ ~Has(flat, n) /\ Has(multi, n) /\ multi[n] = h[n]
             /\ n \notin many => /\ <<flat[n]>> = h[n] /\ <<flat[n]>> \in Seq(HeaderTexts)
                                 /\ Has(flat, n) /\ ~Has(multi, n)
  BY <1>2, <1>3 DEF Has, HeaderLists
<1>5. DOMAIN flat \cup DOMAIN multi = DOMAIN h
  OBVIOUS
<1> HIDE DEF flat, multi, many, h, e
<1>6. ASSUME NEW n \in DOMAIN h
      PROVE  (IF frame = "dev"
                THEN (IF Has(flat, n) THEN <<flat[n]>> ELSE <<>>)
                     \o (IF Has(multi, n) THEN multi[n] ELSE <<>>)
                ELSE IF Has(multi, n) THEN multi[n] ELSE <<flat[n]>>) = h[n]
  <2>1. h[n] \in Seq(HeaderTexts)
    BY <1>4
  <2>2. h[n] \o <<>> = h[n] /\ <<>> \o h[n] = h[n]
    BY <2>1, ConcatEmptySeq
  <2> QED BY <1>4, <2>2, Zenon
<1>7. WireHeaders(e) = [n \in DOMAIN h |->
            IF frame = "dev"
              THEN (IF Has(flat, n) THEN <<flat[n]>> ELSE <<>>)
                   \o (IF Has(multi, n) THEN multi[n] ELSE <<>>)
              ELSE IF Has(multi, n) THEN multi[n] ELSE <<flat[n]>>]
  BY <1>1, <1>5, Zenon DEF WireHeaders
<1>8. WireHeaders(e) = [n \in DOMAIN h |-> h[n]]
  BY <1>6, <1>7, Zenon
<1>9. h = [n \in DOMAIN h |-> h[n]]
  BY <1>2
<1> QED BY <1>8, <1>9 DEF h, e

LEMMA AnswerStep ==
  ASSUME Flow, Answer, Next
  PROVE  Answer'
<1> USE DEF Answer, Go
<1>1. CASE \E status \in Nat : FallBack(status)
  <2>1. stage' = "serializing"
    BY <1>1 DEF FallBack
  <2> QED BY <1>1, <2>1, FallBackKeeps
<1>2. CASE Run
  <2> DEFINE w == Program[pc]
  <2>1. stage = "running" /\ w.op \notin {"next", "throw"} /\ response' = Written(response, w)
        /\ stage' # "done"
    BY <1>2 DEF Run
  <2>2. w \in Writes
    BY <2>1, LayersOf, ElementOfSeq DEF Flow, Program
  <2> HIDE DEF w
  <2> QED BY <2>1, <2>2, WrittenKeeps
<1>3. CASE Serialize
  <2>1. response' = response /\ wire'.headers = WireHeaders(Envelope(response))
        /\ wire'.status = response.status /\ wire'.body = response.body
    BY <1>3 DEF Serialize, Envelope, appVars
  <2> QED BY <2>1, WireKeeps DEF Described
<1>4. CASE response' = response /\ stage' # "done"
  BY <1>4 DEF Described
<1>5. (\E status \in Nat : FallBack(status)) \/ Run \/ Serialize
      \/ (response' = response /\ stage' # "done")
  BY DEF Next, Arrive, Detect, ColdStart, BuildContext, Normalize, BuildFacade, ParseBody, Enter,
         NotFound, Guard, PassOn, Fail, Refuse, appVars
<1> QED BY <1>1, <1>2, <1>3, <1>4, <1>5

LEMMA TracedStep ==
  ASSUME Flow, Answer, Traced, Next
  PROVE  Traced'
<1> DEFINE Settled(s) == s \in {"serializing", "done"}
<1>1. /\ app' = app /\ index \in 0..Len(app.layers) /\ index' \in index..Len(app.layers)
      /\ Len(app.layers) \in Nat
  <2>1. index \in 0..Len(app.layers) /\ Len(app.layers) \in Nat
    BY LayersOf DEF Flow
  <2>2. CASE Enter
    <3>1. index' \in NextLayers(index) /\ app' = app
      BY <2>2, FirstOf DEF Enter, inputVars
    <3> QED BY <2>1, <3>1, LayersOf DEF NextLayers
  <2>3. CASE ~Enter
    <3>1. index' = index /\ app' = app
      BY <2>3 DEF Next, Arrive, Detect, ColdStart, BuildContext, Normalize, BuildFacade, ParseBody,
                  NotFound, Guard, Run, PassOn, Fail, Serialize, Go, Refuse, FallBack, inputVars, appVars
    <3> QED BY <2>1, <3>1
  <2> QED BY <2>2, <2>3
<1>2. WritesSoFar \subseteq WritesSoFar' /\ Chosen \subseteq Chosen'
  <2>1. WritesSoFar \subseteq WritesSoFar'
    BY <1>1 DEF WritesSoFar
  <2> QED BY <2>1 DEF Chosen
<1>3. CASE \E status \in {400, 403, 404, 500} : FallBack(status)
  <2>1. PICK status \in {400, 403, 404, 500} : FallBack(status)
    BY <1>3
  <2>2. \/ response' = response
        \/ response'.status = status /\ response'.body = WithTrace(status)
    BY <2>1, FallBackKeeps DEF Answer
  <2>3. WithTrace(status) = "traced" /\ status >= 400
    BY DEF WithTrace
  <2>4. stage' = "serializing"
    BY <2>1 DEF FallBack
  <2>5. CASE response' = response
    BY <1>2, <2>4, <2>5 DEF Traced
  <2>6. CASE response'.status = status /\ response'.body = "traced"
    BY <2>3, <2>4, <2>6 DEF Traced
  <2> QED BY <2>2, <2>3, <2>5, <2>6
<1>4. CASE Run
  <2> DEFINE w == Program[pc]
  <2>1. /\ stage = "running" /\ w.op \notin {"next", "throw"} /\ response' = Written(response, w)
        /\ index' = index
    BY <1>4 DEF Run
  <2>2. /\ index \in DOMAIN app.layers /\ pc \in DOMAIN app.layers[index].program
        /\ w = app.layers[index].program[pc]
    BY <2>1 DEF Flow, Program
  <2>3. w \in Writes
    BY <2>2, LayersOf, ElementOfSeq
  <2>4. w \in ToSet(app.layers[index].program) /\ index \in 1..index
    BY <2>2, LayersOf DEF ToSet
  <2>5. w \in WritesSoFar
    BY <2>4, Zenon DEF WritesSoFar
  <2> HIDE DEF w
  <2>6. /\ response'.status = (IF w.op \in {"status", "redirect"} THEN w.code ELSE response.status)
        /\ \/ response'.body # "traced"
           \/ w.op \in {"status", "set", "append", "end"} /\ response'.body = response.body
           \/ w.op = "json" /\ response.status >= 400
    BY <2>1, <2>3, WrittenKeeps DEF Answer
  <2>7. w.op \in {"status", "redirect"} => w.code \in Chosen
    BY <2>5 DEF Chosen
  <2>8. response'.status \in Chosen \cup {200}
    BY <2>1, <2>6, <2>7 DEF Traced
  <2>9. response'.body = "traced" =>
          response'.status >= 400 \/ \E v \in WritesSoFar : v.op = "status"
    BY <2>5, <2>6 DEF Traced
  <2> QED BY <1>2, <2>8, <2>9 DEF Traced
<1>5. CASE /\ response' = response
           /\ stage \in {"serializing", "done"} => stage' \in {"serializing", "done"}
  BY <1>2, <1>5 DEF Traced
<1>6. \/ \E status \in {400, 403, 404, 500} : FallBack(status)
      \/ Run
      \/ /\ response' = response
         /\ stage \in {"serializing", "done"} => stage' \in {"serializing", "done"}
  BY DEF Next, Arrive, Detect, ColdStart, BuildContext, Normalize, BuildFacade, ParseBody, Enter,
         NotFound, Guard, PassOn, Fail, Serialize, Refuse, Go, appVars
<1> QED BY <1>3, <1>4, <1>5, <1>6

-----------------------------------------------------------------------------
(* The route. *)

LEMMA RoutedStep ==
  ASSUME Flow, Intact, Routed, Next
  PROVE  Routed'
<1> USE DEF Go, inputVars, appVars
<1>1. app' = app
  BY DEF Next, Arrive, Detect, ColdStart, BuildContext, Normalize, BuildFacade, ParseBody, Enter,
         NotFound, Guard, Run, PassOn, Fail, Serialize, Refuse, FallBack
<1>2. client' = client
  BY DEF Next, Arrive, Detect, ColdStart, BuildContext, Normalize, BuildFacade, ParseBody, Enter,
         NotFound, Guard, Run, PassOn, Fail, Serialize, Refuse, FallBack
<1>3. /\ \A k : Fits(k)' <=> Fits(k)
      /\ \A k : HasNext(k)' <=> HasNext(k)
  BY <1>1, <1>2 DEF Fits, HasNext
<1>4. CASE Arrive \/ Detect \/ ColdStart \/ BuildContext \/ Normalize \/ BuildFacade
  <2>1. /\ stage' \in {"detecting", "starting", "context", "validating", "facade", "parsing", "refused"}
        /\ index' = index /\ index = 0
    BY <1>4 DEF Arrive, Detect, ColdStart, BuildContext, Normalize, BuildFacade, Refuse, Routed, Early
  <2>2. stage' \notin {"sent", "detecting", "starting", "refused"} =>
          \A k \in DOMAIN app.layers : Supported(app.layers[k].pattern)
    BY <1>4 DEF Arrive, Detect, ColdStart, BuildContext, Normalize, BuildFacade, Refuse, Routed
  <2> QED BY <1>1, <2>1, <2>2 DEF Routed, Early
<1>5. CASE \E status : FallBack(status)
  <2>1. /\ stage' = "serializing"
        /\ stage \notin {"sent", "detecting", "starting", "refused"}
    BY <1>5 DEF Next, Arrive, Detect, ColdStart, BuildContext, Normalize, BuildFacade, ParseBody, Enter,
                NotFound, Guard, Run, PassOn, Fail, Serialize, Refuse, FallBack
  <2> QED BY <1>1, <2>1 DEF Routed, Early
<1>6. CASE ParseBody /\ stage' = "scanning"
  <2>1. stage = "parsing" /\ index' = index /\ index = 0
    BY <1>6 DEF ParseBody, FallBack, Routed
  <2> QED BY <1>1, <1>6, <2>1 DEF Routed, Early
<1>7. CASE Enter
  <2> DEFINE k == Min(NextLayers(index))
  <2>1. /\ stage = "scanning" /\ NextLayers(index) # {}
        /\ index' = k /\ facade' = [facade EXCEPT !.params = ParamsFor(app.layers[k])]
        /\ stage' = IF app.layers[k].kind = "route" THEN "guarding" ELSE "running"
    BY <1>7 DEF Enter
  <2>2. k \in NextLayers(index) /\ \A j \in NextLayers(index) : k =< j
    BY <2>1, FirstOf
  <2>3. index \in Nat /\ DOMAIN app.layers = 1..Len(app.layers) /\ Len(app.layers) \in Nat
    BY LayersOf DEF Flow
  <2>4. facade.method = client.method /\ facade.path = client.path /\ facade = FacadeOf(facade)
    BY <2>1 DEF Intact, Served
  <2>5. \A j \in DOMAIN app.layers : Fits(j) => LayerMatches(app.layers[j])
    BY <2>4 DEF Fits, LayerMatches
  <2>6. app.layers[k].kind = "route" => Fits(k)
    BY <2>2, <2>4 DEF NextLayers, LayerMatches, Fits
  <2>7. app.layers[k].kind = "route" =>
          facade'.params = Captured(app.layers[k].pattern, client.path)
    BY <2>1, <2>4 DEF ParamsFor, FacadeOf
  <2>8. k \in DOMAIN app.layers /\ k > index
    BY <2>2 DEF NextLayers
  <2> HIDE DEF k
  <2>9. \A j \in 1..(k - 1) : Fits(j) => HasNext(j)
    <3> SUFFICES ASSUME NEW j \in 1..(k - 1), Fits(j) PROVE HasNext(j)
      OBVIOUS
    <3>1. j \in DOMAIN app.layers
      BY <2>3, <2>8
    <3>2. j \notin NextLayers(index)
      BY <2>2, <2>3, <2>8
    <3>3. j \in 1..index
      BY <2>3, <2>5, <3>1, <3>2 DEF NextLayers
    <3> QED BY <2>1, <3>3 DEF Routed
  <2> QED BY <1>1, <1>2, <1>3, <2>1, <2>6, <2>7, <2>9 DEF Routed, Early
<1>8. CASE Guard /\ stage' = "running"
  <2>1. /\ stage = "guarding" /\ guarded' = GuardOf(app.layers[index])
        /\ index' = index /\ facade' = facade
    BY <1>8 DEF Guard, FallBack
  <2>2. GuardOf(app.layers[index])' = GuardOf(app.layers[index])
    BY <1>1, <2>1 DEF GuardOf
  <2> QED BY <1>1, <1>2, <1>3, <1>8, <2>1, <2>2 DEF Routed, Early
<1>9. CASE Run
  <2>1. /\ stage = "running" /\ stage' \in {"running", "serializing"}
        /\ index' = index /\ facade' = facade /\ guarded' = guarded
    BY <1>9 DEF Run
  <2>2. GuardOf(app.layers[index])' = GuardOf(app.layers[index])
    BY <1>1, <2>1 DEF GuardOf
  <2> QED BY <1>1, <1>2, <1>3, <2>1, <2>2 DEF Routed, Early
<1>10. CASE PassOn
  <2>1. /\ stage = "running" /\ stage' \in {"scanning", "serializing"} /\ index' = index
        /\ Program[pc].op = "next"
    BY <1>10 DEF PassOn
  <2>2. HasNext(index) /\ index \in Nat
    BY <2>1, LayersOf DEF HasNext, Program, Flow
  <2>3. \A k \in 1..index : Fits(k) => HasNext(k)
    <3>1. \A k \in 1..index : k = index \/ k \in 1..(index - 1)
      BY <2>2
    <3> QED BY <2>1, <2>2, <3>1 DEF Routed
  <2> QED BY <1>1, <1>3, <2>1, <2>3 DEF Routed, Early
<1>11. CASE Serialize
  <2>1. stage' = "done" /\ stage = "serializing"
    BY <1>11 DEF Serialize
  <2> QED BY <1>1, <2>1 DEF Routed, Early
<1>12. ParseBody => stage' = "scanning" \/ \E status : FallBack(status)
  BY DEF ParseBody
<1>13. Guard => stage' = "running" \/ \E status : FallBack(status)
  BY DEF Guard
<1> QED BY <1>4, <1>5, <1>6, <1>7, <1>8, <1>9, <1>10, <1>11, <1>12, <1>13 DEF Next, NotFound, Fail

-----------------------------------------------------------------------------
(* The invariant holds. *)

THEOREM Invariance == Spec => []IInv
<1> USE DEF IInv
<1>1. Init => IInv
  <2> SUFFICES ASSUME Init PROVE IInv
    OBVIOUS
  <2>1. Flow
    <3>1. Len(app.layers) \in Nat
      BY AppAssumption DEF Init
    <3> QED BY <3>1 DEF Init, Flow, Stages, Early
  <2>2. Records
    BY DEF Init, Records, Early, Invoked
  <2>3. Arrived
    BY DEF Init, Arrived
  <2>4. Intact
    BY DEF Init, Intact, Served
  <2>5. Answer
    <3>1. <<>> \in [DOMAIN <<>> -> HeaderLists]
      <4>1. DOMAIN <<>> = {}
        OBVIOUS
      <4> QED BY <4>1
    <3> QED BY <3>1 DEF Init, Answer, EmptyResponse, IsResponse, Described
  <2>6. Traced
    BY DEF Init, Traced, EmptyResponse
  <2>7. Routed
    BY DEF Init, Routed
  <2> QED BY <2>1, <2>2, <2>3, <2>4, <2>5, <2>6, <2>7
<1>2. IInv /\ [Next]_vars => IInv'
  <2>1. IInv /\ Next => IInv'
    BY FlowStep, RecordsStep, ArrivedStep, IntactStep, AnswerStep, TracedStep, RoutedStep
       DEF Answer
  <2>2. IInv /\ UNCHANGED vars => IInv'
    BY DEF vars, Flow, Records, Arrived, Frames, IsV2, IsV1, WellTyped, Intact, SingleValued,
           BodyIntact, Answer, Described, Traced, Chosen, WritesSoFar,
           Routed, Fits, HasNext, GuardOf
  <2> QED BY <2>1, <2>2
<1> QED BY <1>1, <1>2, PTL DEF Spec

(* The type invariant: what the application reads of the body is what the body *)
(* parser has made of it, or nothing.                                          *)
THEOREM TypeCorrect == Spec => []TypeOK
<1>1. IInv => TypeOK
  <2> SUFFICES ASSUME IInv PROVE TypeOK
    OBVIOUS
  <2> DEFINE Kinds == [event: {"start", "finish", "error"}, status: Nat,
                       code: {"none", "Error", "UNKNOWN_INVOCATION_EVENT",
                              "UNSUPPORTED_ROUTE_PATTERN", "INVALID_INVOCATION_EVENT"}]
  <2>1. log \in Seq(Kinds)
    <3>1. /\ StartRecord \in Kinds
          /\ \A e \in ErrorRecords : e \in Kinds
          /\ \A status \in Nat : FinishRecord(status) \in Kinds
      BY DEF StartRecord, ErrorRecords, ErrorCodes, FinishRecord
    <3>2. \/ log = <<>>
          \/ \E a \in Kinds : log = <<a>>
          \/ \E a, b \in Kinds : log = <<a, b>>
      BY <3>1 DEF IInv, Records, Flow, Stages
    <3> HIDE DEF Kinds
    <3>3. <<>> \in Seq(Kinds)
      BY EmptySeq
    <3>4. \A a, b \in Kinds : <<a>> \in Seq(Kinds) /\ <<a, b>> \in Seq(Kinds)
      OBVIOUS
    <3> QED BY <3>2, <3>3, <3>4, Zenon
  <2>2. Reached => facade.body \in {"none", "json"}
    BY DEF IInv, Intact, Reached
  <2> QED BY <2>1, <2>2 DEF IInv, Flow, Stages, Early, Invoked, Answer, IsResponse, TypeOK
<1> QED BY <1>1, Invariance, PTL

(* Whatever frame a request comes in, whatever the gateway leaves out of it and *)
(* whatever has another type than observed: what the application reads is what  *)
(* the client has sent (adaptYcApiGatewayEventToV2, normalizeHttpRequest,       *)
(* createRequestFacade), but for the two frames that do not have it.            *)
THEOREM RequestIntact == Spec => []RequestArrives
<1>1. IInv => RequestArrives
  BY DEF IInv, Intact, RequestArrives, Reached, SingleValued, BodyIntact
<1> QED BY <1>1, Invariance, PTL

LEMMA NearestIs ==
  ASSUME NEW layer, app.defaultGuard # "undeclared"
  PROVE  GuardOf(layer) = NearestGuard(layer)
<1> DEFINE declared == <<layer.handler, layer.controller, app.defaultGuard>>
           places == {i \in 1..3 : declared[i] # "undeclared"}
<1>1. /\ declared[1] = layer.handler /\ declared[2] = layer.controller
      /\ declared[3] = app.defaultGuard
  OBVIOUS
<1> HIDE DEF declared
<1>2. ASSUME NEW i \in places, \A j \in places : i =< j
      PROVE  Min(places) = i
  <2>1. Min(places) \in places /\ \A j \in places : Min(places) =< j
    BY <1>2 DEF Min
  <2> QED BY <1>2, <2>1
<1>3. CASE layer.handler # "undeclared"
  <2>1. Min(places) = 1
    BY <1>1, <1>2, <1>3
  <2> QED BY <1>1, <1>3, <2>1 DEF GuardOf, NearestGuard, declared
<1>4. CASE layer.handler = "undeclared" /\ layer.controller # "undeclared"
  <2>1. Min(places) = 2
    BY <1>1, <1>2, <1>4
  <2> QED BY <1>1, <1>4, <2>1 DEF GuardOf, NearestGuard, declared
<1>5. CASE layer.handler = "undeclared" /\ layer.controller = "undeclared"
  <2>1. Min(places) = 3
    BY <1>1, <1>2, <1>5
  <2> QED BY <1>1, <1>5, <2>1 DEF GuardOf, NearestGuard, declared
<1> QED BY <1>3, <1>4, <1>5

(* The layer that runs is a route that its method and the meaning of its       *)
(* pattern admit, or a mount; no earlier one of them was passed over but by    *)
(* its own next(); its parameters are its own and its guard the declared one   *)
(* (compilePathPattern, advance, GlobalAuthGuard), for any patterns and paths. *)
THEOREM RightRouteRuns == Spec => []RightRoute
<1>1. IInv => RightRoute
  <2> SUFFICES ASSUME IInv, stage \in {"guarding", "running"} PROVE RightRoute
    BY DEF RightRoute
  <2> DEFINE wanted(k) == /\ app.layers[k].kind = "route"
                          /\ MatchesMethod(app.layers[k], client.method)
                          /\ Means(app.layers[k].pattern, client.path)
  <2>1. /\ client.path \in Seq(Texts) /\ app.defaultGuard # "undeclared"
        /\ \A k \in DOMAIN app.layers : app.layers[k].pattern \in Seq(Segments)
        /\ index \in DOMAIN app.layers /\ DOMAIN app.layers = 1..Len(app.layers)
        /\ Len(app.layers) \in Nat
    BY AppAssumption, ClientAssumption DEF IInv, Flow
  <2>2. \A k \in DOMAIN app.layers : Supported(app.layers[k].pattern)
    BY DEF IInv, Routed
  <2>3. \A k \in DOMAIN app.layers : wanted(k) <=> Fits(k)
    BY <2>1, <2>2, MatchesMeans DEF Fits
  <2>4. \A k \in 1..(index - 1) : wanted(k) => HasNext(k)
    <3>1. \A k \in 1..(index - 1) : k \in DOMAIN app.layers
      BY <2>1
    <3> QED BY <2>3, <3>1 DEF IInv, Routed
  <2>5. ASSUME app.layers[index].kind = "route"
        PROVE  /\ wanted(index)
               /\ DOMAIN facade.params = ParamNames(app.layers[index].pattern)
               /\ \A name \in ParamNames(app.layers[index].pattern) :
                    \E i \in DOMAIN app.layers[index].pattern :
                      /\ app.layers[index].pattern[i] = Param(name)
                      /\ facade.params[name] = client.path[i]
               /\ stage = "running" => guarded = NearestGuard(app.layers[index])
    <3>1. /\ Fits(index) /\ facade.params = Captured(app.layers[index].pattern, client.path)
          /\ stage = "running" => guarded = GuardOf(app.layers[index])
      BY <2>5 DEF IInv, Routed
    <3>2. wanted(index)
      BY <2>1, <2>3, <3>1
    <3> HIDE DEF wanted
    <3> QED BY <2>1, <3>1, <3>2, CapturedFrom, NearestIs
  <2> QED BY <2>4, <2>5 DEF RightRoute, HasNext
<1> QED BY <1>1, Invariance, PTL

(* What the application has answered is what the client gets, header by header *)
(* through both maps of the envelope and both servers, and the connector's own *)
(* failures carry the trace id, whatever the layers write in whatever order.   *)
THEOREM ResponseIntact == Spec => []ResponseArrives
<1>1. IInv => ResponseArrives
  <2> SUFFICES ASSUME IInv, stage = "done" PROVE ResponseArrives
    BY DEF ResponseArrives
  <2>1. /\ wire.headers = response.headers /\ wire.status = response.status
        /\ wire.body = response.body /\ Described(response)
    BY DEF IInv, Answer
  <2>2. wire.status \in {400, 403, 500} \ Chosen => wire.body = "traced"
    BY <2>1 DEF IInv, Traced
  <2>3. wire.body = "traced" /\ wire.status < 400 => \E w \in WritesSoFar : w.op = "status"
    BY <2>1 DEF IInv, Traced, Answer, IsResponse
  <2> QED BY <2>1, <2>2, <2>3 DEF ResponseArrives, Described, Has, Chosen, WritesSoFar
<1> QED BY <1>1, Invariance, PTL

(* Every invocation leaves one terminal record, with the status the client gets, *)
(* after a start record exactly when a transport was invoked (recordBoundary).  *)
THEOREM OneRecord == Spec => []OneTerminalRecord
<1>1. IInv => OneTerminalRecord
  <2> SUFFICES ASSUME IInv PROVE OneTerminalRecord
    OBVIOUS
  <2> DEFINE Terminal == {i \in DOMAIN log : log[i].event # "start"}
  <2>1. CASE stage \in Early
    <3>1. log = <<>> /\ Terminal = {}
      BY <2>1 DEF IInv, Records
    <3> QED BY <2>1, <3>1, FS_EmptySet DEF OneTerminalRecord, Early
  <2>2. CASE stage \in Invoked
    <3>1. log = <<StartRecord>>
      BY <2>2 DEF IInv, Records
    <3>2. Terminal = {}
      BY <3>1 DEF StartRecord
    <3>3. ~(Len(log) = 2) => stage \notin {"done", "refused"}
      BY <2>2 DEF Invoked
    <3> QED BY <2>2, <3>2, FS_EmptySet DEF OneTerminalRecord, Invoked
  <2>3. CASE stage = "refused"
    <3>1. PICK e \in ErrorRecords : log = <<e>> \/ log = <<StartRecord, e>>
      BY <2>3 DEF IInv, Records
    <3>2. e.event = "error" /\ StartRecord.event = "start"
      BY DEF ErrorRecords, StartRecord
    <3>3. CASE log = <<e>>
      <4>1. Terminal = {1} /\ Len(log) = 1 /\ log[1] = e
        BY <3>2, <3>3
      <4> HIDE DEF Terminal
      <4>2. Cardinality(Terminal) = 1 /\ log # <<>> /\ Last(log) = e
        BY <3>3, <4>1, FS_Singleton DEF Last
      <4> QED BY <2>3, <3>2, <4>1, <4>2 DEF OneTerminalRecord, Terminal
    <3>4. CASE log = <<StartRecord, e>>
      <4>1. Terminal = {2} /\ Len(log) = 2 /\ log[1] = StartRecord /\ log[2] = e
        BY <3>2, <3>4
      <4> HIDE DEF Terminal
      <4>2. Cardinality(Terminal) = 1 /\ log # <<>> /\ Last(log) = e
        BY <3>4, <4>1, FS_Singleton DEF Last
      <4> QED BY <2>3, <3>2, <4>1, <4>2 DEF OneTerminalRecord, Terminal
    <3> QED BY <3>1, <3>3, <3>4
  <2>4. CASE stage = "done"
    <3>1. log = <<StartRecord, FinishRecord(wire.status)>>
      BY <2>4 DEF IInv, Records
    <3>2. Terminal = {2}
      BY <3>1 DEF StartRecord, FinishRecord
    <3> QED BY <2>4, <3>1, <3>2, FS_Singleton DEF OneTerminalRecord, Last, StartRecord, FinishRecord
  <2> QED BY <2>1, <2>2, <2>3, <2>4 DEF IInv, Flow, Stages
<1> QED BY <1>1, Invariance, PTL
=============================================================================
