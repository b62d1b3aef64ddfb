------------------------------ MODULE HttpEdge ------------------------------
(***************************************************************************)
(* One HTTP request on its way through the edges of the connector: the     *)
(* frame it arrives in (API Gateway v2, the v1 frame of the                *)
(* cloud_functions integration, or the development server's own v2 frame), *)
(* detection, cold start, execution context, validation, normalisation,    *)
(* the request facade, the routes and their guards, the response facade,   *)
(* the envelope and the headers that reach the client.  HttpDispatch has   *)
(* the control flow of the layers; here they are programs of writes.       *)
(*                                                                         *)
(* Values are abstract: a header value is the sequence of the values       *)
(* joined with commas, a body is one of five kinds of bytes, and a query   *)
(* is the sequence of its <<key, value>> pairs.                            *)
(***************************************************************************)
EXTENDS PathPattern, SequencesExt

CONSTANTS Clients,    \* the requests that are sent
          Apps        \* the applications: layers, default guard, DI providers

(* What the program of a layer does, one write after the other. *)
Writes ==
  [op : {"status"}, code : Nat] \cup [op : {"redirect"}, code : Nat, value : STRING]
  \cup [op : {"set", "append"}, name : STRING, value : STRING]
  \cup [op : {"json", "text", "binary", "end", "next", "throw"}]

ASSUME AppAssumption ==
  \A a \in Apps :
    /\ a.defaultGuard # "undeclared"
    /\ Len(a.layers) \in Nat /\ DOMAIN a.layers = 1..Len(a.layers)
    /\ \A k \in DOMAIN a.layers : /\ a.layers[k].program \in Seq(Writes) \ {<<>>}
                                   /\ a.layers[k].pattern \in Seq(Segments)

ASSUME ClientAssumption == \A c \in Clients : c.path \in Seq(Texts)

VARIABLES
  stage,     \* the step that comes next
  client,    \* what the client sends
  app,       \* the application behind the connector
  frame,     \* the kind of frame it arrives in
  event,     \* the raw event: a map of its fields
  mistyped,  \* the fields of it that have another type than observed
  request,   \* the normalised request
  facade,    \* what the application reads
  index,     \* the layer the scan has reached
  pc,        \* the next write of that layer's program
  guarded,   \* the guard that admitted the request to the layer, or "none"
  response,  \* the response facade
  log,       \* the boundary records
  wire       \* the response as the client gets it

vars == <<stage, client, app, frame, event, mistyped, request, facade, index, pc,
          guarded, response, log, wire>>
inputVars == <<client, app, frame, mistyped>>
appVars == <<facade, index, pc, guarded, response>>

-----------------------------------------------------------------------------
(* Records *)

Nothing == [none |-> TRUE]
Has(map, key) == key \in DOMAIN map
Pairs(key, pairs) == SelectSeq(pairs, LAMBDA p : p[1] = key)
ValuesOf(key, pairs) == LET s == Pairs(key, pairs) IN [i \in DOMAIN s |-> s[i][2]]
Keys(pairs) == {pairs[i][1] : i \in DOMAIN pairs}
Grouped(pairs) == [k \in Keys(pairs) |-> ValuesOf(k, pairs)]

EmptyResponse == [status |-> 200, headers |-> <<>>, body |-> "none", ended |-> FALSE]

Init ==
  /\ stage = "sent"
  /\ client \in Clients /\ app \in Apps
  /\ frame = "none" /\ event = Nothing /\ mistyped = {} /\ request = Nothing /\ facade = Nothing
  /\ index = 0 /\ pc = 0 /\ guarded = "none"
  /\ response = EmptyResponse
  /\ log = <<>> /\ wire = Nothing

-----------------------------------------------------------------------------
(* Frames *)

IsText(type) == type \in {"text", "json", "form"}

(* encodeBody of the development server: text goes out as UTF-8 text, also
   when its bytes are none. *)
DevBody(type, body) ==
  [text |-> IF body = "binary" /\ IsText(type) THEN "mangled" ELSE body,
   base64 |-> body = "binary" /\ ~IsText(type)]

(* The gateway encodes everything but application/json. *)
GatewayBody(type, body) == [text |-> body, base64 |-> type # "json"]

(* The headers of a frame: an entry for each name as it was written. *)
HeaderEntries(headers) ==
  LET firsts == SelectSeq(headers,
                  LAMBDA h : h = headers[CHOOSE i \in DOMAIN headers :
                                           /\ headers[i][1] = h[1]
                                           /\ \A j \in 1..(i - 1) : headers[j][1] # h[1]])
  IN [i \in DOMAIN firsts |-> <<firsts[i][1], ValuesOf(firsts[i][1], headers)>>]

V2Event(c, body) ==
  [version |-> "2.0", rawPath |-> c.path, rawQueryString |-> c.query,
   headers |-> HeaderEntries(c.headers), queryStringParameters |-> Grouped(c.query),
   multiValueParameters |-> Grouped(c.query), pathParameters |-> <<>>,
   parameters |-> <<>>, body |-> body, isBase64Encoded |-> body.base64,
   requestContext |-> c.method, operationId |-> "op"]

(* In the v1 frame a repeated query parameter collapses to its last value
   outside url and multiValueQueryStringParameters. *)
V1Event(c, body, optional) ==
  [f \in {"httpMethod", "path", "headers", "queryStringParameters", "body",
          "isBase64Encoded", "requestContext"} \cup optional |->
     CASE f = "httpMethod" -> c.method
       [] f = "path" -> c.path
       [] f \in {"url", "multiValueQueryStringParameters"} -> c.query
       [] f = "headers" -> HeaderEntries(c.headers)
       [] f = "queryStringParameters" ->
            [k \in Keys(c.query) |-> <<Last(ValuesOf(k, c.query))>>]
       [] f = "body" -> body
       [] f = "isBase64Encoded" -> body.base64
       [] OTHER -> <<>>]

OptionalV1 == {"url", "multiValueQueryStringParameters", "params"}

(* A field of the frame may be missing or of another type than observed. *)
Delivered(e) ==
  /\ event' \in {e} \cup {[g \in DOMAIN e \ {f} |-> e[g]] : f \in DOMAIN e}
  /\ mistyped' \in {{}} \cup {{f} : f \in DOMAIN e}
  /\ (event' # e \/ mistyped' # {}) => client.drift /\ frame' # "dev"

Arrive ==
  /\ stage = "sent"
  /\ \/ /\ frame' = "dev"
        /\ Delivered(V2Event(client, DevBody(client.type, client.body)))
     \/ /\ frame' = "v2"
        /\ Delivered(V2Event(client, GatewayBody(client.type, client.body)))
     \/ /\ frame' = "v1"
        /\ \E optional \in SUBSET OptionalV1 :
             Delivered(V1Event(client, GatewayBody(client.type, client.body), optional))
  /\ stage' = "detecting"
  /\ UNCHANGED <<client, app, request, appVars, log, wire>>

-----------------------------------------------------------------------------
(* The invocation *)

WellTyped(f) == Has(event, f) /\ f \notin mistyped

(* supports(): the first look at an event. *)
IsV2 == WellTyped("version") /\ WellTyped("rawPath") /\ WellTyped("rawQueryString")
IsV1 == WellTyped("httpMethod") /\ WellTyped("path") /\ ~Has(event, "version")

Logged(record) == log' = Append(log, record)
Refuse(code) == /\ stage' = "refused"
                /\ Logged([event |-> "error", code |-> code, status |-> 0])
                /\ UNCHANGED <<inputVars, event, request, appVars, wire>>
Go(to) == stage' = to /\ UNCHANGED <<inputVars, event>>

Detect ==
  /\ stage = "detecting"
  /\ IF IsV2 \/ IsV1
       THEN Go("starting") /\ UNCHANGED <<request, appVars, log, wire>>
       ELSE Refuse("UNKNOWN_INVOCATION_EVENT")

(* Mutant: a cold start that fails is not logged. *)
ColdStartSilent ==
  /\ stage = "starting"
  /\ Go(IF \A k \in DOMAIN app.layers : Supported(app.layers[k].pattern)
          THEN "context" ELSE "refused")
  /\ UNCHANGED <<request, appVars, log, wire>>

(* The cold start compiles the patterns of all layers. *)
ColdStart ==
  /\ stage = "starting"
  /\ IF \A k \in DOMAIN app.layers : Supported(app.layers[k].pattern)
       THEN Go("context") /\ UNCHANGED <<request, appVars, log, wire>>
       ELSE Refuse("UNSUPPORTED_ROUTE_PATTERN")

(* buildYandexExecutionContext refuses a context the platform never gave;
   then the scope of the invocation is entered. *)
BuildContext ==
  /\ stage = "context"
  /\ \/ Go("validating") /\ Logged([event |-> "start", code |-> "none", status |-> 0])
        /\ UNCHANGED <<request, appVars, wire>>
     \/ Refuse("Error")

Required ==
  IF Has(event, "version")
    THEN {"rawPath", "rawQueryString", "headers", "queryStringParameters", "requestContext",
          "body", "isBase64Encoded", "pathParameters", "parameters", "multiValueParameters",
          "operationId"}
    ELSE {"httpMethod", "path", "headers", "queryStringParameters", "body",
          "isBase64Encoded", "requestContext"}

(* The optional fields of the v1 frame may be absent, but not mistyped. *)
Valid ==
  /\ \A f \in Required : WellTyped(f)
  /\ ~Has(event, "version") => mistyped \cap DOMAIN event = {}

(* Mutant: the query string of the v1 frame is always serialised. *)
QueryStringOfMaps(e) ==
  LET values == e.queryStringParameters
  IN FlattenSeq(SetToSeq({[i \in DOMAIN values[k] |-> <<k, values[k][i]>>] : k \in DOMAIN values}))

(* The query string of a v1 event: url, or the repeated values, or the
   single ones. *)
QueryStringV1(e) ==
  LET multi == Has(e, "multiValueQueryStringParameters") /\ e.multiValueQueryStringParameters # <<>>
      values == e.queryStringParameters
  IN IF Has(e, "url") THEN e.url
     ELSE IF multi THEN e.multiValueQueryStringParameters
     ELSE FlattenSeq(SetToSeq({[i \in DOMAIN values[k] |-> <<k, values[k][i]>>] : k \in DOMAIN values}))

(* adaptYcApiGatewayEventToV2 *)
Adapted(e) ==
  IF Has(e, "version") THEN e
  ELSE [rawPath |-> e.path, rawQueryString |-> QueryStringV1(e), headers |-> e.headers,
        body |-> e.body, isBase64Encoded |-> e.isBase64Encoded, requestContext |-> e.httpMethod,
        multiValueParameters |->
          IF Has(e, "multiValueQueryStringParameters") /\ e.multiValueQueryStringParameters # <<>>
            THEN Grouped(e.multiValueQueryStringParameters)
            ELSE IF Has(e, "params") THEN e.params ELSE <<>>]

DecodedBody(body) == IF body.text = "empty" THEN "none" ELSE body.text

(* normalizeHttpRequest *)
Normalized(e, version) ==
  [httpVersion |-> version, method |-> e.requestContext, path |-> e.rawPath,
   query |-> e.rawQueryString, multi |-> e.multiValueParameters, headers |-> e.headers,
   body |-> DecodedBody(e.body)]

Normalize ==
  /\ stage = "validating"
  /\ IF Valid
       THEN /\ request' = Normalized(Adapted(event), IF Has(event, "version") THEN "2.0" ELSE "1.0")
            /\ Go("facade")
            /\ UNCHANGED <<appVars, log, wire>>
       ELSE Refuse("INVALID_INVOCATION_EVENT")

(* createRequestFacade: names in lower case, where the last spelling wins. *)
FacadeHeaders(entries) ==
  LET names == {LowerCase[entries[i][1]] : i \in DOMAIN entries}
  IN [n \in names |-> entries[Max({i \in DOMAIN entries : LowerCase[entries[i][1]] = n})][2]]

BuildFacade ==
  /\ stage = "facade"
  /\ facade' = [method |-> request.method, path |-> request.path, query |-> Grouped(request.query),
                headers |-> FacadeHeaders(request.headers), params |-> <<>>,
                body |-> "none", rawBody |-> request.body]
  /\ Go("parsing")
  /\ UNCHANGED <<request, index, pc, guarded, response, log, wire>>

-----------------------------------------------------------------------------
(* The response facade *)

HeaderValues(r, name) == IF Has(r.headers, name) THEN r.headers[name] ELSE <<>>
PutHeader(r, name, values) ==
  [r EXCEPT !.headers = [n \in DOMAIN @ \cup {name} |-> IF n = name THEN values ELSE @[n]]]
ImplicitType(r, type) ==
  IF Has(r.headers, "content-type") THEN r ELSE PutHeader(r, "content-type", <<type>>)

WithTrace(status) == IF status < 400 THEN "object" ELSE "traced"

(* One write of a handler. *)
Written(r, w) ==
  CASE w.op = "status" -> [r EXCEPT !.status = w.code]
    [] w.op = "set"    -> PutHeader(r, w.name, <<w.value>>)
    [] w.op = "append" -> PutHeader(r, w.name, Append(HeaderValues(r, w.name), w.value))
    [] w.op = "json"   -> [ImplicitType(r, "application/json")
                             EXCEPT !.body = WithTrace(r.status), !.ended = TRUE]
    [] w.op = "text"   -> [ImplicitType(r, "text/plain") EXCEPT !.body = "text", !.ended = TRUE]
    [] w.op = "binary" -> [ImplicitType(r, "application/octet-stream")
                             EXCEPT !.body = "binary", !.ended = TRUE]
    [] w.op = "redirect" -> [PutHeader(r, "location", <<w.value>>)
                               EXCEPT !.status = w.code, !.body = "none", !.ended = TRUE]
    [] w.op = "end"    -> [r EXCEPT !.ended = TRUE]

(* The adapter's reply, which Nest's response controller and exception
   filters call: a status first, then the body by its type. *)
Reply(r, status, op) == Written([r EXCEPT !.status = status], [op |-> op])

(* What a fallback answers: the exception filters of Nest, its not-found
   handler and the last resort. *)
FallBack(status) ==
  /\ response' = IF response.ended THEN response
                 ELSE Reply(response, status, "json")
  /\ stage' = "serializing"
  /\ UNCHANGED <<inputVars, event, request, facade, index, pc, guarded, log, wire>>

-----------------------------------------------------------------------------
(* Layers *)

MatchesMethod(layer, method) ==
  layer.method \in {"*", method} \/ (method = "HEAD" /\ layer.method = "GET")

LayerMatches(layer) ==
  /\ MatchesMethod(layer, facade.method)
  /\ IF layer.kind = "route" THEN Matches(layer.pattern, facade.path)
                             ELSE MatchesPrefix(layer.pattern, layer.exact, facade.path)

(* The JSON body parser is the first layer. *)
ParseBody ==
  /\ stage = "parsing"
  /\ IF facade.rawBody # "none" /\ client.type = "json"
       THEN IF facade.rawBody = "json"
              THEN /\ facade' = [facade EXCEPT !.body = "json"]
                   /\ Go("scanning")
                   /\ UNCHANGED <<request, index, pc, guarded, response, log, wire>>
              ELSE FallBack(400)
       ELSE Go("scanning") /\ UNCHANGED <<request, appVars, log, wire>>

ParamsFor(layer) ==
  IF layer.kind = "route" THEN Captured(layer.pattern, facade.path) ELSE facade.params

NextLayers(from) ==
  {k \in DOMAIN app.layers : k > from /\ LayerMatches(app.layers[k])}

(* advance(): the next layer that matches, or not found. *)
Enter ==
  /\ stage = "scanning"
  /\ NextLayers(index) # {}
  /\ LET k == Min(NextLayers(index)) IN
       /\ index' = k
       /\ facade' = [facade EXCEPT !.params = ParamsFor(app.layers[k])]
       /\ stage' = IF app.layers[k].kind = "route" THEN "guarding" ELSE "running"
  /\ pc' = 1 /\ guarded' = "none"
  /\ UNCHANGED <<inputVars, event, request, response, log, wire>>

NotFound ==
  /\ stage = "scanning"
  /\ NextLayers(index) = {}
  /\ FallBack(404)

(* Mutant: the controller's declaration wins. *)
GuardOfController(layer) ==
  IF layer.controller # "undeclared" THEN layer.controller
  ELSE IF layer.handler # "undeclared" THEN layer.handler ELSE app.defaultGuard

(* GlobalAuthGuard: the declaration of the handler, else the controller's,
   else the project's default. *)
GuardOf(layer) ==
  IF layer.handler # "undeclared" THEN layer.handler
  ELSE IF layer.controller # "undeclared" THEN layer.controller
  ELSE app.defaultGuard

Guard ==
  /\ stage = "guarding"
  /\ LET guard == GuardOf(app.layers[index]) IN
       \/ /\ guard \in {"public", "none"} \cup app.providers   \* admitted
          /\ guarded' = guard
          /\ Go("running")
          /\ UNCHANGED <<request, facade, index, pc, response, log, wire>>
       \/ guard \in app.providers /\ FallBack(403)              \* refused
       \/ guard \notin {"public", "none"} \cup app.providers /\ FallBack(500)

(* The layer's program runs one write at a time; it answers, passes the
   request on or throws. *)
Program == app.layers[index].program
Run ==
  /\ stage = "running"
  /\ Program[pc].op \notin {"next", "throw"}
  /\ response' = Written(response, Program[pc])
  /\ pc' = pc + 1
  /\ stage' = IF pc = Len(Program) THEN "serializing" ELSE "running"
  /\ UNCHANGED <<inputVars, event, request, facade, index, guarded, log, wire>>

PassOn ==
  /\ stage = "running" /\ Program[pc].op = "next"
  /\ Go(IF response.ended /\ NextLayers(index) = {} THEN "serializing" ELSE "scanning")
  /\ UNCHANGED <<request, appVars, log, wire>>

Fail == stage = "running" /\ Program[pc].op = "throw" /\ FallBack(500)

-----------------------------------------------------------------------------
(* Mutant: a repeated header is in the flat map too. *)
EnvelopeBoth(r) ==
  LET many == {n \in DOMAIN r.headers : Len(r.headers[n]) > 1} IN
  [status |-> r.status, body |-> r.body,
   flat |-> [n \in DOMAIN r.headers |-> r.headers[n][1]],
   multi |-> [n \in many |-> r.headers[n]]]

(* serializeResponse: a header with several values is in the multi-value map
   only. *)
Envelope(r) ==
  LET many == {n \in DOMAIN r.headers : Len(r.headers[n]) > 1} IN
  [status |-> r.status, body |-> r.body,
   flat |-> [n \in DOMAIN r.headers \ many |-> r.headers[n][1]],
   multi |-> [n \in many |-> r.headers[n]]]

(* The development server sets the flat headers and appends the others; the
   gateway lets the multi-value map win. *)
WireHeaders(e) ==
  [n \in DOMAIN e.flat \cup DOMAIN e.multi |->
     IF frame = "dev"
       THEN (IF Has(e.flat, n) THEN <<e.flat[n]>> ELSE <<>>)
            \o (IF Has(e.multi, n) THEN e.multi[n] ELSE <<>>)
       ELSE IF Has(e.multi, n) THEN e.multi[n] ELSE <<e.flat[n]>>]

Serialize ==
  /\ stage = "serializing"
  /\ LET e == Envelope(response) IN
       wire' = [status |-> e.status, headers |-> WireHeaders(e), body |-> e.body]
  /\ Logged([event |-> "finish", code |-> "none", status |-> response.status])
  /\ Go("done")
  /\ UNCHANGED <<request, appVars>>

Next ==
  \/ Arrive \/ Detect \/ ColdStart \/ BuildContext \/ Normalize \/ BuildFacade
  \/ ParseBody \/ Enter \/ NotFound \/ Guard \/ Run \/ PassOn \/ Fail \/ Serialize

Spec == Init /\ [][Next]_vars

-----------------------------------------------------------------------------
(* Properties *)

Reached == facade # Nothing

TypeOK ==
  /\ stage \in {"sent", "detecting", "starting", "context", "validating", "facade", "parsing",
                "scanning", "guarding", "running", "serializing", "done", "refused"}
  /\ client \in Clients /\ app \in Apps
  /\ frame \in {"none", "v1", "v2", "dev"}
  /\ index \in 0..Len(app.layers)
  /\ response.body \in {"none", "object", "traced", "text", "binary"}
  /\ Reached => facade.body \in {"none", "json"}   \* never a body that does not parse
  /\ log \in Seq([event: {"start", "finish", "error"}, status: Nat,
                code: {"none", "Error", "UNKNOWN_INVOCATION_EVENT", "UNSUPPORTED_ROUTE_PATTERN",
                       "INVALID_INVOCATION_EVENT"}])

(* The application sees the repeated query parameters the client has sent, in
   their order, whatever frame they came in, unless the frame has only the
   single-valued map; and it reads the bytes of the body, or no body exactly
   when there was none, unless the development server took bytes that are not
   UTF-8 for the text they were declared to be. *)
RequestArrives ==
  Reached =>
    /\ \/ facade.query = Grouped(client.query)
       \/ frame = "v1" /\ ~Has(event, "url") /\ ~Has(event, "multiValueQueryStringParameters")
    /\ \/ facade.rawBody = (IF client.body = "empty" THEN "none" ELSE client.body)
       \/ frame = "dev" /\ client.body = "binary" /\ IsText(client.type)

(* The guard that is declared for a handler is the nearest declaration: its
   own, else its controller's, else the project's. *)
NearestGuard(layer) ==
  LET declared == <<layer.handler, layer.controller, app.defaultGuard>>
  IN declared[Min({i \in 1..3 : declared[i] # "undeclared"})]

(* The layer that runs is one its method and the meaning of its pattern
   admit, no earlier one of them was passed over but by its own next(), the
   parameters are those of this route alone, each with the text in one of its
   places, and its handler runs behind the guard that is declared for it
   (advance, GlobalAuthGuard). *)
RightRoute ==
  stage \in {"guarding", "running"} =>
    LET layer == app.layers[index]
        wanted(k) == LET l == app.layers[k] IN
          l.kind = "route" /\ MatchesMethod(l, client.method) /\ Means(l.pattern, client.path)
    IN /\ layer.kind = "route" =>
            /\ wanted(index)
            /\ DOMAIN facade.params = ParamNames(layer.pattern)
            /\ \A name \in ParamNames(layer.pattern) : \E i \in DOMAIN layer.pattern :
                 layer.pattern[i] = Param(name) /\ facade.params[name] = client.path[i]
            /\ stage = "running" => guarded = NearestGuard(layer)
       /\ \A k \in 1..(index - 1) : wanted(k) =>
            \E i \in DOMAIN app.layers[k].program : app.layers[k].program[i].op = "next"

(* Every value a handler has set or appended for a header reaches the client
   once and in order, through both response maps and both servers; and the
   failures the connector itself answers, which no layer so far has chosen the
   status of, carry the trace id, while no answer under a success status does
   unless the layer has changed the status it was written under. *)
ResponseArrives ==
  stage = "done" =>
    LET writes(k) == ToSet(app.layers[k].program)
        chosen == {w.code : w \in {v \in UNION {writes(k) : k \in 1..index} :
                                     v.op \in {"status", "redirect"}}} IN
    /\ wire.headers = response.headers
    /\ wire.body # "none" => Has(wire.headers, "content-type")
    /\ wire.status \in {400, 403, 500} \ chosen => wire.body = "traced"
    /\ wire.body = "traced" /\ wire.status < 400 =>
         \E k \in 1..index : \E w \in writes(k) : w.op = "status"

(* Every invocation leaves one terminal record, and a start record before it
   exactly when a transport was invoked. *)
OneTerminalRecord ==
  /\ stage \in {"done", "refused"} =>
       /\ log # <<>> /\ Last(log).event = (IF stage = "done" THEN "finish" ELSE "error")
       /\ stage = "done" => Last(log).status = wire.status
       /\ Len(log) = 2 <=> log[1].event = "start"
  /\ Cardinality({i \in DOMAIN log : log[i].event # "start"}) <=
       (IF stage \in {"done", "refused"} THEN 1 ELSE 0)
=============================================================================
