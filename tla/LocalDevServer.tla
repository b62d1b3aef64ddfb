--------------------------- MODULE LocalDevServer ---------------------------
(***************************************************************************)
(* The local development server of js-dev-tools: createYcsfLocalServer     *)
(* validates its options, loads the entry module, probes the port,         *)
(* resolves an IAM token, creates the connector's handler and listens;     *)
(* every request is read, handed to the handler and answered on its own    *)
(* connection; stop() drains the listener and then closes the connector.   *)
(* Connections and requests are Node's; the other program that may take    *)
(* the port is the environment.                                            *)
(***************************************************************************)
EXTENDS Naturals, FiniteSets

CONSTANTS Connections,   \* client connections
          Requests,      \* HTTP requests, each sent at most once
          Stoppers       \* callers of stop()

VARIABLES
  phase,      \* how far createYcsfLocalServer has come
  code,       \* the JDT_* code it rejected with, or "none"
  iam,        \* the source of the token, or the reason why there is none
  port,       \* who listens on the port: "nobody", "server", "other"
  runtime,    \* the connector's handler: "none", "open", "closing", "closed"
  conn,       \* the connections: "none", "open", "closed"
  req,        \* the requests and the invocations they became
  closed,     \* the flag of stop()
  stopper     \* the callers of stop()

startVars == <<phase, code, iam>>
serverVars == <<phase, code, iam, port, runtime, conn, req, closed, stopper>>

-----------------------------------------------------------------------------
(* Records *)

Codes == {"none", "JDT_MQ_UNSUPPORTED", "JDT_NO_TRANSPORT", "JDT_INVALID_PORT",
          "JDT_ENTRY_RESOLVE_FAILED", "JDT_ENTRY_MODULE_NOT_FOUND",
          "JDT_ENTRY_MODULE_AMBIGUOUS", "JDT_PORT_IN_USE"}
TokenSources == {"option", "env", "profile", "oauth", "saKey"}
IamReasons == {"no-credential", "io", "exchange-error", "network-error"}
Phases == {"validating", "loading", "probing", "iam", "binding", "listening", "rejected"}
NoConn == "no connection"
NoRequest == [pc |-> "new", on |-> NoConn, status |-> 0]

(* What the caller may pass: the bag of options, reduced to what validation
   tells apart. *)
OptionBags == [object: BOOLEAN, messageQueue: BOOLEAN, apiGatewayV2: BOOLEAN,
               port: {"valid", "invalid"}, entry: BOOLEAN]

-----------------------------------------------------------------------------
(* Start *)

ServerInit ==
  /\ phase = "validating" /\ code = "none" /\ iam = "no-credential"
  /\ port \in {"nobody", "other"}
  /\ runtime = "none"
  /\ conn = [c \in Connections |-> "none"]
  /\ req = [r \in Requests |-> NoRequest]
  /\ closed = FALSE
  /\ stopper = [s \in Stoppers |-> "idle"]

Advance(from, to) == phase = from /\ phase' = to /\ UNCHANGED code
Reject(from, why) == phase = from /\ phase' = "rejected" /\ code' = why

(* The first complaint of validateOptions, in the order of its checks. *)
ValidationCode(o) ==
  IF ~o.object THEN "JDT_ENTRY_RESOLVE_FAILED"
  ELSE IF o.messageQueue THEN "JDT_MQ_UNSUPPORTED"
  ELSE IF ~o.apiGatewayV2 THEN "JDT_NO_TRANSPORT"
  ELSE IF o.port = "invalid" THEN "JDT_INVALID_PORT"
  ELSE IF ~o.entry THEN "JDT_ENTRY_RESOLVE_FAILED"
  ELSE "none"

Validate ==
  /\ \E o \in OptionBags :
       LET why == ValidationCode(o) IN
       IF why = "none" THEN Advance("validating", "loading") ELSE Reject("validating", why)
  /\ UNCHANGED <<iam, port, runtime, conn, req, closed, stopper>>

(* The exports of the entry: a named AppModule and a default export, each
   absent or a class. *)
ModuleCode(named, default) ==
  CASE named # "absent" /\ default # "absent" /\ named # default -> "JDT_ENTRY_MODULE_AMBIGUOUS"
    [] named = "absent" /\ default = "absent"                    -> "JDT_ENTRY_MODULE_NOT_FOUND"
    [] OTHER                                                     -> "none"

LoadEntry ==
  /\ \/ Reject("loading", "JDT_ENTRY_RESOLVE_FAILED")     \* no such file, or its import fails
     \/ \E named, default \in {"absent", "classA", "classB"} :
          LET why == ModuleCode(named, default) IN
          IF why = "none" THEN Advance("loading", "probing") ELSE Reject("loading", why)
  /\ UNCHANGED <<iam, port, runtime, conn, req, closed, stopper>>

(* probePort binds the port and releases it again. *)
ProbePort ==
  /\ IF port = "other" THEN Reject("probing", "JDT_PORT_IN_USE")
                       ELSE Advance("probing", "iam")
  /\ UNCHANGED <<iam, port, runtime, conn, req, closed, stopper>>

(* What an exchange of a credential for a token may answer. *)
Exchanged(source) == {source, "exchange-error", "network-error"}

(* The answers resolveIamTokenDetailed may give for what it finds: the
   profile of config.yaml, and the usable keys of ~/.yc/keys (the first
   one that parses is the only one tried). *)
IamAnswers(option, env, config, keys) ==
  CASE option                 -> {"option"}
    [] ~option /\ env         -> {"env"}
    [] OTHER ->
       CASE config = "unreadable" -> {"io"}
         [] config = "t1."        -> {"profile"}
         [] config = "oauth"      -> Exchanged("oauth")
         [] OTHER ->
            CASE keys = "unreadable" -> {"io"}
              [] keys = "some"       -> {"io"} \cup Exchanged("saKey")   \* "io": not signable
              [] OTHER               -> {"no-credential"}

ResolveIam ==
  /\ Advance("iam", "binding")
  /\ \E option, env \in BOOLEAN, config \in {"none", "unreadable", "t1.", "oauth"},
        keys \in {"none", "unreadable", "some"} :
       iam' \in IamAnswers(option, env, config, keys)
  /\ UNCHANGED <<port, runtime, conn, req, closed, stopper>>

(* The handler is created, then listen() binds the port or fails. *)
Bind ==
  /\ runtime' = "open"
  /\ IF port = "other"
       THEN Reject("binding", "JDT_PORT_IN_USE") /\ UNCHANGED port
       ELSE Advance("binding", "listening") /\ port' = "server"
  /\ UNCHANGED <<iam, conn, req, closed, stopper>>

(* Another program takes the port or gives it back. *)
OtherProgram ==
  /\ phase \notin {"listening", "rejected"}
  /\ \/ port = "nobody" /\ port' = "other"
     \/ port = "other" /\ port' = "nobody"
  /\ UNCHANGED <<startVars, runtime, conn, req, closed, stopper>>

-----------------------------------------------------------------------------
(* Requests.  A request is on its connection from the moment its head is
   read until it is answered; its invocation goes on when the client leaves. *)

Running(r) == req[r].pc \in {"reading", "handling"}
OnConnection(c) == {r \in Requests : Running(r) /\ req[r].on = c}

Connect(c) ==
  /\ port = "server" /\ conn[c] = "none"
  /\ conn' = [conn EXCEPT ![c] = "open"]
  /\ UNCHANGED <<startVars, port, runtime, req, closed, stopper>>

(* The 'request' event: onRequest starts to read the body.  A connection
   that outlives the listener still delivers requests. *)
Receive(r, c) ==
  /\ conn[c] = "open" /\ OnConnection(c) = {}
  /\ req[r].pc = "new"
  /\ req' = [req EXCEPT ![r] = [pc |-> "reading", on |-> c, status |-> 0]]
  /\ UNCHANGED <<startVars, port, runtime, conn, closed, stopper>>

(* The body has been read: the event and the context are built and the
   handler is called. *)
CallHandler(r) ==
  /\ req[r].pc = "reading" /\ conn[req[r].on] = "open"
  /\ req' = [req EXCEPT ![r].pc = "handling"]
  /\ UNCHANGED <<startVars, port, runtime, conn, closed, stopper>>

Answer(r, status) ==
  /\ req' = [req EXCEPT ![r] = [pc |-> "answered", on |-> @.on, status |-> status]]
  /\ UNCHANGED <<startVars, port, runtime, conn, closed, stopper>>

(* The client left while the body was read: readBody rejects. *)
BodyFails(r) ==
  /\ req[r].pc = "reading" /\ conn[req[r].on] = "closed"
  /\ Answer(r, 500)

(* The handler returns an envelope that can be applied, or anything else:
   it throws, its result is no envelope, or a header of it is refused. *)
HandlerReturns(r) == req[r].pc = "handling" /\ Answer(r, 200)
HandlerFails(r) == req[r].pc = "handling" /\ Answer(r, 500)

(* The client drops its connection, or Node closes an idle one. *)
Disconnect(c) ==
  /\ conn[c] = "open"
  /\ conn' = [conn EXCEPT ![c] = "closed"]
  /\ UNCHANGED <<startVars, port, runtime, req, closed, stopper>>

KeepAliveTimeout(c) == OnConnection(c) = {} /\ Disconnect(c)

-----------------------------------------------------------------------------
(* stop() *)

(* Mutant: the flag is tested the wrong way round. *)
StopNothing(s) ==
  /\ phase = "listening" /\ stopper[s] = "idle"
  /\ stopper' = [stopper EXCEPT ![s] = "returned"]
  /\ UNCHANGED <<startVars, port, conn, closed, runtime, req>>

(* The first call stops listening and ends the idle connections; a later
   call returns at once. *)
Stop(s) ==
  /\ phase = "listening" /\ stopper[s] = "idle"
  /\ IF closed
       THEN /\ stopper' = [stopper EXCEPT ![s] = "returned"]
            /\ UNCHANGED <<port, conn, closed>>
       ELSE /\ stopper' = [stopper EXCEPT ![s] = "draining"]
            /\ closed' = TRUE
            /\ port' = "nobody"
            /\ conn' = [c \in Connections |->
                          IF conn[c] = "open" /\ OnConnection(c) = {} THEN "closed" ELSE conn[c]]
  /\ UNCHANGED <<startVars, runtime, req>>

(* Mutant: stop() does not wait for the callback of server.close. *)
DrainedAtOnce(s) ==
  /\ stopper[s] = "draining"
  /\ stopper' = [stopper EXCEPT ![s] = "closing"]
  /\ runtime' = "closing"
  /\ UNCHANGED <<startVars, port, conn, req, closed>>

(* server.close calls back when the last connection has ended, and the
   connector is closed. *)
Drained(s) ==
  /\ stopper[s] = "draining"
  /\ \A c \in Connections : conn[c] # "open"
  /\ stopper' = [stopper EXCEPT ![s] = "closing"]
  /\ runtime' = "closing"
  /\ UNCHANGED <<startVars, port, conn, req, closed>>

(* The connector's close() resolves or rejects, and stop() with it. *)
RuntimeClosed(s) ==
  /\ stopper[s] = "closing"
  /\ runtime' = "closed"
  /\ \E end \in {"returned", "rejected"} : stopper' = [stopper EXCEPT ![s] = end]
  /\ UNCHANGED <<startVars, port, conn, req, closed>>

-----------------------------------------------------------------------------
ServerNext ==
  \/ Validate \/ LoadEntry \/ ProbePort \/ ResolveIam \/ Bind \/ OtherProgram
  \/ \E c \in Connections : Connect(c) \/ Disconnect(c) \/ \E r \in Requests : Receive(r, c)
  \/ \E r \in Requests : CallHandler(r) \/ BodyFails(r) \/ HandlerReturns(r) \/ HandlerFails(r)
  \/ \E s \in Stoppers : Stop(s) \/ Drained(s) \/ RuntimeClosed(s)

ServerSpec == ServerInit /\ [][ServerNext]_serverVars

(* Bodies end, handlers settle, Node ends idle connections after its
   keep-alive timeout and calls back; nobody has to connect, to request or
   to call stop(). *)
ServerFairSpec ==
  /\ ServerSpec
  /\ \A r \in Requests : /\ WF_serverVars(CallHandler(r) \/ BodyFails(r))
                         /\ WF_serverVars(HandlerReturns(r) \/ HandlerFails(r))
  /\ \A c \in Connections : WF_serverVars(KeepAliveTimeout(c))
  /\ \A s \in Stoppers : WF_serverVars(Drained(s)) /\ WF_serverVars(RuntimeClosed(s))

-----------------------------------------------------------------------------
(* Properties *)

(* The values the variables take. *)
ServerTypeOK ==
  /\ phase \in Phases /\ code \in Codes
  /\ iam \in TokenSources \cup IamReasons
  /\ port \in {"nobody", "server", "other"}
  /\ runtime \in {"none", "open", "closing", "closed"}
  /\ conn \in [Connections -> {"none", "open", "closed"}]
  /\ req \in [Requests -> [pc: {"new", "reading", "handling", "answered"},
                           on: Connections \cup {NoConn}, status: {0, 200, 500}]]
  /\ closed \in BOOLEAN
  /\ stopper \in [Stoppers -> {"idle", "draining", "closing", "returned", "rejected"}]

(* The connector is closed only after every client that still waits for an
   answer has got it: an invocation that runs while or after the application
   is shut down is one whose client has gone. *)
DrainsBeforeClose ==
  runtime \in {"closing", "closed"} =>
    \A r \in Requests : req[r].pc = "handling" => conn[req[r].on] = "closed"

(* Once the connector is being closed the handler is never called again: a
   late call would start a second application that nothing closes. *)
NoCallAfterClose ==
  [][\A r \in Requests : req[r].pc = "reading" /\ req'[r].pc = "handling" =>
       runtime \notin {"closing", "closed"}]_serverVars

(* stop() ends: once called, the connector gets closed and every caller of
   stop() gets its answer. *)
StopEnds == \A s \in Stoppers : stopper[s] # "idle" ~>
              (runtime = "closed" /\ stopper[s] \in {"returned", "rejected"})

=============================================================================
