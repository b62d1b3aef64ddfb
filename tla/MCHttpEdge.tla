----------------------------- MODULE MCHttpEdge -----------------------------
(* Requests and applications for HttpEdge. *)
EXTENDS HttpEdge, TLC

MCTexts == {"cats", "CATS", "7", "files", "x", "Accept", "accept", "Cookie", "cookie"}
MCLowerCase == [t \in MCTexts |-> CASE t = "CATS" -> "cats" [] t = "Accept" -> "accept"
                                    [] t = "Cookie" -> "cookie" [] OTHER -> t]

Base == [method |-> "GET", path |-> <<"cats", "7">>, query |-> <<>>, headers |-> <<>>,
         type |-> "json", body |-> "empty", drift |-> FALSE]

Queries == BoundedSeq({"a", "b"} \X {"x", "y"}, 2) \cup {<< <<"a", "x">>, <<"b", "x">>, <<"a", "y">> >>}
Paths == {<<>>, <<"cats">>, <<"CATS", "7">>, <<"cats", "7", "x">>, <<"files">>,
          <<"files", "x", "7">>, <<"x">>}

MCClients ==
  {[Base EXCEPT !.drift = d] : d \in BOOLEAN}
  \cup {[Base EXCEPT !.query = q] : q \in Queries}
  \cup {[Base EXCEPT !.path = p, !.method = m] : p \in Paths, m \in {"GET", "HEAD", "POST"}}
  \cup {[Base EXCEPT !.type = t, !.body = b, !.method = "POST"] :
          t \in {"none", "text", "json"}, b \in {"empty", "json", "text", "binary"}}
  \cup {[Base EXCEPT !.headers = h] : h \in BoundedSeq({"Accept", "Cookie"} \X {"x", "y"}, 2)}

Layer(kind, method, pattern, program) ==
  [kind |-> kind, method |-> method, pattern |-> pattern, exact |-> FALSE,
   handler |-> "undeclared", controller |-> "undeclared", program |-> program]

Json == [op |-> "json"]
Status(code) == [op |-> "status", code |-> code]
Pass == <<[op |-> "next"]>>
Append2 == <<[op |-> "append", name |-> "set-cookie", value |-> "a"],
             [op |-> "append", name |-> "set-cookie", value |-> "b"], Json>>

Cats == <<Literal("cats"), Param("id")>>
Files == <<Literal("files"), Wildcard>>

MCApps ==
  { [defaultGuard |-> "none", providers |-> {},
     layers |-> << [Layer("middleware", "*", <<Literal("cats")>>, Pass) EXCEPT !.exact = TRUE],
                   Layer("middleware", "*", <<>>, Pass),
                   Layer("route", "GET", <<Param("kind"), Param("id")>>, Pass),
                   Layer("route", "GET", Cats, Append2),
                   Layer("route", "*", Files, <<[op |-> "set", name |-> "content-type", value |-> "t"],
                                               [op |-> "binary"]>>),
                   Layer("route", "POST", Cats, <<Status(404), Json>>) >>],
    [defaultGuard |-> "guardD", providers |-> {"guardD", "guardA"},
     layers |-> << [Layer("route", "GET", Cats, <<[op |-> "throw"]>>) EXCEPT !.handler = "public"],
                   [Layer("route", "POST", Cats, <<[op |-> "text"]>>)
                      EXCEPT !.handler = "guardA", !.controller = "public"],
                   [Layer("route", "GET", Files, <<[op |-> "redirect", code |-> 302, value |-> "u"]>>)
                      EXCEPT !.controller = "guardB"],
                   Layer("route", "*", <<Literal("x")>>, <<[op |-> "end"]>>) >>],
    [defaultGuard |-> "none", providers |-> {},
     layers |-> << Layer("route", "GET", <<Wildcard, Literal("x")>>, <<Json>>) >>],
    [defaultGuard |-> "none", providers |-> {},
     layers |-> << Layer("route", "*", <<Param("id"), Param("id")>>, <<Json>>),
                   Layer("route", "*", <<Param("id"), Literal("x")>>, <<Json>>) >>],
    \* layers that change their mind about the status
    [defaultGuard |-> "none", providers |-> {},
     layers |-> << Layer("middleware", "*", <<>>, <<Status(500), Json, Status(403),
                                                    [op |-> "text"], Status(201), Pass[1]>>),
                   Layer("middleware", "*", <<>>, <<[op |-> "redirect", code |-> 400, value |-> "u"],
                                                    Json, Status(200), [op |-> "throw"]>>) >>] }
=============================================================================
