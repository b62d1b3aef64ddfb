--------------------------- MODULE Materializers ---------------------------
(* The materializers of materializers-core: the resources, the outputs and *)
(* the companion file an artifact turns into. Names are sequences of       *)
(* segments, and a file is the sequence of the words and separators of its *)
(* path.                                                                   *)
EXTENDS Integers, Sequences, FiniteSets, SequencesExt, Subsequences, TLC

CONSTANTS
  Supports,        \* the artifact type a materializer package supports
  FileOrder        \* every path a site may have, sorted

\* Each artifact type, with the type of the first resource it turns into.
ResourceTypes ==
  {<<"ycforge:function", "yandex_function">>,
   <<"ycforge:docker-image", "yandex_serverless_container">>,
   <<"ycforge:queue", "yandex_message_queue">>, <<"ycforge:frontend", "yandex_storage_bucket">>,
   <<"ycforge:api-gateway", "yandex_api_gateway">>}

Separators == {".", "-", "_", "/"}

SanitizeFilename(path) ==
  LET words == SelectSeq(path, LAMBDA w : w \notin Separators)
  IN  IF words = <<>> THEN <<"file">> ELSE words

Text(value) == <<value>>

Resource(type, name, config, refs) ==
  [type |-> type, name |-> name, config |-> config, refs |-> refs]

Output(app, suffix, type) == [name |-> app \o suffix, address |-> <<type, app>>]

Failed == [ok |-> FALSE, resources |-> <<>>, outputs |-> <<>>, companion |-> FALSE]

Produced(resources, output) ==
  [ok |-> TRUE, resources |-> resources, outputs |-> <<output>>, companion |-> FALSE]

-----------------------------------------------------------------------------
(* Each takes the app, the value of its descriptor in the artifact store,  *)
(* and what lies in the app's output directory now.                        *)

YandexFunction(app, value, dist) ==
  IF value.kind # "archive" \/ dist.archive = 0 THEN Failed
  ELSE Produced(<<Resource("yandex_function", app,
                           <<"user_hash">> :> <<dist.archive>> @@ <<"memory">> :> Text("128")
                             @@ <<"content", "zip_filename">> :> Text("archive"), {})>>,
                Output(app, <<"function", "id">>, "yandex_function"))

YandexServerlessContainer(app, value) ==
  IF value.kind # "image" THEN Failed
  ELSE Produced(<<Resource("yandex_serverless_container", app,
                           <<"image">> :> Text("image") @@ <<"memory">> :> Text("128"), {})>>,
                Output(app, <<"container", "id">>, "yandex_serverless_container"))

YandexMessageQueue(app, value) ==
  IF value.kind # "queueUrl" THEN Failed
  ELSE Produced(<<Resource("yandex_message_queue", app, <<"name">> :> Text("queue"), {})>>,
                Output(app, <<"queue", "id">>, "yandex_message_queue"))

\* One object for each file in the directory, the store's own descriptor included.
YandexStorageBucket(app, value, dist) ==
  LET files  == Only(FileOrder, dist.files)
      bucket == Resource("yandex_storage_bucket", app, <<"bucket">> :> app, {})
      object(f) == Resource("yandex_storage_object", app \o SanitizeFilename(f),
                            <<"key">> :> f, {<<"yandex_storage_bucket", app>>})
  IN  IF value.kind # "directory" THEN Failed
      ELSE Produced(<<bucket>> \o [i \in DOMAIN files |-> object(files[i])],
                    Output(app, <<"bucket", "id">>, "yandex_storage_bucket"))

\* Writes <root>/infra/generated/<app>-openapi.yaml before it returns.
YandexApiGateway(app, value) ==
  IF value.kind # "spec" THEN Failed
  ELSE [Produced(<<Resource("yandex_api_gateway", app, <<"spec">> :> Text("templatefile"),
                            value.refs)>>,
                 Output(app, <<"gateway", "id">>, "yandex_api_gateway"))
        EXCEPT !.companion = TRUE]

Materialize(package, app, value, dist) ==
  CASE Supports[package] = "ycforge:function"     -> YandexFunction(app, value, dist)
    [] Supports[package] = "ycforge:docker-image" -> YandexServerlessContainer(app, value)
    [] Supports[package] = "ycforge:queue"        -> YandexMessageQueue(app, value)
    [] Supports[package] = "ycforge:frontend"     -> YandexStorageBucket(app, value, dist)
    [] Supports[package] = "ycforge:api-gateway"  -> YandexApiGateway(app, value)
    [] OTHER                                      -> Failed
=============================================================================
