----------------------------- MODULE MCRewriting -----------------------------
(* Values for TLC.  Two families of files: lists of transformations, and    *)
(* templates in bodies and overrides.                                       *)
EXTENDS Rewriting, TLC

MCVariables ==
  {"CTX_APP_NAME", "CTX_APP_VERSION", "CTX_TARGET_ID", "CTX_TARGET_HOST", "CTX_LISTENER_NAME",
   "CTX_REQUEST_SOURCE_IP", "CTX_REQUEST_METHOD", "CTX_REQUEST_PATH", "CTX_REQUEST_HOST",
   "CTX_REQUEST_QUERY", "CTX_REQUEST_HEADERS_HOST", "CTX_REQUEST_HEADERS_X_A",
   "CTX_REQUEST_HEADERS_CONTENT_LENGTH", "CTX_RESPONSE_STATUS", "CTX_RESPONSE_HEADERS_X_A",
   "CTX_RESPONSE_HEADERS_HOST", "CTX_RESPONSE_HEADERS_CONTENT_LENGTH", "HTTP_ENV_TOKEN",
   "CTX_REQUEST_HEADERS_*", "CTX_RESPONSE_HEADERS_*"}
MCTexts ==
  {"http-dragonfly", "version", "listener", "ip", "GET", "path", "query", "default", "token",
   "client", "written", "t1", "t2", "host1", "host2", "200", "502", "line break", "12", "environment"}
MCHeaderNames == {"host", "content-length", "x-a", "x_a", "*"}

MCRequestHeaderVariable ==
  ("host" :> "CTX_REQUEST_HEADERS_HOST") @@ ("*" :> "CTX_REQUEST_HEADERS_*")
    @@ ("x-a" :> "CTX_REQUEST_HEADERS_X_A")
    @@ ("x_a" :> "CTX_REQUEST_HEADERS_X_A")
    @@ ("content-length" :> "CTX_REQUEST_HEADERS_CONTENT_LENGTH")
MCResponseHeaderVariable ==
  ("host" :> "CTX_RESPONSE_HEADERS_HOST") @@ ("*" :> "CTX_RESPONSE_HEADERS_*")
    @@ ("x-a" :> "CTX_RESPONSE_HEADERS_X_A")
    @@ ("x_a" :> "CTX_RESPONSE_HEADERS_X_A")
    @@ ("content-length" :> "CTX_RESPONSE_HEADERS_CONTENT_LENGTH")

Token == Reference("HTTP_ENV_TOKEN")

Do(action, name, value) == [action |-> action, name |-> name, value |-> value]
Drop(name) == Do("drop", name, None)

Transforms ==
  {Do("add", "x-a", Literal("written")), Do("add", "x_a", Reference("CTX_REQUEST_HEADERS_X_A")),
   Do("update", "x-a", Token), Do("add", "host", Reference("CTX_TARGET_HOST")),
   Do("add", "bad name", Literal("written")), Drop("x-a"), Drop("*")}

UpTo2(S) == {<<>>} \cup {<<s>> : s \in S} \cup {<<s, t>> : s \in S, t \in S}
UpTo1(S) == {<<>>} \cup {<<s>> : s \in S}

Target1(list, body) == [id |-> "t1", host |-> "host1", headers |-> list, body |-> body]
Target2(list) == [id |-> "t2", host |-> "host2", headers |-> list, body |-> None]

ListFiles ==
  {[listener |-> listener, targets |-> <<Target1(list, None), Target2(<<>>)>>, override |-> None] :
     listener \in UpTo2(Transforms), list \in UpTo1(Transforms)}

BodyTemplates ==
  {None, Token, Reference("CTX_REQUEST_QUERY"), Reference("CTX_REQUEST_METHOD"),
   Reference("CTX_TARGET_ID"), [var |-> "CTX_REQUEST_QUERY", text |-> "default"]}

MCOverrides ==
  [headers : UpTo2({Do("update", "x-a", Reference("CTX_TARGET_ID")), Drop("content-length"),
                    Do("add", "x-a", Reference("CTX_RESPONSE_STATUS")),
                    Do("update", "x_a", Reference("CTX_RESPONSE_HEADERS_X_A"))}),
   body : BodyTemplates]

TemplateFiles ==
  {[listener |-> << >>, targets |-> <<Target2(<< >>), Target1(<< >>, body)>>, override |-> override] :
     body \in BodyTemplates, override \in MCOverrides}

RefusedFiles ==
  {[listener |-> <<Do("add", "x-a", None)>>, targets |-> <<Target2(<<>>)>>, override |-> None]}

MCFiles == ListFiles \cup TemplateFiles \cup RefusedFiles

MCEnvironments ==
  {[v \in {} |-> Literal("token")], "HTTP_ENV_TOKEN" :> Literal("token"),
   "HTTP_ENV_TOKEN" :> Literal("line break"),
   ("HTTP_ENV_TOKEN" :> Reference("CTX_REQUEST_QUERY")) @@ ("CTX_REQUEST_QUERY" :> Literal("environment")),
   ("HTTP_ENV_TOKEN" :> Literal("token")) @@ ("CTX_REQUEST_METHOD" :> Literal("environment"))}

Parts == ("CTX_LISTENER_NAME" :> Literal("listener")) @@ ("CTX_REQUEST_SOURCE_IP" :> Literal("ip"))
           @@ ("CTX_REQUEST_METHOD" :> Literal("GET")) @@ ("CTX_REQUEST_PATH" :> Literal("path"))

MCRequests ==
  {[parts |-> Parts, headers |-> "host" :> <<Literal("client")>>, body |-> Token],
   [parts |-> Parts @@ ("CTX_REQUEST_QUERY" :> Literal("query")),
    headers |-> ("host" :> <<Literal("client")>>) @@ ("x-a" :> <<Literal("client"), Token>>)
                  @@ ("x_a" :> <<Literal("client")>>),
    body |-> Literal("client")]}

MCResponses ==
  {[status |-> "200", headers |-> ("content-length" :> <<Literal("12")>>) @@ ("x-a" :> <<Token>>)
                                    @@ ("x_a" :> <<Literal("t1")>>),
    body |-> Token],
   [status |-> "502", headers |-> NoHeaders, body |-> None]}
=============================================================================
