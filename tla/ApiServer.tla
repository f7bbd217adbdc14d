---- MODULE ApiServer ----
(***************************************************************************)
(* How a call reaches an API: webserver_plugin.cpp accepts it on one of    *)
(* three endpoints and posts it to a pool of threads, json_rpc_plugin.cpp  *)
(* parses it, finds the method among those registered, calls it and makes  *)
(* the answer.  Meanwhile the main thread registers the APIs, finalizes    *)
(* the startup (which replaces the table of methods the pool reads) and    *)
(* shuts the server down, without a lock.                                  *)
(*                                                                         *)
(* A request is a record of what rpc() looks at: whether it is an object,  *)
(* its id, its version, its method and its parameters.  A message is what  *)
(* json::from_string makes of a body.                                      *)
(***************************************************************************)
EXTENDS Naturals, Sequences, FiniteSets

CONSTANTS
  EarlyMethods,      \* registered by add_early_api_method
  LateMethods,       \* registered by add_api_method
  LegacyMethods,     \* tried again with the legacy serialization
  PoolThreads,       \* webserver-thread-pool-size threads
  Connections,       \* each carries one message
  ServerWorlds       \* options of the node and the messages sent to it

VARIABLES
  aworld,            \* the options and the messages
  registry,          \* json_rpc_plugin_impl's data and proxy_data
  server,            \* the servers of webserver_plugin_impl, their threads and io contexts
  posted,            \* the handlers posted to thread_pool_ios
  thread,            \* what each thread of the pool is at
  requester             \* what each connection has sent and received

apiVars == <<aworld, registry, server, posted, thread, requester>>

Endpoint == {"ws", "http", "unix"}
Outcome == {"value", "assert", "lock", "bad_cast", "other"}

\* JSON_RPC_* codes; a response carries an id and a result or a code.
Answer(id, result, code) == [id |-> id, result |-> result, error |-> code]
NullId == "null"

\* The context a server is given by init_asio: the unix one gets http_ios.
ContextOf(e) == IF e = "unix" THEN "http" ELSE e
\* start_webserver: an http endpoint equal to the ws one has no thread of its own.
HasThread(e) == e \in aworld.endpoints /\ ~(e = "http" /\ aworld.same /\ "ws" \in aworld.endpoints)
\* The endpoints a client can reach and the thread that serves each.
ServedBy(e) == IF e = "http" /\ ~HasThread("http") THEN "ws" ELSE e

NoCall == [method |-> "", found |-> 0, again |-> FALSE]
AtRest == [at |-> "idle", conn |-> "", rest |-> <<>>, responses |-> <<>>, call |-> NoCall]

\* add_early_api_method puts a method into both tables.
add_early_api_method(ms) ==
  registry' = [registry EXCEPT !.data = @ \cup ms, !.proxy = @ \cup ms]
\* Mutant: a method can be called as soon as it is registered.
add_at_once(ms) ==
  registry' = [registry EXCEPT !.data = @ \cup ms, !.proxy = @ \cup ms]

\* add_api_method puts it only into the one that finalization moves.
add_api_method(ms) ==
  registry' = [registry EXCEPT !.proxy = @ \cup ms]

--------------------
\* The plugins' constructors and initializations register their methods.
RegisterEarly ==
  /\ registry.phase = "initialize" /\ ~(EarlyMethods \subseteq registry.proxy)
  /\ add_early_api_method(EarlyMethods)
  /\ UNCHANGED <<aworld, server, posted, thread, requester>>

Register ==
  /\ registry.phase = "initialize" /\ ~(LateMethods \subseteq registry.proxy)
  /\ add_api_method(LateMethods)
  /\ UNCHANGED <<aworld, server, posted, thread, requester>>

\* startup, prepare_threads: the pool runs before any server listens.
Startup ==
  /\ registry.phase = "initialize"
  /\ EarlyMethods \cup LateMethods \subseteq registry.proxy
  /\ registry' = [registry EXCEPT !.phase = "startup"]
  /\ server' = [server EXCEPT !.pool = "running"]
  /\ UNCHANGED <<aworld, posted, thread, requester>>

\* start_webserver, called by the chain plugin's prepare_work in its startup,
\* or from on_sync once the node goes to work.
start_webserver ==
  /\ registry.phase \in (IF aworld.at_once THEN {"startup"} ELSE {"startup", "working"})
  /\ server.stop = "no" /\ ~server.started
  /\ server' = [server EXCEPT !.started = TRUE,
                   !.thread = [e \in Endpoint |-> IF HasThread(e) THEN "starting" ELSE @[e]]]
  /\ UNCHANGED <<aworld, registry, posted, thread, requester>>

\* A server thread listens and runs its context, or fails and ends.
Listens(e) ==
  /\ server.thread[e] = "starting"
  /\ server' = [server EXCEPT !.thread[e] =
        IF e \in aworld.taken THEN "ended" ELSE "running"]
  /\ UNCHANGED <<aworld, registry, posted, thread, requester>>

\* ios.run() returns once the context is stopped.
ContextExits(e) ==
  /\ server.thread[e] = "running" /\ ContextOf(e) \in server.stopped
  /\ server' = [server EXCEPT !.thread[e] = "ended"]
  /\ UNCHANGED <<aworld, registry, posted, thread, requester>>

\* json_rpc's plugin_finalize_startup: the gathered tables replace the ones in
\* use, and whatever pointed into those dangles.
plugin_finalize_startup ==
  /\ registry.phase = "startup" /\ (aworld.at_once => server.started)
  /\ registry' = [registry EXCEPT !.phase = "working", !.data = registry.proxy, !.proxy = {},
                                  !.version = @ + 1]
  /\ UNCHANGED <<aworld, server, posted, thread, requester>>

\* json_rpc's plugin_pre_shutdown.
clear_apis ==
  /\ registry.phase = "working" /\ aworld.stops
  /\ registry' = [registry EXCEPT !.phase = "cleared", !.data = {}, !.version = @ + 1]
  /\ UNCHANGED <<aworld, server, posted, thread, requester>>

--------------------
\* handle_ws_message, handle_http_message, handle_http_request
handle_message(c, e, m) ==
  /\ requester[c].state = "quiet" /\ server.thread[ServedBy(e)] = "running"
  /\ ContextOf(ServedBy(e)) \notin server.stopped
  /\ e \in aworld.endpoints
  /\ (m.form = "binary") => (e = "ws")
  /\ posted' = Append(posted, c)
  /\ requester' = [requester EXCEPT ![c] = [state |-> "waiting", sent |-> m, got |-> <<>>]]
  /\ UNCHANGED <<aworld, registry, server, thread>>

\* A thread of the pool runs a handler: json_rpc_plugin::call.  A text that is
\* no JSON, an empty array and a frame that is no text are answered at once.
call(w) ==
  /\ thread[w].at = "idle" /\ server.pool = "running" /\ posted # <<>>
  /\ posted' = Tail(posted)
  /\ LET c == Head(posted)
         m == requester[c].sent
         refused == m.form = "text" \/ m.form = "binary" \/ m.items = <<>>
     IN thread' = [thread EXCEPT ![w] = [AtRest EXCEPT
          !.at = IF refused THEN "send" ELSE "next", !.conn = c, !.rest = m.items,
          !.responses = CASE m.form = "binary" -> <<Answer(NullId, FALSE, "not JSON-RPC")>>
                          [] m.form # "binary" /\ refused -> <<Answer(NullId, FALSE, "SERVER_ERROR")>>
                          [] OTHER -> <<>>]]
  /\ UNCHANGED <<aworld, registry, server, requester>>

\* rpc_id: integers and strings are echoed, anything else is an error.
rpc_id(r) == IF r.object /\ r.id \notin {"none", "bad"} THEN r.id ELSE NullId

\* What stops a request before a method is called: rpc, rpc_id, rpc_jsonrpc,
\* process_params and find_api_method, in the order they look.
Stopped(r, table) ==
  CASE ~r.object -> "PARSE_ERROR"
    [] r.object /\ r.id = "bad" -> "INVALID_REQUEST"
    [] r.object /\ r.id # "bad" /\ (~r.version \/ r.method = "missing") -> "INVALID_REQUEST"
    [] OTHER ->
       CASE r.method = "call" /\ r.params = "none" -> "NO_PARAMS"
         [] r.method = "call" /\ r.params \in {"no array", "too few"} -> "PARSE_PARAMS_ERROR"
         [] r.method = "call" /\ r.params = "not strings" -> "SERVER_ERROR"
         [] r.method = "no dot" -> "PARSE_PARAMS_ERROR"
         [] OTHER -> IF r.target \in table THEN "" ELSE "PARSE_PARAMS_ERROR"

\* rpc and process_params for the next request of the message: it is answered
\* with an error, or the pointer to its method is kept.
process_params(w) ==
  /\ thread[w].at = "next"
  /\ LET r == Head(thread[w].rest)
         why == Stopped(r, registry.data)
         t == [thread[w] EXCEPT !.rest = Tail(@)]
     IN thread' = [thread EXCEPT ![w] =
          IF why # ""
          THEN [t EXCEPT !.responses = Append(@, Answer(rpc_id(r), FALSE, why)),
                         !.at = IF t.rest = <<>> THEN "send" ELSE "next"]
          ELSE [t EXCEPT !.at = "call", !.call = [method |-> r.target, found |-> registry.version,
                                                  again |-> FALSE]]]
  /\ UNCHANGED <<aworld, registry, server, posted, requester>>

Current(w) == requester[thread[w].conn].sent.items[Len(thread[w].responses) + 1]

\* (*call)(func_args): a value, or an exception that decides the code.  A cast
\* that fails is tried once more in the legacy serialization for two methods.
invoke(w, outcome) ==
  /\ thread[w].at = "call" /\ thread[w].call.found = registry.version
  /\ LET retry == outcome = "bad_cast" /\ ~thread[w].call.again
                  /\ thread[w].call.method \in LegacyMethods
         answer == Answer(rpc_id(Current(w)), outcome = "value",
                     CASE outcome = "value" -> ""
                       [] outcome \in {"lock", "assert"} -> "ERROR_DURING_CALL"
                       [] OTHER -> "SERVER_ERROR")
     IN thread' = [thread EXCEPT ![w] =
          IF retry THEN [@ EXCEPT !.call.again = TRUE]
          ELSE [@ EXCEPT !.responses = Append(@, answer), !.call = NoCall,
                         !.at = IF thread[w].rest = <<>> THEN "send" ELSE "next"]]
  /\ UNCHANGED <<aworld, registry, server, posted, requester>>

\* The table was replaced or cleared since the method was found: the call goes
\* through a dangling pointer, and its outcome is any.
invoke_dangling(w) ==
  /\ thread[w].at = "call" /\ thread[w].call.found # registry.version
  /\ \E value \in BOOLEAN :
       thread' = [thread EXCEPT ![w] =
         [@ EXCEPT !.responses = Append(@, Answer(rpc_id(Current(w)), value,
                                             IF value THEN "" ELSE "SERVER_ERROR")),
                   !.call = NoCall, !.at = IF thread[w].rest = <<>> THEN "send" ELSE "next"]]
  /\ UNCHANGED <<aworld, registry, server, posted, requester>>

\* con->send, send_http_response
send_response(w) ==
  /\ thread[w].at = "send"
  /\ requester' = [requester EXCEPT ![thread[w].conn].state = "answered",
                              ![thread[w].conn].got = @ \o thread[w].responses]
  /\ thread' = [thread EXCEPT ![w] = AtRest]
  /\ UNCHANGED <<aworld, registry, server, posted>>

--------------------
\* stop_webserver: the pool first, then each server that has a thread.
StopPool ==
  /\ aworld.stops /\ registry.phase \in {"working", "cleared"} /\ server.stop = "no"
  /\ server.started
  /\ server' = [server EXCEPT !.stop = "pool", !.pool = "stopping"]
  /\ UNCHANGED <<aworld, registry, posted, thread, requester>>

\* thread_pool.join_all(): a thread leaves run() after the handler it is in.
JoinPool ==
  /\ server.stop = "pool" /\ \A w \in PoolThreads : thread[w].at = "idle"
  /\ server' = [server EXCEPT !.stop = "ws", !.pool = "joined"]
  /\ UNCHANGED <<aworld, registry, posted, thread, requester>>

After(e) == CASE e = "ws" -> "http" [] e = "http" -> "unix" [] OTHER -> "done"

\* <e>_ios.stop(), unless that server has no thread.
StopContext(e) ==
  /\ server.stop = e /\ ~server.joining
  /\ server' = IF server.thread[e] = "none" THEN [server EXCEPT !.stop = After(e)]
               ELSE [server EXCEPT !.stopped = @ \cup {e}, !.joining = TRUE]
  /\ UNCHANGED <<aworld, registry, posted, thread, requester>>

\* <e>_thread->join(), reset
JoinServer(e) ==
  /\ server.stop = e /\ server.joining /\ server.thread[e] = "ended"
  /\ server' = [server EXCEPT !.stop = After(e), !.joining = FALSE, !.thread[e] = "none"]
  /\ UNCHANGED <<aworld, registry, posted, thread, requester>>

--------------------
ApiInit ==
  /\ aworld \in ServerWorlds
  /\ registry = [phase |-> "initialize", data |-> {}, proxy |-> {}, version |-> 0]
  /\ server = [pool |-> "none", started |-> FALSE, stop |-> "no", joining |-> FALSE, stopped |-> {},
               thread |-> [e \in Endpoint |-> "none"]]
  /\ posted = <<>>
  /\ thread = [w \in PoolThreads |-> AtRest]
  /\ requester = [c \in Connections |-> [state |-> "quiet", sent |-> [form |-> "text", items |-> <<>>],
                                      got |-> <<>>]]

ServerMoves ==
  \/ RegisterEarly \/ Register \/ Startup \/ start_webserver
  \/ plugin_finalize_startup \/ clear_apis
  \/ StopPool \/ JoinPool
  \/ \E e \in Endpoint : Listens(e) \/ ContextExits(e) \/ StopContext(e) \/ JoinServer(e)

PoolMoves(w) ==
  \/ call(w) \/ process_params(w) \/ invoke_dangling(w) \/ send_response(w)
  \/ \E outcome \in Outcome : invoke(w, outcome)

ApiNext ==
  \/ ServerMoves
  \/ \E w \in PoolThreads : PoolMoves(w)
  \/ \E c \in Connections, e \in Endpoint : \E m \in aworld.messages : handle_message(c, e, m)

ApiSpec == ApiInit /\ [][ApiNext]_apiVars

--------------------
\* Every connection that waits is in exactly one place: once in the queue of
\* the pool or with one of its threads.  No call is lost or run twice, and
\* after the pool was joined only calls no thread had taken are unanswered.
EveryCallHeld ==
  \A c \in Connections :
    LET queued == Cardinality({i \in DOMAIN posted : posted[i] = c})
        taken == Cardinality({w \in PoolThreads : thread[w].at # "idle" /\ thread[w].conn = c})
    IN /\ queued + taken = (IF requester[c].state = "waiting" THEN 1 ELSE 0)
       /\ server.pool = "joined" => taken = 0

\* What a request deserves, whatever the tables held when it was looked at.
Deserves(r) ==
  IF ~r.object THEN {"PARSE_ERROR"}
  ELSE IF r.id = "bad" \/ ~r.version \/ r.method = "missing" THEN {"INVALID_REQUEST"}
  ELSE IF r.method = "call" /\ r.params = "none" THEN {"NO_PARAMS"}
  ELSE IF r.method = "no dot" \/ (r.method = "call" /\ r.params \in {"no array", "too few"})
       THEN {"PARSE_PARAMS_ERROR"}
  ELSE IF r.method = "call" /\ r.params = "not strings" THEN {"SERVER_ERROR"}
  ELSE IF r.target \in EarlyMethods \cup LateMethods
       THEN {"", "PARSE_PARAMS_ERROR", "ERROR_DURING_CALL", "SERVER_ERROR"}
  ELSE {"PARSE_PARAMS_ERROR"}

\* An answered message got one response per request, in their order, each with
\* the request's id, with a result or an error and not both, and with the code
\* the request deserves; a message that holds no request got one error.
AnswersMatch ==
  \A c \in Connections : requester[c].state = "answered" =>
    LET m == requester[c].sent
        got == requester[c].got
    IN /\ \A i \in DOMAIN got : got[i].result <=> got[i].error = ""
       /\ IF m.form \in {"text", "binary"} \/ m.items = <<>>
          THEN Len(got) = 1 /\ ~got[1].result /\ got[1].id = NullId
          ELSE /\ Len(got) = Len(m.items)
               /\ \A i \in DOMAIN got :
                    /\ got[i].error \in Deserves(m.items[i])
                    /\ got[i].id = (IF ~m.items[i].object \/ m.items[i].id \in {"none", "bad"} THEN NullId ELSE m.items[i].id)

\* json_rpc_plugin.cpp:219: a method is called only when every plugin has been
\* initialized, unless it was registered as an early one.
NoneCalledEarly ==
  \A w \in PoolThreads : thread[w].at = "call" /\ thread[w].call.method \notin EarlyMethods
                           => registry.phase \in {"working", "cleared"}

\* A thread holds a pointer into a table that is gone only when it found an
\* early method before the startup was finalized, or any method before the
\* tables were cleared while the pool still ran.
DanglesOnlyInFlight ==
  \A w \in PoolThreads : thread[w].at = "call" /\ thread[w].call.found # registry.version =>
    \/ thread[w].call.found = 0 /\ thread[w].call.method \in EarlyMethods
    \/ registry.phase = "cleared" /\ server.pool # "joined"

\* stop_webserver waits for ever only for the thread of the unix server, whose
\* context is the one of the http server, when that one has no thread.
StopsUnlessUnixAlone ==
  \A e \in Endpoint : server.stop = e /\ server.joining /\ server.thread[e] = "running" =>
    \/ ContextOf(e) \in server.stopped
    \/ e = "unix" /\ ~HasThread("http")

\* The five above: every call reaches its API and is answered, once and by the
\* right code, from startup to shutdown.
CallsServed == EveryCallHeld /\ AnswersMatch /\ NoneCalledEarly /\ DanglesOnlyInFlight /\ StopsUnlessUnixAlone
====
