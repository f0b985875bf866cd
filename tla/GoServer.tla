------------------------------ MODULE GoServer ------------------------------
(***************************************************************************)
(* The life of the Go process: main (cmd/server/main.go) from the loading  *)
(* of the configuration to its exit, the goroutine that listens, the       *)
(* connections of net/http and the middleware every request passes.        *)
(*                                                                         *)
(* What a handler does is in GoSync, GoHistoryPages and GoGraphQL; here it *)
(* is a number of statements on the database and a reply, and it may hang. *)
(***************************************************************************)
EXTENDS Integers, FiniteSets

CONSTANTS Conns,        \* connections of clients
          Requests,     \* the requests clients send
          Envs,         \* the environments the process may be started in
          BadPorts,     \* ports that cannot be listened on
          BadUrls,      \* databases InitDB fails on
          Key,          \* an AUTHORIZATION_KEY
          NotANumber,   \* a text that is no number
          Nil           \* a variable that is not set, or a header that is absent

DefaultPort == 3000
DefaultKey  == "your-secret-auth-key"
DefaultUrl  == "sqlite::memory:?cache=shared"

Request == [path : {"healthz", "sync", "graphql", "other"}, method : {"GET", "POST"},
            creates : BOOLEAN,      \* the body names createEmployee, or mutation and create
            upgrade : BOOLEAN,      \* a websocket handshake
            token : {Key, DefaultKey, "wrong", Nil}]

ASSUME RequestsAssumption == Requests \subseteq Request

VARIABLES
    env, cfg,   \* the environment and the configuration made of it
    main,       \* the next step of main
    listener,   \* the goroutine of ListenAndServe
    db,         \* "none", "open" or "closed"
    notified,   \* signal.Notify has been called
    quit,       \* a signal is in the channel
    expired,    \* the five seconds of the shutdown have passed
    exit,       \* "running", or how the process ended
    conn,       \* conn[c]: the state of connection c
    request,    \* request[c]: the last request on c
    met         \* history variable: the connections one of whose statements found
                \* the database not open, with the state the connection was in

procVars == <<env, cfg, main, listener, db, notified, quit, expired, exit>>
connVars == <<conn, request, met>>
vars == <<procVars, connVars>>

TypeOK ==
    /\ env \in Envs
    /\ cfg = Nil \/ (DOMAIN cfg = {"port", "key", "url"} /\ cfg.port \in Int)
    /\ main \in {"load", "initdb", "spawn", "notify", "wait", "drain", "close", "return"}
    /\ listener \in {"none", "starting", "listening", "closed"}
    /\ db \in {"none", "open", "closed"}
    /\ notified \in BOOLEAN /\ quit \in BOOLEAN /\ expired \in BOOLEAN
    /\ exit \in {"running", "fatal", "killed", "forced", "clean"}
    /\ conn \in [Conns -> {"none", "new", "old", "admit", "handling", "socket", "idle", "closed"}]
    /\ request \in [Conns -> Requests \cup {Nil}]
    /\ met \subseteq Conns \X {"handling", "socket"}

Init ==
    /\ env \in Envs
    /\ cfg = Nil
    /\ main = "load"
    /\ listener = "none"
    /\ db = "none"
    /\ notified = FALSE /\ quit = FALSE /\ expired = FALSE
    /\ exit = "running"
    /\ conn = [c \in Conns |-> "none"]
    /\ request = [c \in Conns |-> Nil]
    /\ met = {}

Running == exit = "running"
ShuttingDown == main \in {"drain", "close", "return"}

-----------------------------------------------------------------------------
(***************************************************************************)
(* main                                                                    *)
(***************************************************************************)
\* Seeded fault: an APP_PORT that is not a number is taken as it is.
LoadConfigAsIs(e) ==
    [port |-> IF e.APP_PORT = Nil THEN DefaultPort ELSE e.APP_PORT,
     key  |-> IF e.AUTHORIZATION_KEY = Nil THEN DefaultKey ELSE e.AUTHORIZATION_KEY,
     url  |-> IF e.DATABASE_URL = Nil THEN DefaultUrl ELSE e.DATABASE_URL]

\* An APP_PORT that is not a number is the same as none.
LoadConfig(e) ==
    [port |-> IF e.APP_PORT \in Int THEN e.APP_PORT ELSE DefaultPort,
     key  |-> IF e.AUTHORIZATION_KEY = Nil THEN DefaultKey ELSE e.AUTHORIZATION_KEY,
     url  |-> IF e.DATABASE_URL = Nil THEN DefaultUrl ELSE e.DATABASE_URL]

Load ==
    /\ Running /\ main = "load"
    /\ cfg' = LoadConfig(env)
    /\ main' = "initdb"
    /\ UNCHANGED <<env, listener, db, notified, quit, expired, exit, connVars>>

\* log.Fatalf ends the process without the deferred calls.
InitDB ==
    /\ Running /\ main = "initdb"
    /\ IF cfg.url \in BadUrls THEN exit' = "fatal" /\ UNCHANGED <<main, db>>
       ELSE db' = "open" /\ main' = "spawn" /\ UNCHANGED exit
    /\ UNCHANGED <<env, cfg, listener, notified, quit, expired, connVars>>

\* The routes are mounted and the goroutine that listens is started.
Spawn ==
    /\ Running /\ main = "spawn"
    /\ listener' = "starting"
    /\ main' = "notify"
    /\ UNCHANGED <<env, cfg, db, notified, quit, expired, exit, connVars>>

Notify ==
    /\ Running /\ main = "notify"
    /\ notified' = TRUE
    /\ main' = "wait"
    /\ UNCHANGED <<env, cfg, listener, db, quit, expired, exit, connVars>>

\* Seeded fault: the database is closed before the server is shut down.
BeginShutdownCloses ==
    /\ Running /\ main = "wait" /\ quit
    /\ quit' = FALSE
    /\ main' = "drain"
    /\ listener' = IF listener = "listening" THEN "closed" ELSE listener
    /\ db' = "closed"
    /\ UNCHANGED <<env, cfg, notified, expired, exit, connVars>>

\* <-quit, and the beginning of Shutdown: the listener is closed at once.
BeginShutdown ==
    /\ Running /\ main = "wait" /\ quit
    /\ quit' = FALSE
    /\ main' = "drain"
    /\ listener' = IF listener = "listening" THEN "closed" ELSE listener
    /\ UNCHANGED <<env, cfg, db, notified, expired, exit, connVars>>

\* A connection with a request on it is waited for, and one that is new; one that
\* was taken over for a websocket is not.
Busy(c) == conn[c] \in {"new", "admit", "handling"}
IdleClosed == [c \in Conns |-> IF conn[c] \in {"idle", "old"} THEN "closed" ELSE conn[c]]

\* Seeded fault: Close instead of Shutdown.
PollOnce ==
    /\ Running /\ main = "drain"
    /\ conn' = IdleClosed
    /\ main' = "close"
    /\ UNCHANGED <<env, cfg, listener, db, notified, quit, expired, exit, request, met>>

\* Shutdown closes the connections that are idle again and again, and returns nil
\* when there is no other.
Poll ==
    /\ Running /\ main = "drain"
    /\ conn' = IdleClosed
    /\ main' = IF \E c \in Conns : Busy(c) THEN "drain" ELSE "close"
    /\ UNCHANGED <<env, cfg, listener, db, notified, quit, expired, exit, request, met>>

\* Seeded fault: the context of Shutdown has no time-out.
NeverExpires == FALSE /\ UNCHANGED vars

\* The context of Shutdown ends five seconds after it was made.
Expire ==
    /\ Running /\ main = "drain" /\ ~expired
    /\ expired' = TRUE
    /\ UNCHANGED <<env, cfg, main, listener, db, notified, quit, exit, connVars>>

\* Shutdown returns the error of its context: the process ends, whatever it is at.
ForcedShutdown ==
    /\ Running /\ main = "drain" /\ expired
    /\ exit' = "forced"
    /\ UNCHANGED <<env, cfg, main, listener, db, notified, quit, expired, connVars>>

\* The deferred Close of the database.
CloseDb ==
    /\ Running /\ main = "close"
    /\ db' = "closed"
    /\ main' = "return"
    /\ UNCHANGED <<env, cfg, listener, notified, quit, expired, exit, connVars>>

\* main returns, and with it ends every other goroutine.
Return ==
    /\ Running /\ main = "return"
    /\ exit' = "clean"
    /\ UNCHANGED <<env, cfg, main, listener, db, notified, quit, expired, connVars>>

\* SIGINT or SIGTERM: before Notify it kills the process, afterwards it goes to
\* the channel, which holds one.
Signal ==
    /\ Running
    /\ IF notified THEN quit' = TRUE /\ UNCHANGED exit ELSE exit' = "killed" /\ UNCHANGED quit
    /\ UNCHANGED <<env, cfg, main, listener, db, notified, expired, connVars>>

-----------------------------------------------------------------------------
(***************************************************************************)
(* ListenAndServe and the connections                                      *)
(***************************************************************************)
\* Seeded fault: a listener that comes up late does not see the shutdown.
ListenLate ==
    /\ Running /\ listener = "starting"
    /\ IF cfg.port \in BadPorts THEN exit' = "fatal" /\ UNCHANGED listener
       ELSE listener' = "listening" /\ UNCHANGED exit
    /\ UNCHANGED <<env, cfg, main, db, notified, quit, expired, connVars>>

\* A port that cannot be listened on ends the process.  A listener that comes
\* up after the shutdown began returns ErrServerClosed, on which nothing is done.
Listen ==
    /\ Running /\ listener = "starting"
    /\ \/ cfg.port \in BadPorts /\ exit' = "fatal" /\ UNCHANGED listener
       \/ ShuttingDown /\ listener' = "closed" /\ UNCHANGED exit
       \/ ~ShuttingDown /\ cfg.port \notin BadPorts /\ listener' = "listening" /\ UNCHANGED exit
    /\ UNCHANGED <<env, cfg, main, db, notified, quit, expired, connVars>>

Accept(c) ==
    /\ Running /\ listener = "listening" /\ conn[c] = "none"
    /\ conn' = [conn EXCEPT ![c] = "new"]
    /\ UNCHANGED <<procVars, request, met>>

\* A connection on which nothing has come for five seconds counts as idle.
Age(c) ==
    /\ Running /\ conn[c] = "new"
    /\ conn' = [conn EXCEPT ![c] = "old"]
    /\ UNCHANGED <<procVars, request, met>>

\* The header of a request has come, on a connection that is new or kept alive.
Receive(c) ==
    /\ Running /\ conn[c] \in {"new", "old", "idle"}
    /\ \E r \in Requests : request' = [request EXCEPT ![c] = r]
    /\ conn' = [conn EXCEPT ![c] = "admit"]
    /\ UNCHANGED <<procVars, met>>

\* What a connection is after a reply: it is not kept alive in a shutdown.
Replied == IF ShuttingDown THEN "closed" ELSE "idle"

\* AuthMiddleware: the health check and GraphQL, but for creations, are public,
\* and so is what is not below /api/v1/sync.
NeedsToken(r) ==
    CASE r.path = "graphql" -> r.method = "POST" /\ r.creates
      [] r.path = "sync"    -> TRUE
      [] OTHER              -> FALSE
Admitted(r) == NeedsToken(r) => r.token # Nil /\ r.token = cfg.key

\* A refused request is answered by the middleware.  A handshake takes the
\* connection away from net/http.
AuthMiddleware(c) ==
    /\ Running /\ conn[c] = "admit"
    /\ LET r == request[c] IN
       conn' = [conn EXCEPT ![c] =
           IF ~Admitted(r) THEN Replied
           ELSE IF r.path = "graphql" /\ r.upgrade THEN "socket" ELSE "handling"]
    /\ UNCHANGED <<procVars, request, met>>

\* A statement of the handler, or of an operation that came over the websocket.
Statement(c) ==
    /\ Running /\ conn[c] \in {"handling", "socket"}
    /\ met' = IF db = "open" THEN met ELSE met \cup {<<c, conn[c]>>}
    /\ UNCHANGED <<procVars, conn, request>>

Reply(c) ==
    /\ Running /\ conn[c] = "handling"
    /\ conn' = [conn EXCEPT ![c] = Replied]
    /\ UNCHANGED <<procVars, request, met>>

\* The client closes a connection nothing is going on on, or its websocket.
Disconnect(c) ==
    /\ Running /\ conn[c] \in {"new", "old", "idle", "socket"}
    /\ conn' = [conn EXCEPT ![c] = "closed"]
    /\ UNCHANGED <<procVars, request, met>>

Ended == ~Running /\ UNCHANGED vars

MainStep ==
    \/ Load \/ InitDB \/ Spawn \/ Notify \/ BeginShutdown
    \/ Poll \/ ForcedShutdown \/ CloseDb \/ Return

ConnStep(c) ==
    \/ Accept(c) \/ Age(c) \/ Receive(c) \/ AuthMiddleware(c) \/ Statement(c) \/ Reply(c) \/ Disconnect(c)

Next ==
    \/ MainStep
    \/ Expire
    \/ Signal
    \/ Listen
    \/ \E c \in Conns : ConnStep(c)
    \/ Ended

\* main and the listener run, and time passes.  Nothing is assumed of clients
\* and handlers: a request may never come, and a handler never reply.
Fairness == WF_vars(MainStep) /\ WF_vars(Expire) /\ WF_vars(Listen)

Spec == Init /\ [][Next]_vars /\ Fairness

-----------------------------------------------------------------------------
(***************************************************************************)
(* Properties                                                              *)
(***************************************************************************)
\* A process that logs "Server exited cleanly" has answered every request it
\* had received and left no connection without an answer, websockets excepted
\* (Shutdown waits for them, and only then main returns).
CleanExitDrains == exit = "clean" => \A c \in Conns : ~Busy(c)

\* A handler never finds the database closed or not yet open, however requests,
\* the signal and the five seconds fall; only an operation over a websocket, which
\* Shutdown does not wait for, can find it closed.
HandlersHaveTheDb == \A e \in met : e[2] = "socket" /\ db = "closed"

\* Once the shutdown has begun no connection is accepted, also when the listener
\* came up later than the signal, and once Shutdown has returned no request is
\* received either.
NothingNewInShutdown ==
    [][ShuttingDown => \A c \in Conns :
           /\ conn[c] = "none" => conn'[c] = "none"
           /\ main # "drain" /\ conn'[c] = "admit" => conn[c] = "admit"]_vars

\* A signal that main gets ends the process, even if a handler hangs or a client
\* keeps its connection open without a word: Shutdown gives up after five seconds.
SignalEnds == quit ~> ~Running
=============================================================================
