------------------------------ MODULE WebServer ------------------------------
(***************************************************************************)
(* The web package's Server around its Router: the configuration calls,    *)
(* which keep their own tables of handlers and websockets and a sticky     *)
(* Error, and the life cycle: Start and StartAsync, Stop, Shutdown,        *)
(* Restart and RestartAsync.                                               *)
(*                                                                         *)
(* Every Start makes a new http.Server.  net/http is external: an          *)
(* http.Server listens until it is closed, refuses to listen once it is    *)
(* closed, and cannot listen on a port in use; Shutdown closes it at once  *)
(* and waits for the requests it serves, hijacked connections excepted.    *)
(* Configuration calls are serialised by Server.mutex, so each is one      *)
(* step, but for the address lists, which are emptied and then filled.     *)
(***************************************************************************)
EXTENDS WebRouter

CONSTANTS Starters,    \* the calls of Start, in their order: 1..n
          Setup,       \* the routes configured before the first call
          SetupLimits, \* the patterns rate limited before the first call
          MaxEvents    \* bound on calls of the Server's methods and requests

ASSUME SetupAssumption == /\ Setup \in [Patterns -> Kinds \cup {None}]
                          /\ SetupLimits \subseteq Patterns

VARIABLES handlers, websockets,  \* Server.handler, Server.websockets
          error,                 \* Server.Error # nil
          filling,               \* the rest of a SetWhitelist or SetBlacklist
          tls, redirect,         \* WithTLS, WithRedirectToHTTPS
          redirector,            \* the Start whose redirect server listens
          server,                \* Server.server: an http.Server or 0
          servers,               \* the state of every http.Server
          start,                 \* the calls of Start
          closing,               \* the Shutdown in progress, or None
          events

configVars == <<handlers, websockets, error, filling, tls, redirect>>
lifeVars == <<redirector, server, servers, start, closing>>
vars == <<routerVars, configVars, lifeVars, events>>

ServerIds == Starters
Fresh == CHOOSE n \in ServerIds : servers[n] = "none"

TypeOK ==
    /\ RouterTypeOK
    /\ handlers \subseteq Patterns /\ websockets \subseteq Patterns
    /\ error \in BOOLEAN /\ tls \in BOOLEAN /\ redirect \in BOOLEAN
    /\ server \in ServerIds \cup {0}
    /\ servers \in [ServerIds -> {"none", "new", "listening", "closed"}]

Init ==
    /\ routes = Setup
    /\ muxes = [m \in 1..MaxMuxes |->
                 IF m = 1 THEN Setup ELSE [p \in Patterns |-> None]]
    /\ mux = 1
    /\ limits = SetupLimits /\ limitedPatterns = SetupLimits
    /\ onStatus = {} /\ whitelist = {} /\ blacklist = {} /\ trapped = {}
    /\ lock = [leaked |-> 0, waiting |-> FALSE]
    /\ req = [r \in Requests |-> Idle]
    /\ crashed = FALSE
    /\ handlers = {p \in Patterns : Setup[p] = "handler"}
    /\ websockets = {p \in Patterns : Setup[p] = "websocket"}
    /\ error = FALSE /\ filling = None
    /\ tls = FALSE /\ redirect = FALSE /\ redirector = 0
    /\ server = 0
    /\ servers = [n \in ServerIds |-> "none"]
    /\ start = [g \in Starters |-> [pc |-> "idle", server |-> 0, failed |-> FALSE]]
    /\ closing = None
    /\ events = 0

-----------------------------------------------------------------------------
(***************************************************************************)
(* Configuration.  Once Error is set, all but WithTLS return at once.      *)
(***************************************************************************)
\* Server.mutex is free: no call waits inside it, none is filling a list.
ServerLock == ~lock.waiting /\ filling = None

Event == events < MaxEvents /\ events' = events + 1

Config == /\ ~crashed /\ ServerLock /\ ~error
          /\ Event
          /\ UNCHANGED lifeVars

Refuse == /\ error' = TRUE
          /\ UNCHANGED <<routerVars, handlers, websockets, filling, tls, redirect>>

\* WithHandler; WithHandlerFunc, WithFS and WithFileServer do the same for each
\* of their paths.
WithHandler(p) ==
    /\ Config
    /\ \/ p \in handlers \cup websockets /\ Refuse
       \/ /\ p \notin handlers \cup websockets
          /\ handlers' = handlers \cup {p}
          /\ Handle(p, "handler")
          /\ UNCHANGED <<listVars, websockets, error, filling, tls, redirect>>

WithWebsocket(p) ==
    /\ Config
    /\ \/ p \in handlers \cup websockets /\ Refuse
       \/ /\ p \notin handlers \cup websockets
          /\ websockets' = websockets \cup {p}
          /\ Handle(p, "websocket")
          /\ UNCHANGED <<listVars, handlers, error, filling, tls, redirect>>

\* WithHoneypot asks the two tables and enters the pattern in neither.
WithHoneypot(p) ==
    /\ Config
    /\ \/ p \in handlers \cup websockets /\ Refuse
       \/ /\ p \notin handlers \cup websockets
          /\ Handle(p, "honeypot")
          /\ UNCHANGED <<listVars, configVars>>

UnregisterHandler(ps) ==
    /\ Config
    /\ ps \subseteq handlers
    /\ handlers' = handlers \ ps
    /\ Unregister(ps)
    /\ UNCHANGED <<listVars, websockets, error, filling, tls, redirect>>

\* The websockets stay in their table.
UnregisterAllHandler ==
    /\ Config
    /\ handlers' = {}
    /\ UnregisterAll
    /\ UNCHANGED <<listVars, websockets, error, filling, tls, redirect>>

WithRateLimit(p) ==
    /\ Config
    /\ \/ p \in limits /\ lock.leaked = 0 /\ Refuse
       \/ /\ p \notin limits \/ lock.leaked > 0
          /\ RegisterRateLimit(p)
          /\ UNCHANGED <<listVars, configVars>>

WithOnHTTPCode(p, code) ==
    /\ Config
    /\ \/ <<p, code>> \in onStatus /\ Refuse
       \/ /\ <<p, code>> \notin onStatus
          /\ OnStatus(p, code)
          /\ UNCHANGED <<listVars, configVars>>

\* WithTLS does not look at Error.
WithTLS ==
    /\ ~crashed /\ ServerLock /\ Event
    /\ tls' = TRUE
    /\ UNCHANGED <<routerVars, handlers, websockets, error, filling, redirect>>
    /\ UNCHANGED lifeVars

\* The port is taken to differ from the server's.
WithRedirectToHTTPS ==
    /\ Config
    /\ \/ (~tls \/ redirect) /\ Refuse
       \/ /\ tls /\ ~redirect
          /\ redirect' = TRUE
          /\ UNCHANGED <<routerVars, handlers, websockets, error, filling, tls>>

\* setWhitelist and setBlacklist put an empty map in place, which requests read
\* from then on, and enter the addresses one after the other.  The requests in
\* flight are no longer held to the old lists (history).
Absolve == req' = [r \in Requests |->
                     IF InFlight(r) THEN [req[r] EXCEPT !.doomed = FALSE] ELSE req[r]]

SetList(which, ips) ==
    /\ Config
    /\ IF which = "white" THEN whitelist' = {} /\ UNCHANGED blacklist
                          ELSE blacklist' = {} /\ UNCHANGED whitelist
    /\ filling' = [list |-> which, rest |-> ips]
    /\ trapped' = {} /\ Absolve
    /\ UNCHANGED <<registryVars, onStatus, lock, crashed>>
    /\ UNCHANGED <<handlers, websockets, error, tls, redirect>>

FillList ==
    /\ ~crashed /\ filling # None /\ filling.rest # {}
    /\ \E ip \in filling.rest :
         /\ filling' = [filling EXCEPT !.rest = @ \ {ip}]
         /\ IF filling.list = "white"
              THEN whitelist' = whitelist \cup {ip} /\ UNCHANGED blacklist
              ELSE blacklist' = blacklist \cup {ip} /\ UNCHANGED whitelist
         /\ trapped' = IF filling.list = "white" THEN trapped \ {ip} ELSE trapped
    /\ \/ UNCHANGED crashed
       \/ /\ (IF filling.list = "white" THEN UsingWhitelist ELSE UsingBlacklist) # {}
          /\ crashed' = TRUE
    /\ Absolve
    /\ UNCHANGED <<registryVars, onStatus, lock>>
    /\ UNCHANGED <<handlers, websockets, error, tls, redirect, lifeVars, events>>

FillDone ==
    /\ ~crashed /\ filling # None /\ filling.rest = {}
    /\ filling' = None
    /\ UNCHANGED <<routerVars, handlers, websockets, error, tls, redirect>>
    /\ UNCHANGED <<lifeVars, events>>

-----------------------------------------------------------------------------
(***************************************************************************)
(* The life cycle.                                                         *)
(***************************************************************************)
SetStart(g, pc) == start' = [start EXCEPT ![g].pc = pc]

\* The next Start that has not been called, or 0.
NextStart == LET idle == {g \in Starters : start[g].pc = "idle"}
             IN  IF idle = {} THEN 0 ELSE CHOOSE g \in idle : \A h \in idle : g <= h

\* StartAsync launches a goroutine, or sends the Error it finds and keeps it.
Launch(g) == SetStart(g, IF error THEN "refused" ELSE "begin")

StartAsync(g) ==
    /\ ~crashed /\ NextStart = g
    /\ Event
    /\ Launch(g)
    /\ UNCHANGED <<routerVars, configVars, redirector, server, servers, closing>>

\* Start makes its http.Server and puts it in the field Stop reads.
StartCreates(g) ==
    /\ ~crashed /\ ServerLock /\ start[g].pc = "begin"
    /\ IF error
         THEN SetStart(g, "report") /\ UNCHANGED <<server, servers>>
         ELSE /\ server' = Fresh
              /\ servers' = [servers EXCEPT ![Fresh] = "new"]
              /\ SetStart(g, "created")
    /\ UNCHANGED <<routerVars, configVars, redirector, closing, events>>

\* Start reads the field again; a later Start may have replaced the server.  With
\* TLS the redirect server is started too: it stays for good, and a second one
\* finds its port in use.
StartTakes(g) ==
    /\ ~crashed /\ ServerLock /\ start[g].pc = "created"
    /\ start' = [start EXCEPT ![g] = [pc |-> "taken", server |-> server,
                       failed |-> tls /\ redirect /\ redirector # 0]]
    /\ redirector' = IF tls /\ redirect /\ redirector = 0 THEN g ELSE redirector
    /\ UNCHANGED <<routerVars, configVars, server, servers, closing, events>>

\* ListenAndServe.
Listen(g) ==
    LET n == start[g].server
    IN  /\ ~crashed /\ start[g].pc = "taken"
        /\ \/ /\ servers[n] = "closed"
              /\ SetStart(g, "returned") /\ UNCHANGED servers
           \/ /\ servers[n] # "closed"
              /\ \E m \in ServerIds : servers[m] = "listening"
              /\ start' = [start EXCEPT ![g].pc = "returned", ![g].failed = TRUE]
              /\ UNCHANGED servers
           \/ /\ servers[n] = "new"
              /\ \A m \in ServerIds : servers[m] # "listening"
              /\ servers' = [servers EXCEPT ![n] = "listening"]
              /\ SetStart(g, "serving")
        /\ UNCHANGED <<routerVars, configVars, redirector, server, closing, events>>

ListenReturns(g) ==
    /\ ~crashed /\ start[g].pc = "serving"
    /\ servers[start[g].server] = "closed"
    /\ SetStart(g, "returned")
    /\ UNCHANGED <<routerVars, configVars, redirector, server, servers, closing>>
    /\ UNCHANGED events

\* Wait for the redirect server, which nobody closes, and set Error.
StartReturns(g) ==
    /\ ~crashed /\ start[g].pc = "returned" /\ redirector # g
    /\ error' = (error \/ start[g].failed)
    /\ SetStart(g, "report")
    /\ UNCHANGED <<routerVars, handlers, websockets, filling, tls, redirect>>
    /\ UNCHANGED <<redirector, server, servers, closing, events>>

ReportErrors(g) ==
    /\ ~crashed /\ start[g].pc \in {"report", "refused"} /\ error
    /\ error' = (start[g].pc = "refused")
    /\ SetStart(g, "finished")
    /\ UNCHANGED <<routerVars, handlers, websockets, filling, tls, redirect>>
    /\ UNCHANGED <<redirector, server, servers, closing, events>>

\* The goroutine of StartAsync sends its result on done, which its caller
\* receives, and clears the Error it sent.
Report(g) ==
    /\ ~crashed /\ start[g].pc \in {"report", "refused"}
    /\ error' = (error /\ start[g].pc = "refused")
    /\ SetStart(g, "finished")
    /\ UNCHANGED <<routerVars, handlers, websockets, filling, tls, redirect>>
    /\ UNCHANGED <<redirector, server, servers, closing, events>>

Close(n) == IF n = 0 THEN UNCHANGED servers
                     ELSE servers' = [servers EXCEPT ![n] = "closed"]

Stop ==
    /\ ~crashed /\ ServerLock
    /\ Event
    /\ Close(server)
    /\ UNCHANGED <<routerVars, configVars, redirector, server, start, closing>>

\* Shutdown, and the first half of Restart and RestartAsync.
BeginShutdown(op) ==
    /\ ~crashed /\ ServerLock /\ closing = None
    /\ Event
    /\ closing' = [op |-> op, server |-> server]
    /\ Close(server)
    /\ UNCHANGED <<routerVars, configVars, redirector, server, start>>

Serving(n) == {r \in Requests : InFlight(r) /\ ~req[r].hijacked /\ req[r].server = n}

\* The server has no request left; Restart and RestartAsync start it again.
EndShutdown ==
    /\ ~crashed /\ closing # None
    /\ closing.server # 0 => Serving(closing.server) = {}
    /\ IF closing.op = "restart" /\ NextStart # 0
         THEN Launch(NextStart) ELSE UNCHANGED start
    /\ closing' = None
    /\ UNCHANGED <<routerVars, configVars, redirector, server, servers, events>>

\* The ten seconds of Shutdown are over: an error, and no restart.
ShutdownTimesOut ==
    /\ ~crashed /\ closing # None
    /\ closing.server # 0 /\ Serving(closing.server) # {}
    /\ closing' = None
    /\ UNCHANGED <<routerVars, configVars, redirector, server, servers, start, events>>

-----------------------------------------------------------------------------
Request(r) ==
    /\ ~crashed /\ Event
    /\ \A q \in 1..(r - 1) : req[q] # Idle
    /\ \E n \in ServerIds, path \in Paths, ip \in IPs \cup {Invalid} :
         /\ servers[n] = "listening"
         /\ Arrive(r, n, path, ip)
    /\ UNCHANGED <<configVars, lifeVars>>

Serve(r) == /\ ~crashed
            /\ RequestStep(r)
            /\ UNCHANGED <<configVars, lifeVars, events>>

StartStep(g) == \/ StartCreates(g) \/ StartTakes(g) \/ Listen(g)
                \/ ListenReturns(g) \/ StartReturns(g) \/ Report(g)

Configure ==
    \/ \E p \in Patterns : WithHandler(p) \/ WithWebsocket(p) \/ WithHoneypot(p)
    \/ \E ps \in SUBSET Patterns \ {{}} : UnregisterHandler(ps)
    \/ UnregisterAllHandler
    \/ \E p \in Patterns : WithRateLimit(p)
    \/ \E p \in Patterns, code \in Hooked : WithOnHTTPCode(p, code)
    \/ WithTLS
    \/ WithRedirectToHTTPS
    \/ \E which \in {"white", "black"}, ips \in SUBSET IPs : SetList(which, ips)

Next ==
    \/ Configure
    \/ FillList
    \/ FillDone
    \/ \E g \in Starters : StartAsync(g) \/ StartStep(g)
    \/ Stop
    \/ \E op \in {"shutdown", "restart"} : BeginShutdown(op)
    \/ EndShutdown
    \/ ShutdownTimesOut
    \/ \E r \in Requests : Request(r) \/ Serve(r)

Spec == Init /\ [][Next]_vars

\* Goroutines that can go on do: requests (the application's handlers return),
\* calls of Start and a SetWhitelist or SetBlacklist under way.
Fairness == WF_vars(\/ \E r \in Requests : Serve(r)
                    \/ \E g \in Starters : StartStep(g)
                    \/ FillList \/ FillDone)

FairSpec == Spec /\ Fairness

-----------------------------------------------------------------------------
(***************************************************************************)
(* Properties.                                                             *)
(***************************************************************************)
\* Whatever is registered and unregistered meanwhile, a request is served by a
\* handler that was registered for its path at some moment since it came, and
\* finds none only if there was none at some such moment (Router.ServeHTTP
\* keeps the ServeMux it read; UnregisterHandler must leave it alone).
ServedAsRegistered ==
    \A r \in Requests : InFlight(r) /\ req[r].ran # None => req[r].ran \in req[r].seen

\* A request that comes after the honeypot caught its address reaches no
\* handler, until SetWhitelist or SetBlacklist replaces a list (Router.honeypot,
\* Router.block).
TrappedStayOut ==
    \A r \in Requests : InFlight(r) /\ req[r].doomed => req[r].ran = None

\* A request panics at its rate limit, and leaves the router read locked, only if
\* handlers were unregistered between its snapshot and that point; a request
\* that came after the last of them cannot, since the patterns of its snapshot
\* all have their limitStore (Router.ServeHTTP, Router.rateLimit, and the two
\* tables UnregisterHandler, UnregisterAllHandler and registerRateLimit keep).
OnlyOvertakenRequestsPanic ==
    [][\A r \in Requests :
         InFlight(r) /\ req'[r].pc = "panicked" => req[r].mux # mux]_vars

\* A Start whose http.Server is closed, by Stop, Shutdown or Restart, also before
\* it listens, does not go on for ever: StartAsync sends on done; not so when
\* its redirect server runs (Server.Start, Server.StartAsync).
Closed(g) == /\ start[g].pc \in {"taken", "serving", "returned", "report"}
             /\ start[g].server # 0 /\ servers[start[g].server] = "closed"
             /\ redirector # g

CloseIsReported ==
    (\E g \in Starters : Closed(g)) ~> ((\A g \in Starters : ~Closed(g)) \/ crashed)

\* No writer waits for a lock that is never given back: "mutex sync.RWMutex //
\* Protect concurrent access to routes" (Router.mutex).
RouterNeverHangs == ~lock.waiting
=============================================================================
