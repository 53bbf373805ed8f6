------------------------------ MODULE WebRouter ------------------------------
(***************************************************************************)
(* The request path of the web package's Router: the snapshot ServeHTTP    *)
(* takes under the read lock, the address lists it reads without one, the  *)
(* rate limit, the handler of the ServeMux it kept and the status hooks.   *)
(*                                                                         *)
(* A ServeMux is an object: Handle adds to it in place, unregistering      *)
(* replaces it by a new one, and a request keeps the one it read.  The     *)
(* RWMutex appears as what can be left of it: the read locks a panicking   *)
(* request took and never gives back, and a writer that waits for them.    *)
(* Addresses, paths and response bodies are model values; a pattern is a   *)
(* path or Root, the pattern "/" that matches every path.                  *)
(***************************************************************************)
EXTENDS Naturals, FiniteSets

CONSTANTS Requests,     \* the requests, 1..n in the order they come
          Paths, Root,  \* URL paths, and the pattern "/"
          Patterns,     \* the patterns handlers are registered for
          IPs, Invalid, \* client addresses, and one net.ParseIP refuses
          Hooked,       \* the status codes status hooks are registered for
          MaxMuxes,     \* bound on the ServeMux objects made
          None

ASSUME PatternAssumption == /\ Patterns \subseteq Paths \cup {Root}
                            /\ None \notin Patterns \cup {"handler", "websocket", "honeypot"}
                            /\ MaxMuxes \in Nat \ {0}

VARIABLES routes,           \* Router.routes: [Patterns -> kind or None]
          muxes, mux,       \* every ServeMux made, and the current one
          limits,           \* the patterns with a limitStore
          limitedPatterns,
          onStatus,         \* pairs of a pattern and a status code
          whitelist, blacklist,
          lock,             \* [leaked, waiting]: Router.mutex
          req,              \* the requests
          crashed,          \* the process has ended in a fatal error
          trapped           \* history: addresses the honeypot put on the list

registryVars == <<routes, muxes, mux, limits, limitedPatterns>>
listVars == <<whitelist, blacklist, trapped>>
routerVars == <<registryVars, listVars, onStatus, lock, req, crashed>>

Kinds == {"handler", "websocket", "honeypot"}
NotFound == <<None, None>>

\* The longest of the patterns that matches: the path itself before "/".
MatchPattern(path, patterns) ==
    IF path \in patterns THEN path ELSE IF Root \in patterns THEN Root ELSE None

\* The pattern and the kind of handler a table of routes has for a path.
HandlerFor(table, path) ==
    LET p == MatchPattern(path, {q \in Patterns : table[q] # None})
    IN  IF p = None THEN NotFound ELSE <<p, table[p]>>

InFlight(r) == req[r].pc \notin {"idle", "done", "panicked"}

Idle == [pc |-> "idle"]

\* What the mux of the request's snapshot serves its path with, now.
Serves(r) == HandlerFor(muxes[req[r].mux], req[r].path)

Goto(r, pc) == req' = [req EXCEPT ![r].pc = pc]
Ran(r) == req' = [req EXCEPT ![r].pc = "hooks", ![r].ran = Serves(r)]
End(r, pc) == req' = [req EXCEPT ![r] = [pc |-> pc]]

RouterTypeOK ==
    /\ routes \in [Patterns -> Kinds \cup {None}]
    /\ muxes \in [1..MaxMuxes -> [Patterns -> Kinds \cup {None}]]
    /\ mux \in 1..MaxMuxes
    /\ limits \subseteq Patterns /\ limitedPatterns \subseteq Patterns
    /\ onStatus \subseteq Patterns \X Hooked
    /\ whitelist \subseteq IPs /\ blacklist \subseteq IPs /\ trapped \subseteq IPs
    /\ lock.leaked \in 0..Cardinality(Requests)

-----------------------------------------------------------------------------
(***************************************************************************)
(* ServeHTTP.                                                              *)
(***************************************************************************)
\* The snapshot: the current mux, the patterns with a hook, the limited ones.
\* n: the http.Server it came to.  The fields seen and doomed record history: the
\* handlers registered for the path since the request came, and whether the
\* honeypot had caught its address before that.
Arrive(r, n, path, ip) ==
    /\ req[r] = Idle
    /\ ~lock.waiting
    /\ req' = [req EXCEPT ![r] =
                [pc |-> "white", server |-> n, path |-> path, ip |-> ip,
                 mux |-> mux, hooks |-> {h[1] : h \in onStatus},
                 limited |-> limitedPatterns, ran |-> None,
                 hijacked |-> FALSE,
                 seen |-> {HandlerFor(routes, path)}, doomed |-> ip \in trapped]]
    /\ UNCHANGED <<registryVars, listVars, onStatus, lock, crashed>>

\* block, its reading of the whitelist.
CheckWhitelist(r) ==
    /\ req[r].pc = "white"
    /\ \/ req[r].ip = Invalid /\ Goto(r, "hooks")
       \/ req[r].ip \in whitelist /\ Goto(r, "limit")
       \/ req[r].ip \notin whitelist \cup {Invalid} /\ Goto(r, "black")
    /\ UNCHANGED <<registryVars, listVars, onStatus, lock, crashed>>

\* block, its reading of the blacklist.
CheckBlacklist(r) ==
    /\ req[r].pc = "black"
    /\ IF req[r].ip \in blacklist
         THEN Goto(r, "hooks")
         ELSE Goto(r, "limit")
    /\ UNCHANGED <<registryVars, listVars, onStatus, lock, crashed>>

\* rateLimit.  (canonicalRedirect, before it, writes a status and nothing more:
\* the request goes on, and no step depends on the status.)  The limitStore is
\* looked up by a pattern of the snapshot; when it has been unregistered since,
\* the nil limitStore panics between RLock and RUnlock.  What the rate.Limiter
\* answers is its own matter; when it refuses, the 429 is written and the request
\* goes on.
RateLimit(r) ==
    LET matched == MatchPattern(req[r].path, req[r].limited)
    IN  /\ req[r].pc = "limit"
        /\ \/ /\ matched = None
              /\ req' = [req EXCEPT ![r].pc = "handle", ![r].limited = {}]
              /\ UNCHANGED lock
           \/ /\ matched # None /\ ~lock.waiting
              /\ matched \in limits
              /\ req' = [req EXCEPT ![r].pc = "handle", ![r].limited = {}]
              /\ UNCHANGED lock
           \/ /\ matched # None /\ ~lock.waiting
              /\ matched \notin limits
              /\ End(r, "panicked")
              /\ lock' = [lock EXCEPT !.leaked = @ + 1]
        /\ UNCHANGED <<registryVars, listVars, onStatus, crashed>>

\* A handler of the application.
RunHandler(r) ==
    /\ req[r].pc = "handle" /\ Serves(r)[2] = "handler"
    /\ Ran(r)
    /\ UNCHANGED <<registryVars, listVars, onStatus, lock, crashed>>

\* A websocket path: the connection is taken over, or the upgrade fails.
RunWebsocket(r) ==
    /\ req[r].pc = "handle" /\ Serves(r)[2] = "websocket"
    /\ \/ req' = [req EXCEPT ![r].pc = "hooks", ![r].hijacked = TRUE,
                                 ![r].ran = Serves(r)]
       \/ Ran(r)
    /\ UNCHANGED <<registryVars, listVars, onStatus, lock, crashed>>

RunNotFound(r) ==
    /\ req[r].pc = "handle" /\ Serves(r) = NotFound
    /\ Ran(r)
    /\ UNCHANGED <<registryVars, listVars, onStatus, lock, crashed>>

\* Requests that may be in the middle of reading the blacklist, or of writing to
\* it from the honeypot: the map has no lock, and an overlapping write may end
\* the process ("concurrent map iteration and map write").
UsingBlacklist == {r \in Requests : \/ req[r].pc = "black"
                                    \/ /\ req[r].pc = "handle"
                                       /\ Serves(r)[2] = "honeypot"
                                       /\ req[r].ip \notin whitelist}

UsingWhitelist == {r \in Requests : \/ req[r].pc = "white"
                                    \/ /\ req[r].pc = "handle"
                                       /\ Serves(r)[2] = "honeypot"}

RunHoneypotListed(r) ==
    /\ req[r].pc = "handle" /\ Serves(r)[2] = "honeypot"
    /\ Ran(r)
    /\ IF req[r].ip \notin whitelist
         THEN UNCHANGED <<blacklist, trapped, crashed>>
         ELSE /\ blacklist' = blacklist \cup {req[r].ip}
              /\ trapped' = trapped \cup {req[r].ip}
              /\ UNCHANGED crashed
    /\ UNCHANGED <<registryVars, whitelist, onStatus, lock>>

RunHoneypot(r) ==
    /\ req[r].pc = "handle" /\ Serves(r)[2] = "honeypot"
    /\ Ran(r)
    /\ IF req[r].ip \in whitelist
         THEN UNCHANGED <<blacklist, trapped, crashed>>
         ELSE /\ blacklist' = blacklist \cup {req[r].ip}
              /\ trapped' = trapped \cup {req[r].ip}
              /\ \/ UNCHANGED crashed
                 \/ UsingBlacklist # {r} /\ crashed' = TRUE
    /\ UNCHANGED <<registryVars, whitelist, onStatus, lock>>

\* handleStatusHooks and flush: the hook for the status, if there is one, writes
\* the response anew; it is sent, unless the connection was hijacked.
Finish(r) ==
    /\ req[r].pc = "hooks"
    /\ MatchPattern(req[r].path, req[r].hooks) # None => ~lock.waiting
    /\ End(r, "done")
    /\ UNCHANGED <<registryVars, listVars, onStatus, lock, crashed>>

RequestStep(r) == \/ CheckWhitelist(r) \/ CheckBlacklist(r) \/ RateLimit(r)
                  \/ RunHandler(r) \/ RunWebsocket(r) \/ RunNotFound(r)
                  \/ RunHoneypot(r) \/ Finish(r)

-----------------------------------------------------------------------------
(***************************************************************************)
(* What the server's configuration calls do to the router, each under the  *)
(* write lock.  A writer that finds a leaked read lock waits for ever, and *)
(* with it every later reader.                                             *)
(***************************************************************************)
\* The requests in flight, after the routes have become new.
Observe(new) ==
    req' = [r \in Requests |->
             IF InFlight(r)
               THEN [req[r] EXCEPT !.seen = @ \cup {HandlerFor(new, req[r].path)}]
               ELSE req[r]]

WaitForEver == /\ lock.leaked > 0
               /\ lock' = [lock EXCEPT !.waiting = TRUE]
               /\ UNCHANGED <<registryVars, onStatus, req, crashed>>

\* Handle: ServeMux panics on a pattern it already has, and nobody recovers.
Handle(p, kind) ==
    \/ WaitForEver
    \/ /\ lock.leaked = 0 /\ muxes[mux][p] = None
       /\ muxes' = [muxes EXCEPT ![mux][p] = kind]
       /\ routes' = [routes EXCEPT ![p] = kind]
       /\ Observe(routes')
       /\ UNCHANGED <<mux, limits, limitedPatterns, onStatus, lock, crashed>>
    \/ /\ lock.leaked = 0 /\ muxes[mux][p] # None
       /\ crashed' = TRUE
       /\ UNCHANGED <<registryVars, onStatus, lock, req>>

UnregisterKeepsMux(ps) ==
    \/ WaitForEver
    \/ /\ lock.leaked = 0
       /\ \A p \in ps : routes[p] # None
       /\ routes' = [p \in Patterns |-> IF p \in ps THEN None ELSE routes[p]]
       /\ limits' = limits \ ps
       /\ limitedPatterns' = limitedPatterns \ ps
       /\ Observe(routes')
       /\ UNCHANGED <<mux, muxes, onStatus, lock, crashed>>

UnregisterKeepsPatterns(ps) ==
    \/ WaitForEver
    \/ /\ lock.leaked = 0
       /\ \A p \in ps : routes[p] # None
       /\ mux < MaxMuxes
       /\ routes' = [p \in Patterns |-> IF p \in ps THEN None ELSE routes[p]]
       /\ mux' = mux + 1
       /\ muxes' = [muxes EXCEPT ![mux + 1] = routes']
       /\ limits' = limits \ ps
       /\ Observe(routes')
       /\ UNCHANGED <<limitedPatterns, onStatus, lock, crashed>>

\* UnregisterHandler, with rebuildMux: nothing happens unless all are routes.
Unregister(ps) ==
    \/ WaitForEver
    \/ /\ lock.leaked = 0
       /\ \A p \in ps : routes[p] # None
       /\ mux < MaxMuxes
       /\ routes' = [p \in Patterns |-> IF p \in ps THEN None ELSE routes[p]]
       /\ mux' = mux + 1
       /\ muxes' = [muxes EXCEPT ![mux + 1] = routes']
       /\ limits' = limits \ ps
       /\ limitedPatterns' = limitedPatterns \ ps
       /\ Observe(routes')
       /\ UNCHANGED <<onStatus, lock, crashed>>
    \/ /\ lock.leaked = 0
       /\ \E p \in ps : routes[p] = None
       /\ UNCHANGED <<registryVars, onStatus, lock, req, crashed>>

UnregisterAll ==
    \/ WaitForEver
    \/ /\ lock.leaked = 0 /\ mux < MaxMuxes
       /\ routes' = [p \in Patterns |-> None]
       /\ mux' = mux + 1
       /\ limits' = {} /\ limitedPatterns' = {}
       /\ Observe(routes')
       /\ UNCHANGED <<muxes, onStatus, lock, crashed>>

\* registerRateLimit of a pattern that has none yet.
RegisterRateLimit(p) ==
    \/ WaitForEver
    \/ /\ lock.leaked = 0
       /\ limits' = limits \cup {p}
       /\ limitedPatterns' = limitedPatterns \cup {p}
       /\ UNCHANGED <<routes, muxes, mux, onStatus, lock, req, crashed>>

OnStatus(p, code) ==
    \/ WaitForEver
    \/ /\ lock.leaked = 0
       /\ onStatus' = onStatus \cup {<<p, code>>}
       /\ UNCHANGED <<registryVars, lock, req, crashed>>
=============================================================================
