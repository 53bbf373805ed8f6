--------------------------- MODULE WebServerProofs ---------------------------
(***************************************************************************)
(* Proofs about WebServer and WebRouter, for any number of requests,       *)
(* patterns, addresses and calls of the Server's methods.                  *)
(***************************************************************************)
EXTENDS WebServer, TLAPS

Tables == [Patterns -> Kinds \cup {None}]
Empty == [p \in Patterns |-> None]

\* What a request can be answered with: a pattern and its kind, or nothing.
Outcomes == (Patterns \X Kinds) \cup {NotFound}

Resting == [pc : {"idle", "done", "panicked"}]
Flights == [pc : {"white", "black", "limit", "handle", "hooks"}, server : ServerIds,
            path : Paths, ip : IPs \cup {Invalid}, mux : 1..MaxMuxes,
            hooks : SUBSET Patterns, limited : SUBSET Patterns,
            ran : Outcomes \cup {None}, hijacked : BOOLEAN,
            seen : SUBSET Outcomes, doomed : BOOLEAN]

TypeInv ==
    /\ routes \in Tables
    /\ muxes \in [1..MaxMuxes -> Tables] /\ mux \in 1..MaxMuxes
    /\ limits \subseteq Patterns /\ limitedPatterns \subseteq Patterns
    /\ onStatus \subseteq Patterns \X Hooked
    /\ req \in [Requests -> Resting \cup Flights]

\* The current mux has the routes; the ones not made yet are empty.
TableInv == /\ muxes[mux] = routes
            /\ \A m \in 1..MaxMuxes : m > mux => muxes[m] = Empty

\* An address the honeypot caught is on the blacklist, not on the whitelist.
ListInv == trapped \subseteq blacklist /\ trapped \cap whitelist = {}

\* Every limited pattern has its limitStore.
LimitInv == limitedPatterns \subseteq limits

\* A request's mux has, for its path, what was registered at some moment since
\* it came: the current mux by TableInv, an older one because it is no longer
\* changed.  An address that was caught gets no further than the blacklist.
\* The limits of a snapshot are there until the mux is replaced.
FlightOK(q) ==
    /\ q.mux <= mux
    /\ q.mux = mux => q.limited \subseteq limits
    /\ HandlerFor(muxes[q.mux], q.path) \in q.seen
    /\ q.ran # None => q.ran \in q.seen
    /\ q.doomed => q.ip \in trapped /\ q.ran = None /\ q.pc \in {"white", "black", "hooks"}

FlightInv == \A r \in Requests : InFlight(r) => FlightOK(req[r])

Inv == TypeInv /\ TableInv /\ ListInv /\ LimitInv /\ FlightInv

proofVars == <<routes, muxes, mux, limits, limitedPatterns, onStatus,
               whitelist, blacklist, trapped, req>>

-----------------------------------------------------------------------------
\* What a table has for a path is an outcome.
LEMMA HandlerForType ==
    ASSUME NEW table \in Tables, NEW path
    PROVE  HandlerFor(table, path) \in Outcomes
<1> DEFINE set == {q \in Patterns : table[q] # None}
           p == MatchPattern(path, set)
<1>1. p = None \/ p \in set
  BY DEF MatchPattern
<1>2. p \in set => <<p, table[p]>> \in Patterns \X Kinds
  BY DEF Tables
<1>3. HandlerFor(table, path) = IF p = None THEN NotFound ELSE <<p, table[p]>>
  BY DEF HandlerFor
<1> HIDE DEF p
<1> QED BY <1>1, <1>2, <1>3 DEF Outcomes

\* Before the first call no request is in flight.
LEMMA InitInv == Init => Inv
<1> SUFFICES ASSUME Init PROVE Inv
  OBVIOUS
<1>1. Setup \in Tables /\ Empty \in Tables /\ MaxMuxes \in Nat \ {0} /\ SetupLimits \subseteq Patterns
  BY SetupAssumption, PatternAssumption DEF Tables, Empty
<1>2. TypeInv /\ TableInv
  BY <1>1 DEF Init, TypeInv, TableInv, Empty, Idle, Resting
<1>3. ListInv /\ LimitInv
  BY DEF Init, ListInv, LimitInv
<1>4. FlightInv
  BY DEF Init, FlightInv, InFlight, Idle
<1> QED BY <1>2, <1>3, <1>4 DEF Inv

\* Steps that touch neither the tables, the lists nor the requests.
LEMMA Untouched == Inv /\ UNCHANGED proofVars => Inv'
BY DEF Inv, TypeInv, TableInv, ListInv, LimitInv, FlightInv, FlightOK, InFlight, proofVars

\* What is known of a request in flight.
LEMMA FlightFacts ==
    ASSUME Inv, NEW r \in Requests, InFlight(r)
    PROVE  req[r] \in Flights /\ FlightOK(req[r])
BY DEF Inv, TypeInv, FlightInv, InFlight, Resting

\* A step of one request, which leaves the tables alone and takes nothing off
\* the list of caught addresses.
LEMMA OneRequest ==
    ASSUME Inv, NEW r \in Requests, NEW q, req' = [req EXCEPT ![r] = q],
           q \in Resting \/ (q \in Flights /\ FlightOK(q)),
           UNCHANGED <<routes, muxes, mux, limits, limitedPatterns, onStatus, whitelist>>,
           trapped \subseteq trapped', ListInv'
    PROVE  Inv'
<1>1. TypeInv' /\ TableInv' /\ LimitInv'
  BY DEF Inv, TypeInv, TableInv, LimitInv
<1>2. ASSUME NEW s \in Requests, InFlight(s)' PROVE FlightOK(req[s])'
  <2>1. FlightOK(req'[s])
    <3>1. CASE s = r
      BY <1>2, <3>1 DEF Inv, TypeInv, InFlight, Resting
    <3>2. CASE s # r
      BY <1>2, <3>2 DEF Inv, TypeInv, InFlight, FlightInv
    <3> QED BY <3>1, <3>2
  <2> QED BY <2>1 DEF FlightOK
<1> QED BY <1>1, <1>2 DEF Inv, FlightInv

-----------------------------------------------------------------------------
\* A request comes, and keeps the current mux.
LEMMA ArriveInv ==
    ASSUME Inv, NEW r \in Requests, NEW n \in ServerIds, NEW path \in Paths,
           NEW ip \in IPs \cup {Invalid}, Arrive(r, n, path, ip)
    PROVE  Inv'
<1> DEFINE q == [pc |-> "white", server |-> n, path |-> path, ip |-> ip,
                 mux |-> mux, hooks |-> {h[1] : h \in onStatus},
                 limited |-> limitedPatterns, ran |-> None, hijacked |-> FALSE,
                 seen |-> {HandlerFor(routes, path)}, doomed |-> ip \in trapped]
<1>1. HandlerFor(routes, path) \in Outcomes
  BY HandlerForType DEF Inv, TypeInv
<1>2. {h[1] : h \in onStatus} \subseteq Patterns
  BY DEF Inv, TypeInv
<1>3. q \in Flights
  BY <1>1, <1>2 DEF Inv, TypeInv, Flights
<1>4. FlightOK(q)
  <2>1. q.mux = mux /\ q.path = path /\ q.seen = {HandlerFor(routes, path)} /\ q.ran = None
           /\ q.doomed = (ip \in trapped) /\ q.ip = ip /\ q.pc = "white"
           /\ q.limited = limitedPatterns
    OBVIOUS
  <2>2. mux <= mux /\ muxes[mux] = routes /\ limitedPatterns \subseteq limits
    BY DEF Inv, TypeInv, TableInv, LimitInv
  <2> HIDE DEF q
  <2> QED BY <2>1, <2>2 DEF FlightOK
<1>5. req' = [req EXCEPT ![r] = q] /\ UNCHANGED <<registryVars, listVars, onStatus>>
  BY DEF Arrive
<1>6. ListInv'
  BY <1>5 DEF Inv, ListInv, listVars
<1> HIDE DEF q
<1> QED BY <1>3, <1>4, <1>5, <1>6, OneRequest DEF registryVars, listVars

\* A request goes on to the step pc, with the same snapshot.
LEMMA GotoInv ==
    ASSUME Inv, NEW r \in Requests, InFlight(r), NEW pc \in {"black", "limit", "hooks"}, Goto(r, pc),
           req[r].doomed => pc \in {"black", "hooks"},
           UNCHANGED <<registryVars, listVars, onStatus>>
    PROVE  Inv'
<1> DEFINE q == [req[r] EXCEPT !.pc = pc]
<1>1. req[r] \in Flights /\ FlightOK(req[r])
  BY FlightFacts
<1>2. q \in Flights /\ q.mux = req[r].mux /\ q.path = req[r].path /\ q.ip = req[r].ip /\ q.ran = req[r].ran
         /\ q.seen = req[r].seen /\ q.doomed = req[r].doomed /\ q.pc = pc /\ q.limited = req[r].limited
  BY <1>1 DEF Flights
<1>3. req' = [req EXCEPT ![r] = q]
  BY DEF Goto, Inv, TypeInv
<1> HIDE DEF q
<1>4. FlightOK(q)
  BY <1>1, <1>2 DEF FlightOK
<1>5. ListInv'
  BY DEF Inv, ListInv, listVars
<1> QED BY <1>2, <1>3, <1>4, <1>5, OneRequest DEF registryVars, listVars

\* The reading of the whitelist, where no caught address is.
LEMMA CheckWhitelistInv ==
    ASSUME Inv, NEW r \in Requests, CheckWhitelist(r)
    PROVE  Inv'
<1>1. InFlight(r) /\ UNCHANGED <<registryVars, listVars, onStatus>>
  BY DEF InFlight, CheckWhitelist
<1>2. req[r].doomed => req[r].ip \notin whitelist
  BY <1>1, FlightFacts DEF FlightOK, Inv, ListInv
<1>3. \E pc \in {"black", "limit", "hooks"} : Goto(r, pc) /\ (req[r].doomed => pc \in {"black", "hooks"})
  BY <1>2 DEF CheckWhitelist
<1> QED BY <1>1, <1>3, GotoInv

\* The reading of the blacklist, where every caught address is.
LEMMA CheckBlacklistInv ==
    ASSUME Inv, NEW r \in Requests, CheckBlacklist(r)
    PROVE  Inv'
<1>1. InFlight(r) /\ UNCHANGED <<registryVars, listVars, onStatus>>
  BY DEF InFlight, CheckBlacklist
<1>2. req[r].doomed => req[r].ip \in blacklist
  BY <1>1, FlightFacts DEF FlightOK, Inv, ListInv
<1>3. \E pc \in {"black", "limit", "hooks"} : Goto(r, pc) /\ (req[r].doomed => pc \in {"black", "hooks"})
  BY <1>2 DEF CheckBlacklist
<1> QED BY <1>1, <1>3, GotoInv

\* A request ends, answered or in a panic.
LEMMA EndInv ==
    ASSUME Inv, NEW r \in Requests, NEW pc \in {"done", "panicked"}, End(r, pc),
           UNCHANGED <<registryVars, listVars, onStatus>>
    PROVE  Inv'
<1>1. [pc |-> pc] \in Resting /\ req' = [req EXCEPT ![r] = [pc |-> pc]]
  BY DEF Resting, End
<1>2. ListInv'
  BY DEF Inv, ListInv, listVars
<1> QED BY <1>1, <1>2, OneRequest DEF registryVars, listVars

\* The rate limit: the request goes on, or panics with the nil limitStore.
LEMMA RateLimitInv ==
    ASSUME Inv, NEW r \in Requests, RateLimit(r)
    PROVE  Inv'
<1>1. InFlight(r) /\ req[r].pc = "limit" /\ UNCHANGED <<registryVars, listVars, onStatus>>
  BY DEF InFlight, RateLimit
<1>2. CASE req' = [req EXCEPT ![r].pc = "handle", ![r].limited = {}]
  <2> DEFINE q == [req[r] EXCEPT !.pc = "handle", !.limited = {}]
  <2>1. req[r] \in Flights /\ FlightOK(req[r])
    BY <1>1, FlightFacts
  <2>2. q \in Flights /\ q.mux = req[r].mux /\ q.path = req[r].path /\ q.ip = req[r].ip /\ q.ran = req[r].ran
           /\ q.seen = req[r].seen /\ q.doomed = req[r].doomed /\ q.limited = {}
    BY <2>1 DEF Flights
  <2>3. req' = [req EXCEPT ![r] = q]
    BY <1>2 DEF Inv, TypeInv
  <2> HIDE DEF q
  <2>4. FlightOK(q)
    BY <1>1, <2>1, <2>2 DEF FlightOK
  <2>5. ListInv'
    BY <1>1 DEF Inv, ListInv, listVars
  <2> QED BY <1>1, <2>2, <2>3, <2>4, <2>5, OneRequest DEF registryVars, listVars
<1>3. CASE End(r, "panicked")
  BY <1>1, <1>3, EndInv
<1> QED BY <1>2, <1>3 DEF RateLimit

\* A request is answered by what its mux has, whatever that is.
LEMMA RanInv ==
    ASSUME Inv, NEW r \in Requests, req[r].pc = "handle",
           \/ req' = [req EXCEPT ![r].pc = "hooks", ![r].hijacked = TRUE, ![r].ran = Serves(r)]
           \/ Ran(r),
           UNCHANGED <<registryVars, onStatus, whitelist>>, trapped \subseteq trapped', ListInv'
    PROVE  Inv'
<1>1. InFlight(r)
  BY DEF InFlight
<1>2. req[r] \in Flights /\ FlightOK(req[r])
  BY <1>1, FlightFacts
<1>3. Serves(r) \in Outcomes /\ Serves(r) \in req[r].seen
  BY <1>2 DEF FlightOK, Flights, Serves
<1>4. PICK q : /\ req' = [req EXCEPT ![r] = q]
               /\ \/ q = [req[r] EXCEPT !.pc = "hooks", !.hijacked = TRUE, !.ran = Serves(r)]
                  \/ q = [req[r] EXCEPT !.pc = "hooks", !.ran = Serves(r)]
  BY DEF Inv, TypeInv, Ran
<1>5. q \in Flights /\ q.mux = req[r].mux /\ q.path = req[r].path /\ q.ip = req[r].ip /\ q.ran = Serves(r)
         /\ q.seen = req[r].seen /\ q.doomed = req[r].doomed /\ q.limited = req[r].limited
  <2>1. CASE q = [req[r] EXCEPT !.pc = "hooks", !.hijacked = TRUE, !.ran = Serves(r)]
    BY <1>2, <1>3, <2>1 DEF Flights
  <2>2. CASE q = [req[r] EXCEPT !.pc = "hooks", !.ran = Serves(r)]
    BY <1>2, <1>3, <2>2 DEF Flights
  <2> QED BY <1>4, <2>1, <2>2
<1>6. FlightOK(q)
  BY <1>2, <1>3, <1>5 DEF FlightOK
<1> QED BY <1>4, <1>5, <1>6, OneRequest DEF registryVars

\* A step of a request in ServeHTTP.
LEMMA RequestStepInv ==
    ASSUME Inv, NEW r \in Requests, RequestStep(r)
    PROVE  Inv'
<1>1. CASE RunHandler(r) \/ RunWebsocket(r) \/ RunNotFound(r)
  <2>1. req[r].pc = "handle" /\ UNCHANGED <<registryVars, listVars, onStatus>>
    BY <1>1 DEF RunHandler, RunWebsocket, RunNotFound
  <2>2. ListInv'
    BY <2>1 DEF Inv, ListInv, listVars
  <2>3. \/ req' = [req EXCEPT ![r].pc = "hooks", ![r].hijacked = TRUE, ![r].ran = Serves(r)]
        \/ Ran(r)
    BY <1>1 DEF RunHandler, RunWebsocket, RunNotFound
  <2> QED BY <2>1, <2>2, <2>3, RanInv DEF listVars
<1>2. CASE RunHoneypot(r)
  <2>1. req[r].pc = "handle" /\ Ran(r) /\ UNCHANGED <<registryVars, onStatus, whitelist>>
    BY <1>2 DEF RunHoneypot
  <2>2. trapped \subseteq trapped' /\ ListInv'
    BY <1>2 DEF RunHoneypot, Inv, ListInv
  <2> QED BY <2>1, <2>2, RanInv
<1>3. CASE Finish(r)
  BY <1>3, EndInv DEF Finish
<1> QED BY <1>1, <1>2, <1>3, CheckWhitelistInv, CheckBlacklistInv, RateLimitInv DEF RequestStep

-----------------------------------------------------------------------------
\* The routes change: in the current mux, or into a new one.  Requests see it.
LEMMA RoutesChange ==
    ASSUME Inv, NEW new \in Tables, routes' = new, Observe(new),
           muxes' \in [1..MaxMuxes -> Tables], mux' \in 1..MaxMuxes, mux <= mux',
           muxes'[mux'] = new,
           \A m \in 1..MaxMuxes : m # mux' => muxes'[m] = muxes[m],
           limits' \subseteq Patterns, limitedPatterns' \subseteq limits',
           mux' = mux => limits' = limits,
           UNCHANGED <<listVars, onStatus>>
    PROVE  Inv'
<1>1. \A r \in Requests : InFlight(r) =>
          /\ req[r] \in Flights /\ FlightOK(req[r])
          /\ req'[r] = [req[r] EXCEPT !.seen = @ \cup {HandlerFor(new, req[r].path)}]
  BY FlightFacts DEF Observe
<1>2. \A r \in Requests : ~InFlight(r) => req'[r] = req[r]
  BY DEF Observe
<1>3. \A r \in Requests : HandlerFor(new, req[r].path) \in Outcomes
  BY HandlerForType
<1>4. \A r \in Requests : InFlight(r) =>
          /\ req'[r] \in Flights /\ req'[r].seen = req[r].seen \cup {HandlerFor(new, req[r].path)}
          /\ req'[r].pc = req[r].pc /\ req'[r].mux = req[r].mux /\ req'[r].path = req[r].path
          /\ req'[r].ip = req[r].ip /\ req'[r].ran = req[r].ran /\ req'[r].doomed = req[r].doomed
          /\ req'[r].limited = req[r].limited
  <2> SUFFICES ASSUME NEW r \in Requests, InFlight(r)
               PROVE  /\ req'[r] \in Flights /\ req'[r].seen = req[r].seen \cup {HandlerFor(new, req[r].path)}
                      /\ req'[r].pc = req[r].pc /\ req'[r].mux = req[r].mux /\ req'[r].path = req[r].path
                      /\ req'[r].ip = req[r].ip /\ req'[r].ran = req[r].ran /\ req'[r].doomed = req[r].doomed
                      /\ req'[r].limited = req[r].limited
    OBVIOUS
  <2>1. PICK seen : seen = req[r].seen \cup {HandlerFor(new, req[r].path)}
    OBVIOUS
  <2>2. req[r] \in Flights /\ req'[r] = [req[r] EXCEPT !.seen = seen]
    BY <1>1, <2>1
  <2>3. seen \subseteq Outcomes
    BY <1>3, <2>1, <2>2 DEF Flights
  <2> QED BY <2>1, <2>2, <2>3 DEF Flights
<1>5. TypeInv'
  <2>1. \A r \in Requests : req'[r] \in Resting \cup Flights
    BY <1>2, <1>4 DEF Inv, TypeInv
  <2>2. req' = [r \in Requests |-> req'[r]]
    BY DEF Observe
  <2> QED BY <2>1, <2>2 DEF Inv, TypeInv
<1>6. TableInv'
  <2>1. ASSUME NEW m \in 1..MaxMuxes, m > mux' PROVE muxes'[m] = Empty
    <3>1. m > mux /\ m # mux'
      BY <2>1, PatternAssumption DEF Inv, TypeInv
    <3> QED BY <3>1 DEF Inv, TableInv
  <2> QED BY <2>1 DEF TableInv, Empty
<1>7. ListInv' /\ LimitInv'
  BY DEF Inv, ListInv, LimitInv, listVars
<1>8. ASSUME NEW r \in Requests, InFlight(r)' PROVE FlightOK(req[r])'
  <2>1. InFlight(r)
    BY <1>2, <1>8 DEF InFlight
  <2>2. FlightOK(req[r]) /\ req[r].mux \in 1..MaxMuxes
    BY <1>1, <2>1 DEF Flights
  <2>3. HandlerFor(muxes'[req[r].mux], req[r].path) \in req'[r].seen
    <3>1. CASE req[r].mux = mux'
      BY <3>1, <1>4, <2>1
    <3>2. CASE req[r].mux # mux'
      BY <3>2, <1>4, <2>1, <2>2 DEF FlightOK
    <3> QED BY <3>1, <3>2
  <2>4. req'[r].mux <= mux'
    BY <1>4, <2>1, <2>2 DEF FlightOK, Inv, TypeInv
  <2>5. req'[r].mux = mux' => req'[r].limited \subseteq limits'
    <3>1. SUFFICES ASSUME req[r].mux = mux' PROVE req[r].limited \subseteq limits'
      BY <1>4, <2>1
    <3>2. mux' = mux
      BY <2>2, <3>1 DEF FlightOK, Inv, TypeInv
    <3> QED BY <2>2, <3>1, <3>2 DEF FlightOK
  <2> QED BY <1>4, <2>1, <2>2, <2>3, <2>4, <2>5 DEF FlightOK, listVars
<1> QED BY <1>5, <1>6, <1>7, <1>8 DEF Inv, FlightInv

\* What Handle, Unregister and UnregisterAll do.
LEMMA HandleInv ==
    ASSUME Inv, NEW p \in Patterns, NEW kind \in Kinds, Handle(p, kind), UNCHANGED listVars
    PROVE  Inv'
<1>1. CASE WaitForEver \/ UNCHANGED <<registryVars, onStatus, lock, req>>
  BY <1>1, Untouched DEF WaitForEver, registryVars, listVars, proofVars
<1>2. CASE /\ muxes' = [muxes EXCEPT ![mux][p] = kind]
           /\ routes' = [routes EXCEPT ![p] = kind]
           /\ Observe(routes')
           /\ UNCHANGED <<mux, limits, limitedPatterns, onStatus>>
  <2>1. PICK new : new = [routes EXCEPT ![p] = kind]
    OBVIOUS
  <2>2. new \in Tables /\ routes' = new /\ Observe(new)
    BY <1>2, <2>1 DEF Inv, TypeInv, Tables
  <2>3. muxes' = [muxes EXCEPT ![mux] = new]
    BY <1>2, <2>1 DEF Inv, TypeInv, TableInv
  <2>4. muxes' \in [1..MaxMuxes -> Tables] /\ muxes'[mux'] = new
           /\ \A m \in 1..MaxMuxes : m # mux' => muxes'[m] = muxes[m]
    BY <1>2, <2>2, <2>3 DEF Inv, TypeInv
  <2>5. mux' \in 1..MaxMuxes /\ mux <= mux' /\ limits' \subseteq Patterns /\ limitedPatterns' \subseteq limits'
    BY <1>2 DEF Inv, TypeInv, LimitInv
  <2> QED BY <1>2, <2>2, <2>4, <2>5, RoutesChange
<1> QED BY <1>1, <1>2 DEF Handle

(* UnregisterHandler and its new mux (router.go:134-192) keep the invariant. *)
LEMMA UnregisterInv ==
    ASSUME Inv, NEW ps \in SUBSET Patterns, Unregister(ps), UNCHANGED listVars
    PROVE  Inv'
<1>1. CASE WaitForEver \/ UNCHANGED <<registryVars, onStatus, lock, req>>
  BY <1>1, Untouched DEF WaitForEver, registryVars, listVars, proofVars
<1>2. CASE /\ mux < MaxMuxes
           /\ routes' = [p \in Patterns |-> IF p \in ps THEN None ELSE routes[p]]
           /\ mux' = mux + 1
           /\ muxes' = [muxes EXCEPT ![mux + 1] = routes']
           /\ limits' = limits \ ps
           /\ limitedPatterns' = limitedPatterns \ ps
           /\ Observe(routes')
           /\ UNCHANGED onStatus
  <2>1. PICK new : new = [p \in Patterns |-> IF p \in ps THEN None ELSE routes[p]]
    OBVIOUS
  <2>2. new \in Tables /\ routes' = new /\ Observe(new)
    BY <1>2, <2>1 DEF Inv, TypeInv, Tables
  <2>3. /\ mux' \in 1..MaxMuxes /\ mux <= mux' /\ mux' # mux
        /\ limits' \subseteq Patterns /\ limitedPatterns' \subseteq limits'
    BY <1>2, PatternAssumption DEF Inv, TypeInv, LimitInv
  <2>4. muxes' \in [1..MaxMuxes -> Tables] /\ muxes'[mux'] = new
           /\ \A m \in 1..MaxMuxes : m # mux' => muxes'[m] = muxes[m]
    BY <1>2, <2>2, <2>3 DEF Inv, TypeInv
  <2> QED BY <1>2, <2>2, <2>3, <2>4, RoutesChange
<1> QED BY <1>1, <1>2 DEF Unregister

(* UnregisterAllHandler (router.go:160-170) keeps the invariant. *)
LEMMA UnregisterAllInv ==
    ASSUME Inv, UnregisterAll, UNCHANGED listVars
    PROVE  Inv'
<1>1. CASE WaitForEver
  BY <1>1, Untouched DEF WaitForEver, registryVars, listVars, proofVars
<1>2. CASE /\ mux < MaxMuxes
           /\ routes' = Empty
           /\ mux' = mux + 1
           /\ limits' = {} /\ limitedPatterns' = {}
           /\ Observe(Empty)
           /\ UNCHANGED <<muxes, onStatus>>
  <2>1. Empty \in Tables
    BY DEF Tables, Empty
  <2>2. mux' \in 1..MaxMuxes /\ mux <= mux' /\ mux' # mux
    BY <1>2, PatternAssumption DEF Inv, TypeInv
  <2>3. muxes'[mux'] = Empty
    BY <1>2, <2>2 DEF Inv, TypeInv, TableInv
  <2>4. muxes' \in [1..MaxMuxes -> Tables] /\ \A m \in 1..MaxMuxes : m # mux' => muxes'[m] = muxes[m]
    BY <1>2 DEF Inv, TypeInv
  <2> QED BY <1>2, <2>1, <2>2, <2>3, <2>4, RoutesChange
<1> QED BY <1>1, <1>2 DEF UnregisterAll, Empty

-----------------------------------------------------------------------------
\* A list is replaced or filled: no request is held to the old ones.
LEMMA ListsChange ==
    ASSUME Inv, Absolve, ListInv', UNCHANGED <<registryVars, onStatus>>
    PROVE  Inv'
<1>1. \A r \in Requests : InFlight(r) =>
          req[r] \in Flights /\ FlightOK(req[r]) /\ req'[r] = [req[r] EXCEPT !.doomed = FALSE]
  BY FlightFacts DEF Absolve
<1>2. \A r \in Requests : ~InFlight(r) => req'[r] = req[r]
  BY DEF Absolve
<1>3. ASSUME NEW r \in Requests, InFlight(r)
      PROVE  /\ req'[r] \in Flights /\ req'[r].seen = req[r].seen /\ req'[r].doomed = FALSE
             /\ req'[r].mux = req[r].mux /\ req'[r].path = req[r].path /\ req'[r].ran = req[r].ran
             /\ req'[r].limited = req[r].limited
  <2>1. req[r] \in Flights /\ req'[r] = [req[r] EXCEPT !.doomed = FALSE]
    BY <1>1, <1>3
  <2>2. \A f \in BOOLEAN : [req[r] EXCEPT !.doomed = f] \in Flights
    BY <2>1 DEF Flights
  <2>3. FALSE \in BOOLEAN
    OBVIOUS
  <2>4. req'[r] \in Flights
    BY <2>1, <2>2, <2>3, Zenon
  <2>5. /\ req'[r].seen = req[r].seen /\ req'[r].doomed = FALSE
        /\ req'[r].mux = req[r].mux /\ req'[r].path = req[r].path /\ req'[r].ran = req[r].ran
        /\ req'[r].limited = req[r].limited
    BY <2>1 DEF Flights
  <2> QED BY <2>4, <2>5
<1>4. TypeInv'
  <2>1. \A r \in Requests : req'[r] \in Resting \cup Flights
    BY <1>2, <1>3 DEF Inv, TypeInv
  <2>2. req' = [r \in Requests |-> req'[r]]
    BY DEF Absolve
  <2> QED BY <2>1, <2>2 DEF Inv, TypeInv, registryVars
<1>5. TableInv' /\ LimitInv'
  BY DEF Inv, TableInv, LimitInv, Empty, registryVars
<1>6. ASSUME NEW r \in Requests, InFlight(r)' PROVE FlightOK(req[r])'
  <2>1. InFlight(r)
    BY <1>2, <1>6 DEF InFlight
  <2>2. FlightOK(req[r])
    BY <1>1, <2>1
  <2> QED BY <1>3, <2>1, <2>2 DEF FlightOK, registryVars
<1> QED BY <1>4, <1>5, <1>6 DEF Inv, FlightInv

(* SetWhitelist and SetBlacklist (web.go:775-804) empty a list to fill it. *)
LEMMA SetListInv ==
    ASSUME Inv, NEW which \in {"white", "black"}, NEW ips \in SUBSET IPs, SetList(which, ips)
    PROVE  Inv'
<1>1. ListInv'
  BY DEF SetList, ListInv
<1> QED BY <1>1, ListsChange DEF SetList

(* setWhitelist and setBlacklist (router.go:353-375) add an address. *)
LEMMA FillListInv ==
    ASSUME Inv, FillList
    PROVE  Inv'
<1>1. PICK ip \in filling.rest :
         /\ IF filling.list = "white"
              THEN whitelist' = whitelist \cup {ip} /\ UNCHANGED blacklist
              ELSE blacklist' = blacklist \cup {ip} /\ UNCHANGED whitelist
         /\ trapped' = IF filling.list = "white" THEN trapped \ {ip} ELSE trapped
  BY DEF FillList
<1>2. ListInv'
  <2>1. CASE filling.list = "white"
    BY <1>1, <2>1 DEF Inv, ListInv
  <2>2. CASE filling.list # "white"
    BY <1>1, <2>2 DEF Inv, ListInv
  <2> QED BY <2>1, <2>2
<1> QED BY <1>2, ListsChange DEF FillList

\* The configuration calls.
LEMMA ConfigureInv ==
    ASSUME Inv, Configure
    PROVE  Inv'
<1>1. CASE Refuse
  BY <1>1, Untouched DEF Refuse, routerVars, registryVars, listVars, proofVars
<1>2. ASSUME NEW p \in Patterns, WithHandler(p) \/ WithWebsocket(p) \/ WithHoneypot(p)
      PROVE  Inv'
  BY <1>1, <1>2, HandleInv DEF WithHandler, WithWebsocket, WithHoneypot, Kinds
<1>3. ASSUME NEW ps \in SUBSET Patterns, UnregisterHandler(ps) PROVE Inv'
  BY <1>3, UnregisterInv DEF UnregisterHandler
<1>4. CASE UnregisterAllHandler
  BY <1>4, UnregisterAllInv DEF UnregisterAllHandler
<1>5. ASSUME NEW p \in Patterns, WithRateLimit(p) PROVE Inv'
  <2>1. CASE WaitForEver /\ UNCHANGED listVars
    BY <2>1, Untouched DEF WaitForEver, registryVars, listVars, proofVars
  <2>2. CASE /\ limits' = limits \cup {p} /\ limitedPatterns' = limitedPatterns \cup {p}
             /\ UNCHANGED <<routes, muxes, mux, onStatus, req, listVars>>
    BY <2>2 DEF Inv, TypeInv, TableInv, ListInv, LimitInv, FlightInv, FlightOK, InFlight, listVars
  <2> QED BY <1>1, <1>5, <2>1, <2>2 DEF WithRateLimit, RegisterRateLimit
<1>6. ASSUME NEW p \in Patterns, NEW code \in Hooked, WithOnHTTPCode(p, code) PROVE Inv'
  <2>1. CASE WaitForEver /\ UNCHANGED listVars
    BY <2>1, Untouched DEF WaitForEver, registryVars, listVars, proofVars
  <2>2. CASE onStatus' = onStatus \cup {<<p, code>>} /\ UNCHANGED <<registryVars, req, listVars>>
    BY <2>2 DEF Inv, TypeInv, TableInv, ListInv, LimitInv, FlightInv, FlightOK, InFlight, listVars, registryVars
  <2> QED BY <1>1, <1>6, <2>1, <2>2 DEF WithOnHTTPCode, OnStatus
<1>7. CASE WithTLS \/ WithRedirectToHTTPS
  BY <1>1, <1>7, Untouched DEF WithTLS, WithRedirectToHTTPS, routerVars, registryVars, listVars, proofVars
<1> QED BY <1>2, <1>3, <1>4, <1>5, <1>6, <1>7, SetListInv DEF Configure

(* Every step of requests, configuration and shutdown keeps the invariant. *)
LEMMA NextInv == Inv /\ [Next]_vars => Inv'
<1> SUFFICES ASSUME Inv, [Next]_vars PROVE Inv'
  OBVIOUS
<1>1. CASE FillDone \/ Stop \/ EndShutdown \/ ShutdownTimesOut
            \/ \E op \in {"shutdown", "restart"} : BeginShutdown(op)
  <2>1. UNCHANGED routerVars
    BY <1>1 DEF FillDone, Stop, EndShutdown, ShutdownTimesOut, BeginShutdown
  <2> QED BY <2>1, Untouched DEF routerVars, registryVars, listVars, proofVars
<1>2. ASSUME NEW g \in Starters, StartAsync(g) \/ StartStep(g) PROVE Inv'
  <2>1. UNCHANGED routerVars
    BY <1>2 DEF StartAsync, StartStep, StartCreates, StartTakes, Listen, ListenReturns, StartReturns, Report
  <2> QED BY <2>1, Untouched DEF routerVars, registryVars, listVars, proofVars
<1>3. ASSUME NEW r \in Requests, Request(r) \/ Serve(r) PROVE Inv'
  BY <1>3, ArriveInv, RequestStepInv DEF Request, Serve
<1>4. CASE UNCHANGED vars
  BY <1>4, Untouched DEF vars, routerVars, registryVars, listVars, proofVars
<1> QED BY <1>1, <1>2, <1>3, <1>4, ConfigureInv, FillListInv DEF Next

\* The inductive invariant holds in every state of the server.
LEMMA Invariance == Spec => []Inv
BY InitInv, NextInv, PTL DEF Spec

\* Whatever is registered and unregistered while a request is in flight, and
\* however many muxes that makes, the request is served by what was registered
\* for its path at some moment since it came.
THEOREM RequestsServedAsRegistered == Spec => []ServedAsRegistered
<1>1. Inv => ServedAsRegistered
  BY DEF Inv, FlightInv, FlightOK, ServedAsRegistered
<1> QED BY <1>1, Invariance, PTL

\* A request that comes after the honeypot caught its address reaches no
\* handler, until a list is replaced.
THEOREM TrappedAddressesStayOut == Spec => []TrappedStayOut
<1>1. Inv => TrappedStayOut
  BY DEF Inv, FlightInv, FlightOK, TrappedStayOut
<1> QED BY <1>1, Invariance, PTL

\* The rate limit of a request whose mux is the current one finds its limitStore.
LEMMA CurrentLimits ==
    ASSUME Inv, NEW r \in Requests, RateLimit(r), req'[r].pc = "panicked"
    PROVE  req[r].mux # mux
<1>1. req[r].pc = "limit" /\ InFlight(r)
  BY DEF RateLimit, InFlight
<1>2. req[r] \in Flights /\ FlightOK(req[r])
  BY <1>1, FlightFacts
<1>3. MatchPattern(req[r].path, req[r].limited) \in req[r].limited \ limits
  <2>1. req' # [req EXCEPT ![r].pc = "handle", ![r].limited = {}]
    <3>1. SUFFICES ASSUME req' = [req EXCEPT ![r].pc = "handle", ![r].limited = {}] PROVE FALSE
      OBVIOUS
    <3>2. req'[r] = [req[r] EXCEPT !.pc = "handle", !.limited = {}]
      BY <3>1 DEF Inv, TypeInv
    <3>3. req'[r].pc = "handle"
      BY <1>2, <3>2 DEF Flights
    <3> QED BY <3>3
  <2>2. /\ MatchPattern(req[r].path, req[r].limited) # None
        /\ MatchPattern(req[r].path, req[r].limited) \notin limits
    BY <2>1 DEF RateLimit
  <2> QED BY <2>2 DEF MatchPattern
<1> QED BY <1>2, <1>3 DEF FlightOK

\* Only RateLimit ends a request in a panic.
LEMMA PanicsInRateLimit ==
    ASSUME Inv, Next, NEW r \in Requests, InFlight(r), req'[r].pc = "panicked"
    PROVE  RateLimit(r)
<1>1. req' # req
  BY DEF InFlight
<1>2. req \in [Requests -> Resting \cup Flights] /\ req[r] \in Flights
  BY FlightFacts DEF Inv, TypeInv
<1>4. CASE Configure \/ FillList
  <2>1. \A new : ~Observe(new)
    <3>1. ASSUME NEW new, Observe(new) PROVE FALSE
      <4>1. req'[r] = [req[r] EXCEPT !.seen = @ \cup {HandlerFor(new, req[r].path)}]
        BY <3>1 DEF Observe
      <4> QED BY <1>2, <4>1 DEF Flights, InFlight
    <3> QED BY <3>1
  <2>2. ~Absolve
    <3>1. SUFFICES ASSUME Absolve PROVE FALSE
      OBVIOUS
    <3>2. req'[r] = [req[r] EXCEPT !.doomed = FALSE]
      BY <3>1 DEF Absolve
    <3> QED BY <1>2, <3>2 DEF Flights, InFlight
  <2>3. ~FillList /\ \A which, ips : ~SetList(which, ips)
    BY <2>2 DEF FillList, SetList
  <2>4. ~Refuse /\ ~WithTLS /\ ~WithRedirectToHTTPS /\ ~WaitForEver
    BY <1>1 DEF Refuse, WithTLS, WithRedirectToHTTPS, WaitForEver, routerVars
  <2>5. \A p, kind : ~Handle(p, kind)
    BY <1>1, <2>1, <2>4 DEF Handle
  <2>6. (\A ps : ~Unregister(ps)) /\ ~UnregisterAll
    BY <1>1, <2>1, <2>4 DEF Unregister, UnregisterAll
  <2>7. \A p, code : ~RegisterRateLimit(p) /\ ~OnStatus(p, code)
    BY <1>1, <2>4 DEF RegisterRateLimit, OnStatus
  <2> QED BY <1>4, <2>3, <2>4, <2>5, <2>6, <2>7
         DEF Configure, WithHandler, WithWebsocket, WithHoneypot, UnregisterHandler,
             UnregisterAllHandler, WithRateLimit, WithOnHTTPCode
<1>5. CASE UNCHANGED req
  BY <1>1, <1>5
<1>6. ASSUME NEW q \in Requests, Request(q) PROVE FALSE
  <2>1. PICK n \in ServerIds, path \in Paths, ip \in IPs \cup {Invalid} : Arrive(q, n, path, ip)
    BY <1>6 DEF Request
  <2>2. req[q].pc = "idle"
    BY <2>1 DEF Arrive, Idle
  <2>3. r # q
    BY <2>2 DEF InFlight
  <2>4. req'[r] = req[r]
    BY <1>2, <2>1, <2>3 DEF Arrive
  <2> QED BY <2>4 DEF InFlight
<1>7. ASSUME NEW q \in Requests, Serve(q) PROVE RateLimit(r)
  <2>1. RequestStep(q)
    BY <1>7 DEF Serve
  <2>2. CASE RateLimit(q)
    <3>1. r = q
      BY <1>2, <2>2 DEF RateLimit, End, InFlight
    <3> QED BY <2>2, <3>1
  <2>3. CASE \E pc \in {"black", "limit", "hooks"} : Goto(q, pc)
    BY <1>2, <2>3 DEF Goto, InFlight
  <2>4. CASE \/ Ran(q)
             \/ req' = [req EXCEPT ![q].pc = "hooks", ![q].hijacked = TRUE, ![q].ran = Serves(q)]
    <3>1. CASE r # q
      <4>1. req'[r] = req[r]
        BY <1>2, <2>4, <3>1 DEF Ran
      <4> QED BY <4>1 DEF InFlight
    <3>2. CASE r = q
      <4>1. \/ req'[r] = [req[r] EXCEPT !.pc = "hooks", !.ran = Serves(r)]
            \/ req'[r] = [req[r] EXCEPT !.pc = "hooks", !.hijacked = TRUE, !.ran = Serves(r)]
        BY <1>2, <2>4, <3>2 DEF Ran
      <4>2. req'[r].pc = "hooks"
        BY <1>2, <4>1 DEF Flights
      <4> QED BY <4>2
    <3> QED BY <3>1, <3>2
  <2>5. CASE End(q, "done")
    BY <1>2, <2>5 DEF End, InFlight
  <2> QED BY <2>1, <2>2, <2>3, <2>4, <2>5
         DEF RequestStep, CheckWhitelist, CheckBlacklist, RunHandler, RunWebsocket,
             RunNotFound, RunHoneypot, Finish
<1>8. CASE FillDone \/ Stop \/ EndShutdown \/ ShutdownTimesOut
            \/ \E op \in {"shutdown", "restart"} : BeginShutdown(op)
  BY <1>5, <1>8 DEF FillDone, Stop, EndShutdown, ShutdownTimesOut, BeginShutdown, routerVars
<1>9. ASSUME NEW g \in Starters, StartAsync(g) \/ StartStep(g) PROVE FALSE
  <2>1. UNCHANGED routerVars
    BY <1>9 DEF StartAsync, StartStep, StartCreates, StartTakes, Listen, ListenReturns, StartReturns, Report
  <2> QED BY <1>1, <2>1 DEF routerVars
<1> QED BY <1>4, <1>6, <1>7, <1>8, <1>9 DEF Next

\* A request panics at its rate limit only if handlers were unregistered since
\* its snapshot: whatever was registered, limited and unregistered before, the
\* two tables of rate limits agree and the limits of a snapshot stay.
THEOREM PanicsNeedUnregistration == Spec => OnlyOvertakenRequestsPanic
<1>1. Inv /\ [Next]_vars =>
        [\A r \in Requests : InFlight(r) /\ req'[r].pc = "panicked" => req[r].mux # mux]_vars
  BY PanicsInRateLimit, CurrentLimits
<1> QED BY <1>1, Invariance, PTL DEF Spec, OnlyOvertakenRequestsPanic
=============================================================================
