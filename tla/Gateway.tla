------------------------------ MODULE Gateway ------------------------------
(* The public boundary of search: the edge worker that passes requests to  *)
(* one of several containers (deploy/cloudflare-search/src/index.ts), and  *)
(* the middleware of the API in each (api/app.py) with its rate limiter.   *)
(* A container sleeps when it has been idle, may die, and forgets its      *)
(* counts with that; the worker starts it again for the next request.      *)
(*                                                                         *)
(* Abstractions. Time passes in ticks and is kept as ages, never above     *)
(* what a comparison needs. Which status an answer has is left out, and so *)
(* is what the edge refuses itself or answers without a container: pages,  *)
(* media, the assistant. ImageSearch has what a search does inside.        *)
EXTENDS Naturals, Sequences, FiniteSets

CONSTANTS
  Shard,      \* containers
  Call,       \* requests in flight at once
  Caller,     \* limiter keys in use: <<route, client address>>
  HomeOf,     \* the shard the hash of each client's address chooses
  Quota,      \* rate_limit_requests, feedback_rate_limit_requests: by route
  Window,     \* rate_limit_window_seconds, in ticks
  IdleStop,   \* sleepAfter, in ticks
  MaxDeaths   \* bound: containers that die

Client == {k[2] : k \in Caller}
Route == {k[1] : k \in Caller}

\* A container idles for longer than the limiter's window before it sleeps.
ASSUME GatewayAssumption ==
  /\ Route \subseteq {"search", "feedback", "visit"}
  /\ HomeOf \in [Client -> Shard] /\ Quota \in [Route -> Nat \ {0}]
  /\ Window \in Nat \ {0} /\ IdleStop \in Nat /\ IdleStop >= Window /\ MaxDeaths \in Nat

VARIABLES
  container,  \* state and idle time
  held,       \* ages of the admissions its limiters hold, by container and key
  call,       \* what each request in flight is waiting for
  admitted,   \* history: ages of all admissions of a key within the window
  sinceDeath, \* history: time since each container died, up to the window
  deaths      \* containers that died

gatewayVars == <<container, held, call, admitted, sinceDeath, deaths>>

Container(state) == [state |-> state, idle |-> 0]
Forgotten(s) == [held EXCEPT ![s] = [k \in Caller |-> <<>>]]
Done == [at |-> "answered"]

GatewayInit ==
  /\ container = [s \in Shard |-> Container("stopped")]
  /\ held = [s \in Shard |-> [k \in Caller |-> <<>>]]
  /\ call = [c \in Call |-> Done]
  /\ admitted = [k \in Caller |-> <<>>]
  /\ sinceDeath = [s \in Shard |-> Window] /\ deaths = 0

IsAt(c, p) == call[c].at = p

-----------------------------------------------------------------------------
(* The edge worker.                                                        *)

\* Mutant: any container with room takes a request.
AnyShard(client) == Shard
\* containerShard: a hash of the address.
ShardsFor(client) == {HomeOf[client]}

\* fetch, for a request that the edge's own limiters let through, whose type
\* and declared length are right, when no secret is missing.
PassOn(c) ==
  /\ IsAt(c, "answered")
  /\ \E k \in Caller : \E s \in ShardsFor(k[2]) :
       call' = [call EXCEPT ![c] = [at |-> "waking", key |-> k, shard |-> s]]
  /\ UNCHANGED <<container, held, admitted, sinceDeath, deaths>>

\* container.startAndWaitForPorts
Wake(c) ==
  /\ IsAt(c, "waking") /\ container[call[c].shard].state = "stopped"
  /\ container' = [container EXCEPT ![call[c].shard] = Container("starting")]
  /\ UNCHANGED <<held, call, admitted, sinceDeath, deaths>>

\* It timed out or the start failed: unavailable, Retry-After 15.
WakeFails(c) ==
  /\ IsAt(c, "waking") /\ container[call[c].shard].state # "healthy"
  /\ call' = [call EXCEPT ![c] = Done]
  /\ UNCHANGED <<container, held, admitted, sinceDeath, deaths>>

-----------------------------------------------------------------------------
(* The API in a container.                                                 *)

\* lifespan: the port opens once the search service is built.
StartContainer(s) ==
  /\ container[s].state = "starting"
  /\ container' = [container EXCEPT ![s].state = "healthy"]
  /\ UNCHANGED <<held, call, admitted, sinceDeath, deaths>>

ContainerFails(s) ==
  /\ container[s].state = "starting"
  /\ container' = [container EXCEPT ![s] = Container("stopped")]
  /\ UNCHANGED <<held, call, admitted, sinceDeath, deaths>>

\* FixedWindowRateLimiter.check: what has left the window is dropped first, from
\* the left as long as it has.
Expired(events) == CHOOSE n \in 0 .. Len(events) :
  (\A i \in 1 .. n : events[i] >= Window) /\ (n < Len(events) => events[n + 1] < Window)
Fresh(events) == SubSeq(events, Expired(events) + 1, Len(events))
Full(events, route) == Len(events) >= Quota[route]

\* public_boundary. The limit comes first: what is refused for its size counts.
Enter(c) ==
  /\ IsAt(c, "waking") /\ container[call[c].shard].state = "healthy"
  /\ LET s == call[c].shard
         k == call[c].key
         events == Fresh(held[s][k])
         refused == Full(events, k[1])
     IN  /\ container' = [container EXCEPT ![s].idle = 0]
         /\ held' = [held EXCEPT ![s][k] = IF refused THEN events ELSE Append(events, 0)]
         /\ admitted' = IF refused THEN admitted ELSE [admitted EXCEPT ![k] = Append(@, 0)]
         /\ call' = [call EXCEPT ![c] = IF refused THEN Done ELSE [@ EXCEPT !.at = "inside"]]
  /\ UNCHANGED <<sinceDeath, deaths>>

\* search_by_image, result_feedback and site_visit: answered with any status.
Handle(c) ==
  /\ IsAt(c, "inside")
  /\ call' = [call EXCEPT ![c] = Done]
  /\ container' = [container EXCEPT ![call[c].shard].idle = 0]
  /\ UNCHANGED <<held, admitted, sinceDeath, deaths>>

Busy(s) == \E c \in Call : IsAt(c, "inside") /\ call[c].shard = s

\* sleepAfter
Sleep(s) ==
  /\ container[s].state = "healthy" /\ container[s].idle = IdleStop /\ ~Busy(s)
  /\ container' = [container EXCEPT ![s] = Container("stopped")]
  /\ held' = Forgotten(s)
  /\ UNCHANGED <<call, admitted, sinceDeath, deaths>>

\* A crash or a roll-out; the worker answers 503 for the requests inside.
ContainerDies(s) ==
  /\ container[s].state = "healthy" /\ deaths < MaxDeaths /\ deaths' = deaths + 1
  /\ container' = [container EXCEPT ![s] = Container("stopped")]
  /\ held' = Forgotten(s)
  /\ sinceDeath' = [sinceDeath EXCEPT ![s] = 0]
  /\ call' = [c \in Call |-> IF IsAt(c, "inside") /\ call[c].shard = s THEN Done ELSE call[c]]
  /\ UNCHANGED admitted

-----------------------------------------------------------------------------
Older(age, cap) == IF age < cap THEN age + 1 ELSE age
Aged(events) == [i \in DOMAIN events |-> Older(events[i], Window)]

Tick ==
  /\ container' = [s \in Shard |-> [container[s] EXCEPT
       !.idle = IF container[s].state = "healthy" /\ ~Busy(s) THEN Older(@, IdleStop) ELSE 0]]
  /\ held' = [s \in Shard |-> [k \in Caller |-> Aged(held[s][k])]]
  /\ admitted' = [k \in Caller |-> Fresh(Aged(admitted[k]))]
  /\ sinceDeath' = [s \in Shard |-> Older(sinceDeath[s], Window)]
  /\ UNCHANGED <<call, deaths>>

GatewayNext ==
  \/ Tick
  \/ \E c \in Call : PassOn(c) \/ Wake(c) \/ WakeFails(c) \/ Enter(c) \/ Handle(c)
  \/ \E s \in Shard : StartContainer(s) \/ ContainerFails(s) \/ Sleep(s) \/ ContainerDies(s)

GatewaySpec == GatewayInit /\ [][GatewayNext]_gatewayVars

-----------------------------------------------------------------------------
(* Properties.                                                             *)

GatewayTypeOK ==
  /\ \A s \in Shard : container[s].state \in {"stopped", "starting", "healthy"}
                      /\ container[s].idle \in 0 .. IdleStop
  /\ \A c \in Call : call[c].at \in {"answered", "waking", "inside"}
  /\ sinceDeath \in [Shard -> 0 .. Window] /\ deaths \in 0 .. MaxDeaths

\* No client gets more of a route through, over all containers and their
\* sleeps, than the API's limit for one window: its requests meet one count,
\* and the count is only forgotten when nothing in it matters. A container
\* that died within the window forgot what did.
WindowLimitHolds ==
  \A k \in Caller :
    Len(admitted[k]) <= Quota[k[1]] \/ sinceDeath[HomeOf[k[2]]] < Window
=============================================================================
