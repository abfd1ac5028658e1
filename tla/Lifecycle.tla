------------------------------- MODULE Lifecycle -------------------------------
(***************************************************************************)
(* The life of a process of the service (cmd/service/main.go), from its    *)
(* environment (config.go) to its exit status: copies of the program that  *)
(* are started, get signals, are killed, and the HTTP requests they serve. *)
(*                                                                         *)
(* Two goroutines run main: the one of function main, at pc[p], and the    *)
(* one that listens, at srv[p].  Of net/http there is what main relies on: *)
(* ListenAndServe, Shutdown and the timeouts of newHTTPServer.  The time   *)
(* unit is 5 s.  A call of PostgreSQL may take for ever.                   *)
(***************************************************************************)
EXTENDS Integers

CONSTANTS Copy,              \* processes, on one host, with one HTTP_PORT
          NoCopy,
          Request,           \* HTTP requests
          Environment,       \* the environments a copy may be given
          ReadHeaderTimeout, \* of http.Server
          WriteTimeout,      \* of http.Server
          ShutdownTimeout    \* of the context that main gives to Shutdown

ASSUME NoCopyAssumption == NoCopy \notin Copy
ASSUME EnvironmentAssumption ==
    Environment \subseteq [seed   : {"unset", "true", "false", "junk"},
                           url    : {"unset", "set", "empty", "junk"},
                           secret : {"unset", "set", "empty"}]
ASSUME TimeoutAssumption ==
    /\ ReadHeaderTimeout \in Nat /\ WriteTimeout \in Nat /\ ShutdownTimeout \in Nat
    /\ WriteTimeout <= ShutdownTimeout

VARIABLES
    env,       \* env[p]: what os.LookupEnv says in p
    pc,        \* pc[p]: where function main is, or how p has ended
    srv,       \* srv[p]: where the goroutine of the server is
    signalled, \* signalled[p]: p has got SIGINT or SIGTERM
    pool,      \* pool[p]: p's connection pool
    grace,     \* grace[p]: what is left of ShutdownTimeout
    schema,    \* the database has every migration
    at,        \* at[r]: where request r is
    home,      \* home[r]: the copy that r has been sent to
    timer,     \* timer[r]: what is left to read r's headers, or to write its answer
    early      \* history: the requests whose headers were read before Shutdown

process == <<pc, srv, signalled, pool, grace>>
requests == <<at, home, timer, early>>
vars == <<env, process, schema, requests>>

Gone == {"exit0", "exit1", "killed"}
Alive(p) == pc[p] \notin Gone \cup {"down"}
Shutting(p) == pc[p] \in {"drain", "close"}
Listening(p) == srv[p] = "listening"
Of(p) == {r \in Request : home[r] = p}

Init ==
    /\ env \in [Copy -> Environment]
    /\ pc = [p \in Copy |-> "down"]
    /\ srv = [p \in Copy |-> "none"]
    /\ signalled = [p \in Copy |-> FALSE]
    /\ pool = [p \in Copy |-> "none"]
    /\ grace = [p \in Copy |-> 0]
    /\ schema = FALSE
    /\ at = [r \in Request |-> "idle"]
    /\ home = [r \in Request |-> NoCopy]
    /\ timer = [r \in Request |-> 0]
    /\ early = {}
-----------------------------------------------------------------------------
Goto(p, l) == pc' = [pc EXCEPT ![p] = l]

(* Connections of p are closed: the requests of lost, which nobody has     *)
(* read, and those of cut, whose handlers run.                             *)
Disconnect(lost, cut) ==
    /\ at' = [r \in Request |-> IF r \in lost THEN "lost" ELSE IF r \in cut THEN "cut" ELSE at[r]]
    /\ timer' = [r \in Request |-> IF r \in lost \cup cut THEN 0 ELSE timer[r]]

Unread(p) == {r \in Of(p) : at[r] \in {"sent", "kept"}}
Handled(p) == {r \in Of(p) : at[r] = "handling"}

(* The process ends, and with it all it has.                               *)
Ends(p, how) ==
    /\ Goto(p, how)
    /\ srv' = [srv EXCEPT ![p] = "closed"]
    /\ pool' = [pool EXCEPT ![p] = "closed"]
    /\ grace' = [grace EXCEPT ![p] = 0]
    /\ Disconnect(Unread(p), Handled(p))
    /\ UNCHANGED <<env, schema, home, early>>

Exits(p) == Ends(p, "exit1") /\ UNCHANGED signalled
-----------------------------------------------------------------------------
(* Function main up to the server.                                         *)
Boot(p) ==
    /\ pc[p] = "down"
    /\ Goto(p, "load")
    /\ UNCHANGED <<env, srv, signalled, pool, grace, schema, requests>>

(* config.Load: an unset URL has a default, an empty one is an error; so   *)
(* is a secret that is unset or empty, or a seed flag that is no Boolean.  *)
Loadable(e) == e.seed # "junk" /\ e.url # "empty" /\ e.secret = "set"

Load(p) ==
    /\ pc[p] = "load"
    /\ IF Loadable(env[p])
       THEN Goto(p, "open") /\ UNCHANGED <<env, srv, signalled, pool, grace, schema, requests>>
       ELSE Exits(p)

(* postgres.Open, which gives the ping 5 s.                                *)
Open(p) ==
    /\ pc[p] = "open"
    /\ \/ /\ env[p].url # "junk"
          /\ Goto(p, "migrate")
          /\ pool' = [pool EXCEPT ![p] = "open"]
          /\ UNCHANGED <<env, srv, signalled, grace, schema, requests>>
       \/ Exits(p)

Migrate(p) ==
    /\ pc[p] = "migrate"
    /\ \/ /\ schema' = TRUE
          /\ Goto(p, IF env[p].seed = "true" THEN "seed" ELSE "spawn")
          /\ UNCHANGED <<env, srv, signalled, pool, grace, requests>>
       \/ Exits(p)

Seed(p) ==
    /\ pc[p] = "seed"
    /\ \/ Goto(p, "spawn") /\ UNCHANGED <<env, srv, signalled, pool, grace, schema, requests>>
       \/ Exits(p)

Spawn(p) ==
    /\ pc[p] = "spawn"
    /\ srv' = [srv EXCEPT ![p] = "starting"]
    /\ Goto(p, "notify")
    /\ UNCHANGED <<env, signalled, pool, grace, schema, requests>>

(* signal.NotifyContext                                                    *)
Notify(p) ==
    /\ pc[p] = "notify"
    /\ Goto(p, "wait")
    /\ UNCHANGED <<env, srv, signalled, pool, grace, schema, requests>>
-----------------------------------------------------------------------------
(* The goroutine of the server: ListenAndServe looks whether Shutdown has  *)
(* been called, listens, and looks again.  Its other errors end the process.*)
Begin(p) ==
    /\ srv[p] = "starting"
    /\ srv' = [srv EXCEPT ![p] = IF Shutting(p) THEN "closed" ELSE "binding"]
    /\ UNCHANGED <<env, pc, signalled, pool, grace, schema, requests>>

Bind(p) ==
    /\ srv[p] = "binding"
    /\ \A q \in Copy : ~Listening(q)
    /\ srv' = [srv EXCEPT ![p] = IF Shutting(p) THEN "closed" ELSE "listening"]
    /\ UNCHANGED <<env, pc, signalled, pool, grace, schema, requests>>

BindFailsLogged(p) ==
    /\ srv[p] = "binding"
    /\ srv' = [srv EXCEPT ![p] = "none"]
    /\ UNCHANGED <<env, pc, signalled, pool, grace, schema, requests>>

BindFails(p) == srv[p] = "binding" /\ Exits(p)

ServeFails(p) == Listening(p) /\ Exits(p)
-----------------------------------------------------------------------------
(* A first SIGINT or SIGTERM: it kills the process unless NotifyContext    *)
(* has been called.  Later ones are ignored: main does not call stop.      *)
SignalAlwaysCaught(p) ==
    /\ Alive(p) /\ ~signalled[p]
    /\ signalled' = [signalled EXCEPT ![p] = TRUE]
    /\ UNCHANGED <<env, pc, srv, pool, grace, schema, requests>>

Signal(p) ==
    /\ Alive(p) /\ ~signalled[p]
    /\ signalled' = [signalled EXCEPT ![p] = TRUE]
    /\ IF pc[p] = "wait" THEN UNCHANGED <<env, pc, srv, pool, grace, schema, requests>>
                         ELSE Ends(p, "killed")

(* Shutdown closes the listener, with what has not been accepted, and the  *)
(* connections that are idle.                                              *)
StartDrainHalfTime(p) ==
    /\ pc[p] = "wait" /\ signalled[p]
    /\ Goto(p, "drain")
    /\ grace' = [grace EXCEPT ![p] = ShutdownTimeout - 1]
    /\ srv' = [srv EXCEPT ![p] = IF @ = "listening" THEN "closed" ELSE @]
    /\ UNCHANGED <<env, signalled, pool, schema, requests>>

StartDrain(p) ==
    /\ pc[p] = "wait" /\ signalled[p]
    /\ Goto(p, "drain")
    /\ grace' = [grace EXCEPT ![p] = ShutdownTimeout]
    /\ srv' = [srv EXCEPT ![p] = IF @ = "listening" THEN "closed" ELSE @]
    /\ \E backlog \in SUBSET {r \in Of(p) : at[r] = "sent"} :
          Disconnect(backlog \cup {r \in Of(p) : at[r] = "kept"}, {})
    /\ UNCHANGED <<env, signalled, pool, schema, home, early>>

(* It waits for handlers, and for new connections that may still send      *)
(* their headers; then main returns, and its deferred calls come.          *)
Quiescent(p) == \A r \in Of(p) : at[r] # "handling" /\ (at[r] = "sent" => timer[r] = 0)

DrainedByClose(p) ==
    /\ pc[p] = "drain"
    /\ Goto(p, "close")
    /\ pool' = [pool EXCEPT ![p] = "closing"]
    /\ grace' = [grace EXCEPT ![p] = 0]
    /\ Disconnect(Unread(p), Handled(p))
    /\ UNCHANGED <<env, srv, signalled, schema, home, early>>

Drained(p) ==
    /\ pc[p] = "drain" /\ Quiescent(p)
    /\ Goto(p, "close")
    /\ pool' = [pool EXCEPT ![p] = "closing"]
    /\ grace' = [grace EXCEPT ![p] = 0]
    /\ Disconnect(Unread(p), {})
    /\ UNCHANGED <<env, srv, signalled, schema, home, early>>

DrainTimesOutReturning(p) ==
    /\ pc[p] = "drain" /\ grace[p] = 0
    /\ Goto(p, "close")
    /\ pool' = [pool EXCEPT ![p] = "closing"]
    /\ UNCHANGED <<env, srv, signalled, grace, schema, requests>>

DrainTimesOut(p) == pc[p] = "drain" /\ grace[p] = 0 /\ Exits(p)

(* db.Close waits until no handler holds a connection.                     *)
ClosePool(p) ==
    /\ pc[p] = "close" /\ Handled(p) = {}
    /\ Ends(p, "exit0")
    /\ UNCHANGED signalled

(* SIGKILL, or a crash.                                                    *)
Kill(p) == Alive(p) /\ Ends(p, "killed") /\ UNCHANGED signalled
-----------------------------------------------------------------------------
(* Requests: on a new connection, or on one that an earlier request left.  *)
Move(r, l, t) ==
    /\ at' = [at EXCEPT ![r] = l]
    /\ timer' = [timer EXCEPT ![r] = t]
    /\ UNCHANGED <<env, process, schema>>

Connect(r) ==
    /\ at[r] = "idle"
    /\ \E p \in Copy : Listening(p) /\ home' = [home EXCEPT ![r] = p]
    /\ Move(r, "sent", ReadHeaderTimeout)
    /\ UNCHANGED early

Reuse(r) ==
    /\ at[r] = "idle"
    /\ \E q \in Request : /\ at[q] = "answered" /\ Listening(home[q])
                          /\ home' = [home EXCEPT ![r] = home[q]]
    /\ Move(r, "kept", 0)
    /\ UNCHANGED early

ReadHeaders(r) ==
    /\ at[r] = "kept" \/ (at[r] = "sent" /\ timer[r] > 0)
    /\ Move(r, "handling", WriteTimeout)
    /\ early' = IF Shutting(home[r]) THEN early ELSE early \cup {r}
    /\ UNCHANGED home

HeadersTimeOut(r) ==
    /\ at[r] = "sent" /\ timer[r] = 0
    /\ Move(r, "lost", 0)
    /\ UNCHANGED <<home, early>>

(* A handler takes any time, for ever included; the client gets its answer *)
(* if it is written in time.                                               *)
Finish(r) ==
    /\ at[r] = "handling"
    /\ Move(r, IF timer[r] > 0 THEN "answered" ELSE "late", 0)
    /\ UNCHANGED <<home, early>>

Down(n) == IF n = 0 THEN 0 ELSE n - 1

Tick ==
    /\ (\E r \in Request : timer[r] > 0) \/ (\E p \in Copy : grace[p] > 0)
    /\ timer' = [r \in Request |-> Down(timer[r])]
    /\ grace' = [p \in Copy |-> Down(grace[p])]
    /\ UNCHANGED <<env, pc, srv, signalled, pool, schema, at, home, early>>
-----------------------------------------------------------------------------
(* What goes on without PostgreSQL, a client or an operator.               *)
Main(p) ==
    \/ Load(p) \/ Open(p) \/ Spawn(p) \/ Notify(p)
    \/ StartDrain(p) \/ Drained(p) \/ DrainTimesOut(p) \/ ClosePool(p)
Server(p) == Begin(p) \/ Bind(p) \/ BindFails(p)

Process(p) ==
    \/ Main(p) \/ Server(p)
    \/ Boot(p) \/ Migrate(p) \/ Seed(p) \/ ServeFails(p) \/ Signal(p) \/ Kill(p)
Serve(r) == Connect(r) \/ Reuse(r) \/ ReadHeaders(r) \/ HeadersTimeOut(r) \/ Finish(r)

Next == (\E p \in Copy : Process(p)) \/ (\E r \in Request : Serve(r)) \/ Tick

Spec == Init /\ [][Next]_vars

FairSpec ==
    /\ Spec
    /\ WF_vars(Tick)
    /\ \A p \in Copy : WF_vars(Main(p)) /\ WF_vars(Server(p))
-----------------------------------------------------------------------------
TypeOK ==
    /\ env \in [Copy -> Environment]
    /\ pc \in [Copy -> {"down", "load", "open", "migrate", "seed", "spawn", "notify", "wait",
                        "drain", "close"} \cup Gone]
    /\ srv \in [Copy -> {"none", "starting", "binding", "listening", "closed"}]
    /\ signalled \in [Copy -> BOOLEAN]
    /\ pool \in [Copy -> {"none", "open", "closing", "closed"}]
    /\ grace \in [Copy -> 0 .. ShutdownTimeout]
    /\ schema \in BOOLEAN
    /\ at \in [Request -> {"idle", "sent", "kept", "handling",
                           "answered", "late", "lost", "cut"}]
    /\ home \in [Request -> Copy \cup {NoCopy}]
    /\ timer \in [Request -> Nat]
    /\ early \subseteq Request

Serving(p) == pc[p] \in {"notify", "wait", "drain"}

(* The inductive invariant, in parts.  How far main has come says what the *)
(* process has; a connection belongs to a process that has listened and is *)
(* not beyond Shutdown; during Shutdown, the answers that were due when it *)
(* began are due before it ends.                                           *)
MainInv ==
    \A p \in Copy :
        /\ pc[p] \in {"down", "load", "open", "migrate", "seed", "spawn"} => srv[p] = "none"
        /\ pc[p] \in {"open", "migrate", "seed", "spawn"} \/ Serving(p) => Loadable(env[p])
        /\ pc[p] \in {"migrate", "seed", "spawn"} \/ Serving(p) => pool[p] = "open"
        /\ pc[p] \in {"seed", "spawn"} \/ Serving(p) => schema
        /\ pc[p] \in Gone => srv[p] = "closed"
        /\ Listening(p) => pc[p] \in {"notify", "wait"}

RequestInv ==
    \A r \in Request :
        /\ at[r] # "idle" => home[r] \in Copy
        /\ at[r] \in {"sent", "kept", "handling"} =>
              /\ srv[home[r]] \in {"listening", "closed"}
              /\ Serving(home[r])
        /\ at[r] \in {"idle", "sent", "kept"} => r \notin early
        /\ at[r] = "cut" => pc[home[r]] \in {"exit1", "killed"}

DrainInv ==
    \A r \in Request : at[r] = "handling" =>
        /\ timer[r] <= WriteTimeout
        /\ r \in early /\ pc[home[r]] = "drain" => timer[r] <= grace[home[r]]

LifecycleInv == TypeOK /\ MainInv /\ RequestInv /\ DrainInv

(* Exit status 0 means that nothing was broken off: each request whose     *)
(* handler had begun got through it (main.go 81-85).                       *)
GracefulLosesNothing ==
    \A p \in Copy : pc[p] = "exit0" => \A r \in Of(p) : at[r] \notin {"handling", "cut"}

(* A handler runs only in a process with a secret to sign tokens with, on  *)
(* a migrated database, and as long as it runs the pool is open: db.Close, *)
(* which is deferred, never overtakes it (main.go 35-47, 81-84).           *)
ServesOnlyWhenReady ==
    \A r \in Request : at[r] = "handling" =>
        /\ env[home[r]].secret = "set"
        /\ schema
        /\ pool[home[r]] = "open"

(* Shutdown breaks off no answer that could still have been delivered, of  *)
(* the requests that were being handled when the signal came: the 10 s of  *)
(* WriteTimeout are over before the 10 s of Shutdown (main.go 78, 93).     *)
DrainCutsNoDeliverableAnswer ==
    [][\A r \in early :
          /\ at[r] = "handling" /\ at'[r] = "cut"
          /\ pc[home[r]] = "drain" /\ pc'[home[r]] = "exit1"
          => timer[r] = 0]_vars

(* A process that got SIGTERM ends, at whatever moment of its start or     *)
(* life: though PostgreSQL may not answer, handlers may hang and every     *)
(* later signal is ignored (main.go 73-84).                                *)
SignalEnds == \A p \in Copy : signalled[p] ~> pc[p] \in Gone

(* No process stays without serving: it gets the port, or it ends, or it   *)
(* was told to end (main.go 65-71).                                        *)
EitherServesOrEnds ==
    \A p \in Copy : pc[p] = "wait" ~> Listening(p) \/ pc[p] \in Gone
==============================================================================
