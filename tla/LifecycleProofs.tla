---------------------------- MODULE LifecycleProofs ----------------------------
(***************************************************************************)
(* Proofs about module Lifecycle, for any number of processes, requests,   *)
(* and environments, and for any timeouts with WriteTimeout no longer than *)
(* ShutdownTimeout.                                                        *)
(***************************************************************************)
EXTENDS Lifecycle, TLAPS

(* Closing connections keeps the types.                                    *)
LEMMA DisconnectTypes ==
    ASSUME TypeOK, NEW lost, NEW cut, Disconnect(lost, cut)
    PROVE  /\ at' \in [Request -> {"idle", "sent", "kept", "handling",
                                  "answered", "late", "lost", "cut"}]
           /\ timer' \in [Request -> Nat]
  BY DEF TypeOK, Disconnect

(* However a process ends, unless status 0 hides a handler broken off.     *)
LEMMA EndsStep ==
    ASSUME LifecycleInv, NEW p \in Copy, NEW how \in Gone, Ends(p, how), Alive(p),
           how = "exit0" => Handled(p) = {}, signalled' \in [Copy -> BOOLEAN]
    PROVE  LifecycleInv'
<1>1. TypeOK'
  <2>1. /\ pc' \in [Copy -> {"down", "load", "open", "migrate", "seed", "spawn", "notify", "wait",
                           "drain", "close"} \cup Gone]
        /\ srv' \in [Copy -> {"none", "starting", "binding", "listening", "closed"}]
        /\ pool' \in [Copy -> {"none", "open", "closing", "closed"}]
    BY DEF LifecycleInv, Ends, Goto, TypeOK
  <2>2. grace' \in [Copy -> 0 .. ShutdownTimeout]
    BY TimeoutAssumption DEF LifecycleInv, Ends, TypeOK
  <2>3. UNCHANGED <<env, schema, home, early>>
    BY DEF Ends
  <2> QED  BY <2>1, <2>2, <2>3, DisconnectTypes DEF LifecycleInv, Ends, TypeOK
<1>2. MainInv'
  BY DEF LifecycleInv, Ends, Goto, TypeOK, MainInv, Serving, Listening, Gone
<1>3. RequestInv'
  BY DEF LifecycleInv, Ends, Goto, Disconnect, Unread, Handled, Of, Alive, TypeOK, RequestInv,
     Serving, Gone
<1>4. DrainInv'
  BY DEF LifecycleInv, Ends, Goto, Disconnect, Handled, Of, DrainInv
<1>5. QED  BY <1>1, <1>2, <1>3, <1>4 DEF LifecycleInv

(* A process that is started has nothing yet.                              *)
LEMMA BootStep ==
    ASSUME LifecycleInv, NEW p \in Copy, Boot(p)
    PROVE  LifecycleInv'
<1>1. TypeOK'
  BY DEF LifecycleInv, Boot, Goto, requests, TypeOK
<1>2. MainInv'
  BY DEF LifecycleInv, Boot, Goto, MainInv, Serving, Listening, Gone
<1>3. RequestInv'
  BY DEF LifecycleInv, Boot, Goto, requests, RequestInv, Serving
<1>4. DrainInv'
  BY DEF LifecycleInv, Boot, Goto, requests, DrainInv
<1>5. QED  BY <1>1, <1>2, <1>3, <1>4 DEF LifecycleInv

(* Only a loadable environment goes on to the database.                    *)
LEMMA LoadStep ==
    ASSUME LifecycleInv, NEW p \in Copy, Load(p)
    PROVE  LifecycleInv'
<1>a. CASE Exits(p)
  <2>1. Alive(p) /\ signalled' \in [Copy -> BOOLEAN] /\ "exit1" \in Gone
    BY <1>a DEF LifecycleInv, TypeOK, Load, Exits, Alive, Gone
  <2> QED  BY <1>a, <2>1, EndsStep DEF Exits
<1>b. CASE ~Exits(p)
  <2>1. TypeOK'
    BY <1>b DEF LifecycleInv, Load, Goto, requests, TypeOK
  <2>2. MainInv'
    BY <1>b DEF LifecycleInv, Load, Goto, TypeOK, MainInv, Serving, Listening, Gone
  <2>3. RequestInv'
    BY <1>b DEF LifecycleInv, Load, Goto, requests, TypeOK, RequestInv, Serving
  <2>4. DrainInv'
    BY <1>b DEF LifecycleInv, Load, Goto, requests, TypeOK, RequestInv, DrainInv
  <2>5. QED  BY <2>1, <2>2, <2>3, <2>4 DEF LifecycleInv
<1> QED  BY <1>a, <1>b

(* The pool is open before the migrations begin.                           *)
LEMMA OpenStep ==
    ASSUME LifecycleInv, NEW p \in Copy, Open(p)
    PROVE  LifecycleInv'
<1>a. CASE Exits(p)
  <2>1. Alive(p) /\ signalled' \in [Copy -> BOOLEAN] /\ "exit1" \in Gone
    BY <1>a DEF LifecycleInv, TypeOK, Open, Exits, Alive, Gone
  <2> QED  BY <1>a, <2>1, EndsStep DEF Exits
<1>b. CASE ~Exits(p)
  <2>1. TypeOK'
    BY <1>b DEF LifecycleInv, Open, Goto, requests, TypeOK
  <2>2. MainInv'
    BY <1>b DEF LifecycleInv, Open, Goto, TypeOK, MainInv, Serving, Listening, Gone
  <2>3. RequestInv'
    BY <1>b DEF LifecycleInv, Open, Goto, requests, TypeOK, RequestInv, Serving
  <2>4. DrainInv'
    BY <1>b DEF LifecycleInv, Open, Goto, requests, TypeOK, RequestInv, DrainInv
  <2>5. QED  BY <2>1, <2>2, <2>3, <2>4 DEF LifecycleInv
<1> QED  BY <1>a, <1>b

(* The schema is there before the seed and the server.                     *)
LEMMA MigrateStep ==
    ASSUME LifecycleInv, NEW p \in Copy, Migrate(p)
    PROVE  LifecycleInv'
<1>a. CASE Exits(p)
  <2>1. Alive(p) /\ signalled' \in [Copy -> BOOLEAN] /\ "exit1" \in Gone
    BY <1>a DEF LifecycleInv, TypeOK, Migrate, Exits, Alive, Gone
  <2> QED  BY <1>a, <2>1, EndsStep DEF Exits
<1>b. CASE ~Exits(p)
  <2>1. TypeOK'
    BY <1>b DEF LifecycleInv, Migrate, Goto, requests, TypeOK, DrainInv, Serving, Listening, Gone
  <2>2. MainInv'
    BY <1>b DEF LifecycleInv, Migrate, Goto, TypeOK, MainInv, Serving, Listening, Gone
  <2>3. RequestInv'
    BY <1>b DEF LifecycleInv, Migrate, Goto, requests, TypeOK, RequestInv, Serving
  <2>4. DrainInv'
    BY <1>b DEF LifecycleInv, Migrate, Goto, requests, TypeOK, RequestInv, DrainInv
  <2>5. QED  BY <2>1, <2>2, <2>3, <2>4 DEF LifecycleInv
<1> QED  BY <1>a, <1>b

(* The seed fails, or changes nothing of the process.                      *)
LEMMA SeedStep ==
    ASSUME LifecycleInv, NEW p \in Copy, Seed(p)
    PROVE  LifecycleInv'
<1>a. CASE Exits(p)
  <2>1. Alive(p) /\ signalled' \in [Copy -> BOOLEAN] /\ "exit1" \in Gone
    BY <1>a DEF LifecycleInv, TypeOK, Seed, Exits, Alive, Gone
  <2> QED  BY <1>a, <2>1, EndsStep DEF Exits
<1>b. CASE ~Exits(p)
  <2>1. TypeOK'
    BY <1>b DEF LifecycleInv, Seed, Goto, requests, TypeOK
  <2>2. MainInv'
    BY <1>b DEF LifecycleInv, Seed, Goto, TypeOK, MainInv, Serving, Listening, Gone
  <2>3. RequestInv'
    BY <1>b DEF LifecycleInv, Seed, Goto, requests, TypeOK, RequestInv, Serving
  <2>4. DrainInv'
    BY <1>b DEF LifecycleInv, Seed, Goto, requests, TypeOK, RequestInv, DrainInv
  <2>5. QED  BY <2>1, <2>2, <2>3, <2>4 DEF LifecycleInv
<1> QED  BY <1>a, <1>b

(* The server starts in a process that is ready.                           *)
LEMMA SpawnStep ==
    ASSUME LifecycleInv, NEW p \in Copy, Spawn(p)
    PROVE  LifecycleInv'
<1>1. TypeOK'
  BY DEF LifecycleInv, Spawn, Goto, requests, TypeOK
<1>2. MainInv'
  BY DEF LifecycleInv, Spawn, Goto, TypeOK, MainInv, Serving, Listening, Gone
<1>3. RequestInv'
  BY DEF LifecycleInv, Spawn, Goto, requests, RequestInv, Serving
<1>4. DrainInv'
  BY DEF LifecycleInv, Spawn, Goto, requests, DrainInv
<1>5. QED  BY <1>1, <1>2, <1>3, <1>4 DEF LifecycleInv

(* From here on main waits for a signal.                                   *)
LEMMA NotifyStep ==
    ASSUME LifecycleInv, NEW p \in Copy, Notify(p)
    PROVE  LifecycleInv'
<1>1. TypeOK'
  BY DEF LifecycleInv, Notify, Goto, requests, TypeOK
<1>2. MainInv'
  BY DEF LifecycleInv, Notify, Goto, MainInv, Serving, Listening, Gone
<1>3. RequestInv'
  BY DEF LifecycleInv, Notify, Goto, requests, RequestInv, Serving
<1>4. DrainInv'
  BY DEF LifecycleInv, Notify, Goto, requests, DrainInv
<1>5. QED  BY <1>1, <1>2, <1>3, <1>4 DEF LifecycleInv

(* No server begins to bind once Shutdown has been called.                 *)
LEMMA BeginStep ==
    ASSUME LifecycleInv, NEW p \in Copy, Begin(p)
    PROVE  LifecycleInv'
<1>1. TypeOK'
  BY DEF LifecycleInv, Begin, requests, TypeOK
<1>2. MainInv'
  BY DEF LifecycleInv, Begin, MainInv, Serving, Listening
<1>3. RequestInv'
  BY DEF LifecycleInv, Begin, requests, RequestInv, Serving
<1>4. DrainInv'
  BY DEF LifecycleInv, Begin, requests, DrainInv
<1>5. QED  BY <1>1, <1>2, <1>3, <1>4 DEF LifecycleInv

(* A server that finds Shutdown called does not listen.                    *)
LEMMA BindStep ==
    ASSUME LifecycleInv, NEW p \in Copy, Bind(p)
    PROVE  LifecycleInv'
<1>1. TypeOK'
  BY DEF LifecycleInv, Bind, requests, TypeOK
<1>2. MainInv'
  BY DEF LifecycleInv, Bind, Shutting, TypeOK, MainInv, Serving, Listening
<1>3. RequestInv'
  BY DEF LifecycleInv, Bind, requests, RequestInv, Serving
<1>4. DrainInv'
  BY DEF LifecycleInv, Bind, requests, DrainInv
<1>5. QED  BY <1>1, <1>2, <1>3, <1>4 DEF LifecycleInv

(* A port in use ends the process, and its requests.                       *)
LEMMA BindFailsStep ==
    ASSUME LifecycleInv, NEW p \in Copy, BindFails(p)
    PROVE  LifecycleInv'
<1>1. Alive(p) /\ signalled' \in [Copy -> BOOLEAN] /\ "exit1" \in Gone
  BY DEF LifecycleInv, TypeOK, MainInv, BindFails, Exits, Alive, Gone
<1>2. Ends(p, "exit1") /\ ("exit1" = "exit0" => Handled(p) = {})
  BY DEF BindFails, Exits
<1> QED  BY <1>1, <1>2, EndsStep

(* A listener that breaks ends the process, and its requests.              *)
LEMMA ServeFailsStep ==
    ASSUME LifecycleInv, NEW p \in Copy, ServeFails(p)
    PROVE  LifecycleInv'
<1>1. Alive(p) /\ signalled' \in [Copy -> BOOLEAN] /\ "exit1" \in Gone
  BY DEF LifecycleInv, TypeOK, MainInv, ServeFails, Exits, Alive, Gone
<1>2. Ends(p, "exit1") /\ ("exit1" = "exit0" => Handled(p) = {})
  BY DEF ServeFails, Exits
<1> QED  BY <1>1, <1>2, EndsStep

(* Nothing of a killed process is left behind.                             *)
LEMMA KillStep ==
    ASSUME LifecycleInv, NEW p \in Copy, Kill(p)
    PROVE  LifecycleInv'
<1>1. Alive(p) /\ signalled' \in [Copy -> BOOLEAN] /\ "killed" \in Gone
  BY DEF LifecycleInv, TypeOK, Kill, Gone
<1>2. Ends(p, "killed") /\ ("killed" = "exit0" => Handled(p) = {})
  BY DEF Kill
<1> QED  BY <1>1, <1>2, EndsStep

(* When Shutdown times out, handlers are cut by the exit.                  *)
LEMMA DrainTimesOutStep ==
    ASSUME LifecycleInv, NEW p \in Copy, DrainTimesOut(p)
    PROVE  LifecycleInv'
<1>1. Alive(p) /\ signalled' \in [Copy -> BOOLEAN] /\ "exit1" \in Gone
  BY DEF LifecycleInv, TypeOK, DrainTimesOut, Exits, Alive, Gone
<1>2. Ends(p, "exit1") /\ ("exit1" = "exit0" => Handled(p) = {})
  BY DEF DrainTimesOut, Exits
<1> QED  BY <1>1, <1>2, EndsStep

(* The pool is closed once no handler is left.                             *)
LEMMA ClosePoolStep ==
    ASSUME LifecycleInv, NEW p \in Copy, ClosePool(p)
    PROVE  LifecycleInv'
<1>1. Alive(p) /\ signalled' \in [Copy -> BOOLEAN] /\ "exit0" \in Gone
  BY DEF LifecycleInv, TypeOK, ClosePool, Alive, Gone
<1>2. Ends(p, "exit0") /\ ("exit0" = "exit0" => Handled(p) = {})
  BY DEF ClosePool
<1> QED  BY <1>1, <1>2, EndsStep

(* A signal is remembered, or kills the process.                           *)
LEMMA SignalStep ==
    ASSUME LifecycleInv, NEW p \in Copy, Signal(p)
    PROVE  LifecycleInv'
<1>1. Alive(p) /\ signalled' \in [Copy -> BOOLEAN] /\ "killed" \in Gone
  BY DEF LifecycleInv, TypeOK, Signal, Gone
<1>2. CASE pc[p] = "wait"
  <2>1. TypeOK'
    BY <1>1, <1>2 DEF LifecycleInv, Signal, requests, TypeOK
  <2>2. MainInv'
    BY <1>1, <1>2 DEF LifecycleInv, Signal, MainInv, Serving, Listening
  <2>3. RequestInv'
    BY <1>1, <1>2 DEF LifecycleInv, Signal, requests, RequestInv, Serving
  <2>4. DrainInv'
    BY <1>1, <1>2 DEF LifecycleInv, Signal, requests, DrainInv
  <2>5. QED  BY <2>1, <2>2, <2>3, <2>4 DEF LifecycleInv
<1>3. CASE pc[p] # "wait"
  <2>1. Ends(p, "killed")
    BY <1>3 DEF Signal
  <2> QED  BY <1>1, <2>1, EndsStep
<1> QED  BY <1>2, <1>3

(* Shutdown begins with more time than any answer has left.                *)
LEMMA StartDrainStep ==
    ASSUME LifecycleInv, NEW p \in Copy, StartDrain(p)
    PROVE  LifecycleInv'
<1>1. TypeOK'
  BY TimeoutAssumption, DisconnectTypes DEF LifecycleInv, StartDrain, Goto, TypeOK
<1>2. MainInv'
  BY TimeoutAssumption DEF LifecycleInv, StartDrain, Goto, TypeOK, MainInv, Serving, Listening, Gone
<1>3. RequestInv'
  BY TimeoutAssumption DEF LifecycleInv, StartDrain, Goto, Disconnect, RequestInv, Serving
<1>4. DrainInv'
  BY TimeoutAssumption DEF LifecycleInv, StartDrain, Goto, Disconnect, TypeOK, DrainInv
<1>5. QED  BY <1>1, <1>2, <1>3, <1>4 DEF LifecycleInv

(* Shutdown ends with no handler running.                                  *)
LEMMA DrainedStep ==
    ASSUME LifecycleInv, NEW p \in Copy, Drained(p)
    PROVE  LifecycleInv'
<1>1. TypeOK'
  BY TimeoutAssumption, DisconnectTypes DEF LifecycleInv, Drained, Goto, TypeOK
<1>2. MainInv'
  BY DEF LifecycleInv, Drained, Goto, TypeOK, MainInv, Serving, Listening, Gone
<1>3. RequestInv'
  BY DEF LifecycleInv, Drained, Goto, Disconnect, Quiescent, Unread, Of, RequestInv, Serving
<1>4. DrainInv'
  BY DEF LifecycleInv, Drained, Goto, Disconnect, Quiescent, Of, DrainInv
<1>5. QED  BY <1>1, <1>2, <1>3, <1>4 DEF LifecycleInv

(* A new connection goes to a process that listens.                        *)
LEMMA ConnectStep ==
    ASSUME LifecycleInv, NEW r \in Request, Connect(r)
    PROVE  LifecycleInv'
<1>1. TypeOK'
  BY TimeoutAssumption, NoCopyAssumption DEF LifecycleInv, Connect, Move, process, TypeOK
<1>2. MainInv'
  BY TimeoutAssumption, NoCopyAssumption DEF LifecycleInv, Connect, Move, process, MainInv, Serving,
     Listening
<1>3. RequestInv'
  BY TimeoutAssumption, NoCopyAssumption DEF LifecycleInv, Connect, Move, process, TypeOK, MainInv,
     RequestInv, Serving, Listening
<1>4. DrainInv'
  BY TimeoutAssumption, NoCopyAssumption DEF LifecycleInv, Connect, Move, process, DrainInv
<1>5. QED  BY <1>1, <1>2, <1>3, <1>4 DEF LifecycleInv

(* So does a request on a connection that is kept.                         *)
LEMMA ReuseStep ==
    ASSUME LifecycleInv, NEW r \in Request, Reuse(r)
    PROVE  LifecycleInv'
<1>1. TypeOK'
  BY DEF LifecycleInv, Reuse, Move, process, TypeOK
<1>2. MainInv'
  BY DEF LifecycleInv, Reuse, Move, process, MainInv, Serving, Listening
<1>3. RequestInv'
  BY DEF LifecycleInv, Reuse, Move, process, TypeOK, MainInv, RequestInv, Serving, Listening
<1>4. DrainInv'
  BY DEF LifecycleInv, Reuse, Move, process, DrainInv
<1>5. QED  BY <1>1, <1>2, <1>3, <1>4 DEF LifecycleInv

(* The headers read before Shutdown are those of early requests.           *)
LEMMA ReadHeadersStep ==
    ASSUME LifecycleInv, NEW r \in Request, ReadHeaders(r)
    PROVE  LifecycleInv'
<1>1. TypeOK'
  BY TimeoutAssumption DEF LifecycleInv, ReadHeaders, Move, process, TypeOK
<1>2. MainInv'
  BY TimeoutAssumption DEF LifecycleInv, ReadHeaders, Move, process, MainInv, Serving, Listening
<1>3. RequestInv'
  BY TimeoutAssumption DEF LifecycleInv, ReadHeaders, Move, process, TypeOK, RequestInv, Serving
<1>4. DrainInv'
  BY TimeoutAssumption DEF LifecycleInv, ReadHeaders, Move, process, Shutting, TypeOK, RequestInv,
     DrainInv
<1>5. QED  BY <1>1, <1>2, <1>3, <1>4 DEF LifecycleInv

(* A request that nobody has read is lost.                                 *)
LEMMA HeadersTimeOutStep ==
    ASSUME LifecycleInv, NEW r \in Request, HeadersTimeOut(r)
    PROVE  LifecycleInv'
<1>1. TypeOK'
  BY DEF LifecycleInv, HeadersTimeOut, Move, process, TypeOK
<1>2. MainInv'
  BY DEF LifecycleInv, HeadersTimeOut, Move, process, MainInv, Serving, Listening
<1>3. RequestInv'
  BY DEF LifecycleInv, HeadersTimeOut, Move, process, RequestInv, Serving
<1>4. DrainInv'
  BY DEF LifecycleInv, HeadersTimeOut, Move, process, DrainInv
<1>5. QED  BY <1>1, <1>2, <1>3, <1>4 DEF LifecycleInv

(* A handler ends, in time or late.                                        *)
LEMMA FinishStep ==
    ASSUME LifecycleInv, NEW r \in Request, Finish(r)
    PROVE  LifecycleInv'
<1>1. TypeOK'
  BY DEF LifecycleInv, Finish, Move, process, TypeOK
<1>2. MainInv'
  BY DEF LifecycleInv, Finish, Move, process, MainInv, Serving, Listening
<1>3. RequestInv'
  BY DEF LifecycleInv, Finish, Move, process, RequestInv, Serving
<1>4. DrainInv'
  BY DEF LifecycleInv, Finish, Move, process, TypeOK, DrainInv
<1>5. QED  BY <1>1, <1>2, <1>3, <1>4 DEF LifecycleInv

(* An early answer and Shutdown lose the same time.                        *)
LEMMA TickStep ==
    ASSUME LifecycleInv, Tick
    PROVE  LifecycleInv'
<1>1. TypeOK'
  BY TimeoutAssumption DEF LifecycleInv, Tick, Down, TypeOK
<1>2. MainInv'
  BY TimeoutAssumption DEF LifecycleInv, Tick, MainInv, Serving, Listening
<1>3. RequestInv'
  BY TimeoutAssumption DEF LifecycleInv, Tick, RequestInv, Serving
<1>4. DrainInv'
  BY TimeoutAssumption DEF LifecycleInv, Tick, Down, TypeOK, RequestInv, DrainInv
<1>5. QED  BY <1>1, <1>2, <1>3, <1>4 DEF LifecycleInv

(* Nothing changes in a stuttering step.                                   *)
LEMMA StutterStep ==
    ASSUME LifecycleInv, UNCHANGED vars
    PROVE  LifecycleInv'
<1>1. TypeOK'
  BY DEF LifecycleInv, vars, process, requests, TypeOK
<1>2. MainInv'
  BY DEF LifecycleInv, vars, process, MainInv, Serving, Listening
<1>3. RequestInv'
  BY DEF LifecycleInv, vars, process, requests, RequestInv, Serving
<1>4. DrainInv'
  BY DEF LifecycleInv, vars, process, requests, DrainInv
<1>5. QED  BY <1>1, <1>2, <1>3, <1>4 DEF LifecycleInv

(* The invariant holds at the start.                                       *)
LEMMA InitInv == Init => LifecycleInv
<1> SUFFICES ASSUME Init PROVE LifecycleInv
  OBVIOUS
<1>1. TypeOK
  <2>1. signalled \in [Copy -> BOOLEAN] /\ schema \in BOOLEAN
    BY DEF Init
  <2>2. grace \in [Copy -> 0 .. ShutdownTimeout] /\ timer \in [Request -> Nat]
    BY TimeoutAssumption DEF Init
  <2> QED  BY <2>1, <2>2 DEF Init, TypeOK
<1>2. MainInv
  BY TimeoutAssumption DEF Init, MainInv, Serving, Listening, Gone
<1>3. RequestInv
  BY TimeoutAssumption DEF Init, RequestInv
<1>4. DrainInv
  BY TimeoutAssumption DEF Init, DrainInv
<1>5. QED  BY <1>1, <1>2, <1>3, <1>4 DEF LifecycleInv

(* The invariant holds.                                                    *)
THEOREM Invariance == Spec => []LifecycleInv
<1>1. LifecycleInv /\ [Next]_vars => LifecycleInv'
  BY BootStep, LoadStep, OpenStep, MigrateStep, SeedStep, SpawnStep, NotifyStep, BeginStep,
     BindStep, BindFailsStep, ServeFailsStep, KillStep, DrainTimesOutStep, ClosePoolStep,
     SignalStep, StartDrainStep, DrainedStep, ConnectStep, ReuseStep, ReadHeadersStep,
     HeadersTimeOutStep, FinishStep, TickStep, StutterStep
  DEF Next, Process, Main, Server, Serve
<1>2. QED  BY InitInv, <1>1, PTL DEF Spec

(* Every variable keeps its type.                                          *)
THEOREM TypeCorrect == Spec => []TypeOK
<1>1. LifecycleInv => TypeOK
  BY DEF LifecycleInv
<1>2. QED  BY Invariance, <1>1, PTL

(* A process that exits with status 0 has broken off no request.           *)
THEOREM Graceful == Spec => []GracefulLosesNothing
<1>1. LifecycleInv => GracefulLosesNothing
  BY DEF LifecycleInv, RequestInv, GracefulLosesNothing, Of, Serving
<1>2. QED  BY Invariance, <1>1, PTL

(* Handlers run with a secret, a migrated database and an open pool.       *)
THEOREM Readiness == Spec => []ServesOnlyWhenReady
<1>1. LifecycleInv => ServesOnlyWhenReady
  BY DEF LifecycleInv, RequestInv, MainInv, ServesOnlyWhenReady, Serving, Loadable
<1>2. QED  BY Invariance, <1>1, PTL

(* Shutdown breaks off no answer, of the requests it found being handled,  *)
(* that could still have been delivered.                                   *)
THEOREM DrainLosesNothing == Spec => DrainCutsNoDeliverableAnswer
<1> DEFINE Loses(r) == /\ at[r] = "handling" /\ at'[r] = "cut"
                       /\ pc[home[r]] = "drain" /\ pc'[home[r]] = "exit1"
<1>1. ASSUME LifecycleInv, [Next]_vars, NEW r \in early, Loses(r)
      PROVE  timer[r] = 0
  <2>1. /\ r \in Request /\ home[r] \in Copy
        /\ timer[r] \in Nat /\ timer[r] <= grace[home[r]]
        /\ srv[home[r]] = "closed"
    BY <1>1 DEF LifecycleInv, TypeOK, RequestInv, MainInv, DrainInv, Listening
  <2>2. grace[home[r]] = 0
    <3>1. PICK p \in Copy : Process(p)
      BY <1>1 DEF Next, vars, requests, Serve, Connect, Reuse, ReadHeaders, HeadersTimeOut,
                  Finish, Move, process, Tick
    <3>2. p = home[r]
      BY <1>1, <2>1, <3>1
      DEF Process, Main, Server, Boot, Load, Open, Migrate, Seed, Spawn, Notify, Begin, Bind,
          BindFails, ServeFails, Kill, DrainTimesOut, ClosePool, Signal, StartDrain, Drained,
          Exits, Ends, Goto, LifecycleInv, TypeOK
    <3>3. \/ DrainTimesOut(p) \/ Drained(p) \/ Kill(p) \/ Signal(p)
      BY <1>1, <2>1, <3>1, <3>2
      DEF Process, Main, Server, Boot, Load, Open, Migrate, Seed, Spawn, Notify, Begin, Bind,
          BindFails, ServeFails, ClosePool, StartDrain, Listening
    <3>4. ~Drained(p) /\ ~Kill(p) /\ ~Signal(p)
      BY <1>1, <2>1, <3>2 DEF Drained, Kill, Signal, Ends, Goto, LifecycleInv, TypeOK
    <3> QED  BY <3>2, <3>3, <3>4 DEF DrainTimesOut
  <2> QED  BY <2>1, <2>2
<1>2. LifecycleInv /\ [Next]_vars => [\A r \in early : Loses(r) => timer[r] = 0]_vars
  BY <1>1
<1>3. QED  BY Invariance, <1>2, PTL DEF Spec, DrainCutsNoDeliverableAnswer
==============================================================================
