------------------------------ MODULE Lifecycle -----------------------------
(***************************************************************************)
(* The server process from its first instruction to its last: main.run,    *)
(* Server.Run, and the handlers that run while it starts and stops.        *)
(*                                                                         *)
(* The process ends in good order when it is told to and every handler     *)
(* returns before the shutdown deadline.  It may also fail to start, lose  *)
(* its listener, or run out of time, and then handlers go on while run     *)
(* closes what they use, until main exits.                                 *)
(***************************************************************************)
EXTENDS ConnectionPool

VARIABLES
    phase,      \* how far run has come
    code,       \* what it returns, once it is returning
    signalled,  \* SIGINT or SIGTERM has arrived: ctx is done
    startOver,  \* the startup context has timed out
    listener    \* the goroutine in ListenAndServe

processVars == <<phase, code, signalled, startOver, listener>>

vars == <<cfg, poolVars, processVars>>

Phase == {"load", "postgres", "redis", "serve", "drain", "closeRedis",
          "closePostgres", "return", "exited"}

TypeOK == /\ cfg \in Settings
          /\ PoolTypeOK
          /\ phase \in Phase
          /\ code \in {"none", "ok", "error", "killed"}
          /\ signalled \in BOOLEAN
          /\ startOver \in BOOLEAN
          /\ listener \in {"none", "starting", "open", "failed", "closed"}

Init == /\ cfg \in Settings
        /\ PoolInit
        /\ phase = "load" /\ code = "none"
        /\ signalled = FALSE /\ startOver = FALSE
        /\ listener = "none"

Alive == phase # "exited"

\* Handlers that have begun and not replied.
Running == {s \in Slot : slots[s].pc \notin {"free", "connected"}}

-----------------------------------------------------------------------------
(* Start. *)

\* validate may refuse what was read, and a .env that is there may be
\* unreadable, whatever is in it.
LoadConfig ==
    /\ phase = "load"
    /\ \/ /\ Validates(cfg)
          /\ phase' = "postgres"
          /\ UNCHANGED code
       \/ /\ phase' = "return" /\ code' = "error"
    /\ UNCHANGED <<cfg, poolVars, signalled, startOver, listener>>

\* Mutant: the pings run under the context of the signals only.
StartCtxUnbounded == signalled

\* startCtx derives from the context of the signals.
StartCtxDone == startOver \/ signalled

\* database.New closes what it opened when the ping fails; otherwise the
\* connection of the ping may be kept.
OpenPostgres ==
    /\ phase = "postgres"
    /\ \/ /\ db' = "open" /\ phase' = "redis"
          /\ idle' = IF cfg.maxIdleConns > 0 THEN 1 ELSE 0
          /\ UNCHANGED code
       \/ /\ phase' = "return" /\ code' = "error"
          /\ UNCHANGED <<db, idle>>
    /\ UNCHANGED <<cfg, cache, holds, slots, signalled, startOver, listener>>

\* Mutant: nobody closes the pool when Redis does not answer.
OpenRedisLeaking ==
    /\ phase = "redis"
    /\ \/ /\ cache' = "open" /\ phase' = "serve" /\ listener' = "starting"
          /\ UNCHANGED code
       \/ /\ phase' = "return" /\ code' = "error"
          /\ UNCHANGED <<cache, listener>>
    /\ UNCHANGED <<cfg, db, idle, holds, slots, signalled, startOver>>

\* cache.New likewise; on an error the deferred pg.Close runs.  Otherwise the
\* handlers are built, and Run starts the goroutine that listens.
OpenRedis ==
    /\ phase = "redis"
    /\ \/ /\ cache' = "open" /\ phase' = "serve" /\ listener' = "starting"
          /\ UNCHANGED code
       \/ /\ phase' = "closePostgres" /\ code' = "error"
          /\ UNCHANGED <<cache, listener>>
    /\ UNCHANGED <<cfg, db, idle, holds, slots, signalled, startOver>>

StartTimer == /\ phase \in {"postgres", "redis"}
              /\ startOver' = TRUE
              /\ UNCHANGED <<cfg, poolVars, phase, code, signalled, listener>>

\* Before NotifyContext a signal has its default effect.
Signal ==
    /\ Alive
    /\ \/ /\ phase = "load"
          /\ phase' = "exited" /\ code' = "killed"
          /\ UNCHANGED signalled
       \/ /\ phase # "load"
          /\ signalled' = TRUE
          /\ UNCHANGED <<phase, code>>
    /\ UNCHANGED <<cfg, poolVars, startOver, listener>>

-----------------------------------------------------------------------------
(* Server.Run. *)

\* The goroutine binds the port, or cannot, or Accept fails later on; the
\* error waits in errCh, which has room for it.
Listen ==
    /\ Alive
    /\ \/ listener = "starting" /\ listener' \in {"open", "failed"}
       \/ listener = "open" /\ listener' = "failed"
    /\ UNCHANGED <<cfg, poolVars, phase, code, signalled, startOver>>

\* The select takes either when both are ready.  Shutdown closes the listener
\* (and one that starts afterwards gives up), so an error in errCh is then
\* never read.
SelectSignal ==
    /\ phase = "serve" /\ signalled
    /\ phase' = "drain" /\ listener' = "closed"
    /\ UNCHANGED <<cfg, poolVars, code, signalled, startOver>>

SelectError ==
    /\ phase = "serve" /\ listener = "failed"
    /\ phase' = "closeRedis" /\ code' = "error"
    /\ UNCHANGED <<cfg, poolVars, signalled, startOver, listener>>

\* Shutdown returns nil: no connection is open that is new or has a handler.
Drained ==
    /\ phase = "drain" /\ \A s \in Slot : slots[s].pc = "free"
    /\ phase' = "closeRedis" /\ code' = "ok"
    /\ UNCHANGED <<cfg, poolVars, signalled, startOver, listener>>

\* Mutant: Run does not look at what Shutdown returns.
DrainIgnored ==
    /\ phase = "drain"
    /\ phase' = "closeRedis" /\ code' = "ok"
    /\ UNCHANGED <<cfg, poolVars, signalled, startOver, listener>>

\* Mutant: Shutdown has no deadline.
DrainPatiently == FALSE /\ UNCHANGED vars

\* HTTP_SHUTDOWN_TIMEOUT has passed.
DrainTimeout ==
    /\ phase = "drain"
    /\ phase' = "closeRedis" /\ code' = "error"
    /\ UNCHANGED <<cfg, poolVars, signalled, startOver, listener>>

-----------------------------------------------------------------------------
(* The deferred calls of run, the last one first, and the exit. *)

\* Mutant: the order of closing is that of opening.
CloseBoth == /\ phase = "closeRedis"
             /\ db' = "closed" /\ idle' = 0
             /\ phase' = "closePostgres"
             /\ UNCHANGED <<cfg, cache, holds, slots, code, signalled,
                            startOver, listener>>

CloseRedis == /\ phase = "closeRedis"
              /\ cache' = "closed"
              /\ phase' = "closePostgres"
              /\ UNCHANGED <<cfg, db, idle, holds, slots, code, signalled,
                             startOver, listener>>

\* Idle connections are closed; those in use when they are given back.
ClosePostgres == /\ phase = "closePostgres"
                 /\ db' = "closed" /\ idle' = 0
                 /\ phase' = "return"
                 /\ UNCHANGED <<cfg, cache, holds, slots, code, signalled,
                                startOver, listener>>

\* main returns or calls os.Exit(1); whatever still runs is cut off.
Exit ==
    /\ phase = "return"
    /\ phase' = "exited"
    /\ slots' = [s \in Slot |->
                    IF s \in Running THEN FreeSlot("Cut")
                    ELSE FreeSlot(slots[s].reply)]
    /\ holds' = {}
    /\ UNCHANGED <<cfg, db, cache, idle, code, signalled, startOver, listener>>

-----------------------------------------------------------------------------
(* Clients and handlers. *)

\* A client connects; what its request will ask for is known only later.
Connect(s, n) ==
    /\ phase = "serve" /\ listener = "open"
    /\ s \in Prober => n = 1
    /\ slots[s].pc = "free"
    /\ slots' = [slots EXCEPT ![s] = [pc |-> "connected", left |-> n,
                                      pgOk |-> FALSE, reply |-> "ordinary"]]
    /\ UNCHANGED <<cfg, db, cache, idle, holds, processVars>>

\* Its request has been read, which may be after Shutdown has begun.
Begin(s) ==
    /\ Alive
    /\ slots[s].pc = "connected"
    /\ slots' = [slots EXCEPT ![s].pc = "run"]
    /\ UNCHANGED <<cfg, db, cache, idle, holds, processVars>>

\* It sends nothing: the client, the read timeout or Shutdown closes it.
Drop(s) ==
    /\ Alive
    /\ slots[s].pc = "connected"
    /\ slots' = [slots EXCEPT ![s] = FreeSlot("ordinary")]
    /\ UNCHANGED <<cfg, db, cache, idle, holds, processVars>>

\* What a handler does whatever anybody else does.
HandlerStep(s) ==
    /\ Alive
    /\ \/ Ask(s)
       \/ Refuse(s)
       \/ Reply(s)
       \/ PingRedis(s)
    /\ UNCHANGED <<cfg, processVars>>

\* A waiting handler gets a new connection.
Open(s) == Alive /\ OpenFor(s) /\ UNCHANGED <<cfg, processVars>>

EndStatement(s) ==
    Alive /\ (\E ok \in BOOLEAN : Finish(s, ok)) /\ UNCHANGED <<cfg, processVars>>

\* The context of a request ends: for a probe, at the latest when its two
\* seconds have passed.
EndContext(s) ==
    Alive /\ (StopWaiting(s) \/ Break(s)) /\ UNCHANGED <<cfg, processVars>>

Maintain == Alive /\ Retire /\ UNCHANGED <<cfg, processVars>>

-----------------------------------------------------------------------------
Stopped == phase = "exited" /\ UNCHANGED vars

Next ==
    \/ LoadConfig \/ OpenPostgres \/ OpenRedis \/ StartTimer
    \/ Signal \/ Listen
    \/ SelectSignal \/ SelectError \/ Drained \/ DrainTimeout
    \/ CloseRedis \/ ClosePostgres \/ Exit
    \/ \E s \in Slot :
          \/ \E n \in 0 .. MaxStatements : Connect(s, n)
          \/ Begin(s) \/ Drop(s)
          \/ HandlerStep(s) \/ Open(s) \/ EndStatement(s) \/ EndContext(s)
    \/ Maintain
    \/ Stopped

Spec == Init /\ [][Next]_vars

\* The goroutine of run goes on; timers fire; a ping under a context that is
\* done returns.  (The Redis client has timeouts of its own besides.)  No
\* handler, statement or client is assumed to do anything.
ProcessFairness ==
    /\ WF_vars(LoadConfig)
    /\ WF_vars(StartTimer)
    /\ WF_vars(StartCtxDone /\ OpenPostgres)
    /\ WF_vars(StartCtxDone /\ OpenRedis)
    /\ WF_vars(SelectSignal \/ SelectError)
    /\ WF_vars(Drained \/ DrainTimeout)
    /\ WF_vars(CloseRedis \/ ClosePostgres \/ Exit)

\* Handlers are scheduled, and a probe's context has a deadline.
HandlerFairness ==
    /\ \A s \in Slot : WF_vars(HandlerStep(s))
    /\ \A s \in Prober : WF_vars(EndContext(s))

FairSpec == Spec /\ ProcessFairness /\ HandlerFairness

\* Statements end; and of those who wait for a connection the pool chooses at
\* random, so nobody is passed over for ever.
StatementsEnd ==
    \A s \in Slot :
        /\ WF_vars(EndStatement(s))
        /\ SF_vars(Open(s) \/ \E x \in Slot : EndStatement(x) /\ slots'[s].pc = "use")

-----------------------------------------------------------------------------
(* Safety. *)

\* The database never sees more connections of this process than configured,
\* whatever mix of handing over, breaking, opening and expiring they go
\* through; and no process serves with a pool that has no limit.
PoolBounded == db # "none" => Opened <= cfg.maxOpenConns

\* Exit code 0 means that a signal came and no request that had begun was
\* cut off or refused for want of the database.  (A listener that failed
\* before the signal was read goes unmentioned.)
CleanExit ==
    phase = "exited" /\ code = "ok" =>
        /\ signalled
        /\ \A s \in Slot : slots[s].reply \notin {"Cut", "Refused"}

\* Whatever was opened is closed when the process ends, on every path.
NothingLeftOpen ==
    phase \in {"return", "exited"} => db # "open" /\ cache # "open"

\* A probe says that the server is ready only while it has both its pool and
\* its Redis client, though the pool was asked some time before.
ReadyWhileOpen ==
    [][\A s \in Slot :
          slots[s].pc = "redis" /\ slots'[s].reply = "Ready" =>
              db = "open" /\ cache = "open"]_vars

-----------------------------------------------------------------------------
(* Liveness. *)

\* README: an unreachable dependency ends the process instead of hanging it.
StartupEnds == phase \in {"postgres", "redis"} ~> phase \notin {"postgres", "redis"}

\* A signal ends the process, even if no statement ever returns.
StopEnds == signalled ~> phase = "exited"

\* A probe is answered or cut off, even if every connection of the pool is
\* taken by a statement that never returns.
ProbeAnswered ==
    \A s \in Prober : s \in Running ~> s \notin Running

\* When statements end, so does every request, however many compete.
RequestsEnd ==
    StatementsEnd => \A s \in Slot : s \in Running ~> s \notin Running
=============================================================================
