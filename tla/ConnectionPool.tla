--------------------------- MODULE ConnectionPool ---------------------------
(***************************************************************************)
(* Handlers and the one thing they compete for: the connections to         *)
(* PostgreSQL.  What a handler does is modelled elsewhere; here it asks    *)
(* for a connection, runs a statement on it and gives it back, some number *)
(* of times, and replies.  GET /readyz asks once, then pings Redis.        *)
(*                                                                         *)
(* The pool is database/sql with the limits that database.New sets.  A     *)
(* statement whose context ends takes its connection with it, as pgx does. *)
(***************************************************************************)
EXTENDS Configuration, FiniteSets

CONSTANTS
    Slot,           \* the connections clients may have to the server
    Prober,         \* those of them that ask for /readyz and nothing else
    MaxStatements   \* the statements of the longest handler

ASSUME PoolAssumption == /\ IsFiniteSet(Slot)
                         /\ Prober \subseteq Slot
                         /\ MaxStatements \in Nat

VARIABLES
    db,      \* the pool: not there yet, open, or closed
    cache,   \* the Redis client, likewise
    idle,    \* the number of connections nobody uses
    holds,   \* the slots whose handlers have a connection
    slots    \* what goes on in each slot

poolVars == <<db, cache, idle, holds, slots>>

Resource == {"none", "open", "closed"}

\* "connected": accepted, and nothing read yet.  Statements left, and for a
\* probe whether Postgres answered.  Of the last reply only what properties
\* ask for is kept: 500 for a closed pool, ready, or cut off without any.
SlotRecord == [pc    : {"free", "connected", "run", "wait", "use", "redis"},
               left  : 0 .. MaxStatements,
               pgOk  : BOOLEAN,
               reply : {"ordinary", "Refused", "Ready", "Cut"}]

FreeSlot(r) == [pc |-> "free", left |-> 0, pgOk |-> FALSE, reply |-> r]

PoolTypeOK == /\ db \in Resource /\ cache \in Resource
              /\ idle \in Nat
              /\ holds \subseteq Slot
              /\ slots \in [Slot -> SlotRecord]

PoolInit == /\ db = "none" /\ cache = "none"
            /\ idle = 0
            /\ holds = {}
            /\ slots = [s \in Slot |-> FreeSlot("ordinary")]

Opened == Cardinality(holds) + idle

\* A limit of 0 or less is none.
HasRoom == cfg.maxOpenConns <= 0 \/ Opened < cfg.maxOpenConns

Waiting == {s \in Slot : slots[s].pc = "wait"}

\* The record of a slot whose statement has ended, well or with the reply r.
AfterStatement(s, ok, r) ==
    IF s \in Prober THEN [slots[s] EXCEPT !.pc = "redis", !.pgOk = ok]
    ELSE IF ok THEN [slots[s] EXCEPT !.pc = "run", !.left = @ - 1]
    ELSE FreeSlot(r)

-----------------------------------------------------------------------------
(* DB.conn. *)

\* An idle connection, a new one, or a place among those who wait.
Ask(s) ==
    /\ slots[s].pc = "run" /\ slots[s].left > 0
    /\ \/ /\ db = "closed"
          /\ slots' = [slots EXCEPT ![s] = AfterStatement(s, FALSE, "Refused")]
          /\ UNCHANGED <<holds, idle>>
       \/ /\ db = "open" /\ (idle > 0 \/ HasRoom)
          /\ slots' = [slots EXCEPT ![s].pc = "use"]
          /\ holds' = holds \cup {s}
          /\ idle' = IF idle > 0 THEN idle - 1 ELSE idle
       \/ /\ db = "open" /\ idle = 0 /\ ~HasRoom
          /\ slots' = [slots EXCEPT ![s].pc = "wait"]
          /\ UNCHANGED <<holds, idle>>
    /\ UNCHANGED <<db, cache>>

\* Mutant: a connection that was lost is not replaced.
OpenForNobody(s) == FALSE /\ UNCHANGED poolVars

\* connectionOpener, when a connection was closed that somebody waits for.
OpenFor(s) == /\ s \in Waiting
              /\ db = "open" /\ HasRoom
              /\ slots' = [slots EXCEPT ![s].pc = "use"]
              /\ holds' = holds \cup {s}
              /\ UNCHANGED <<db, cache, idle>>

\* Mutant: /readyz pings under the context of its request only.
StopWaitingUnlessProbe(s) ==
    /\ s \in Waiting \ Prober
    /\ slots' = [slots EXCEPT ![s] = AfterStatement(s, FALSE, "ordinary")]
    /\ UNCHANGED <<db, cache, idle, holds>>

\* The client has gone, or the two seconds of a probe have passed.
StopWaiting(s) ==
    /\ s \in Waiting
    /\ slots' = [slots EXCEPT ![s] = AfterStatement(s, FALSE, "ordinary")]
    /\ UNCHANGED <<db, cache, idle, holds>>

\* DB.Close wakes everybody who waits.
Refuse(s) ==
    /\ s \in Waiting /\ db = "closed"
    /\ slots' = [slots EXCEPT ![s] = AfterStatement(s, FALSE, "Refused")]
    /\ UNCHANGED <<db, cache, idle, holds>>

-----------------------------------------------------------------------------
(* The end of a statement, and DB.putConn. *)

\* The connection goes to one of those who wait, becomes idle or is closed.
Finish(s, ok) ==
    LET after == [slots EXCEPT ![s] = AfterStatement(s, ok, "ordinary")]
    IN  /\ slots[s].pc = "use"
        /\ \/ /\ db = "open" /\ Waiting # {}
              /\ \E w \in Waiting :
                    /\ slots' = [after EXCEPT ![w].pc = "use"]
                    /\ holds' = (holds \ {s}) \cup {w}
              /\ UNCHANGED idle
           \/ /\ db # "open" \/ Waiting = {}
              /\ slots' = after
              /\ holds' = holds \ {s}
              /\ idle' = IF db = "open" /\ idle < cfg.maxIdleConns
                         THEN idle + 1 ELSE idle
        /\ UNCHANGED <<db, cache>>

\* The statement's context ends (the client has gone, a probe is over time)
\* or the connection is lost: it is closed.
Break(s) ==
    /\ slots[s].pc = "use"
    /\ slots' = [slots EXCEPT ![s] = AfterStatement(s, FALSE, "ordinary")]
    /\ holds' = holds \ {s}
    /\ UNCHANGED <<db, cache, idle>>

\* Mutant: a connection that expires in use is counted as idle.
RetireTwice == /\ idle' = idle - 1
               /\ UNCHANGED <<db, cache, holds, slots>>

\* ConnMaxLifetime and ConnMaxIdleTime.
Retire == /\ idle > 0
          /\ idle' = idle - 1
          /\ UNCHANGED <<db, cache, holds, slots>>

-----------------------------------------------------------------------------
(* Replies. *)

Reply(s) == /\ slots[s].pc = "run" /\ slots[s].left = 0
            /\ slots' = [slots EXCEPT ![s] = FreeSlot("ordinary")]
            /\ UNCHANGED <<db, cache, idle, holds>>

\* The second ping of /readyz, under what is left of the two seconds.
PingRedis(s) ==
    /\ slots[s].pc = "redis"
    /\ \E ok \in BOOLEAN :
          /\ ok => cache = "open"
          /\ slots' = [slots EXCEPT ![s] =
                          FreeSlot(IF ok /\ slots[s].pgOk THEN "Ready"
                                                          ELSE "ordinary")]
    /\ UNCHANGED <<db, cache, idle, holds>>
=============================================================================
