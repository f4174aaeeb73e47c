--------------------------- MODULE LifecycleProofs --------------------------
(***************************************************************************)
(* Theorems about Lifecycle, for every number of clients, every pool and   *)
(* every length of handlers.                                               *)
(***************************************************************************)
EXTENDS Lifecycle, TLAPS, FiniteSetTheorems

-----------------------------------------------------------------------------
(* The inductive invariant. *)

\* What is open in which phase, and what run is about to return.
PhaseInv ==
    /\ phase \notin {"load", "return", "exited"} => Validates(cfg)
    /\ phase \in {"load", "postgres"} => db = "none"
    /\ phase \in {"redis", "serve", "drain", "closeRedis", "closePostgres"}
           => db = "open"
    /\ phase \in {"return", "exited"} => db # "open"
    /\ phase \in {"load", "postgres", "redis"} => cache = "none"
    /\ phase \in {"serve", "drain", "closeRedis"} => cache = "open"
    /\ phase \in {"closePostgres", "return", "exited"} => cache # "open"
    /\ phase \in {"load", "postgres", "redis", "serve", "drain"} => code = "none"
    /\ phase \in {"closeRedis", "closePostgres", "return"} => code \in {"ok", "error"}
    /\ phase = "drain" => signalled
    /\ code = "ok" => signalled
    /\ db # "none" => Validates(cfg)
    /\ db = "none" => idle = 0

\* No handler exists before the pool, nor after a drain that succeeded.
NoHandlers ==
    phase \in {"load", "postgres", "redis"} \/ db = "none" \/ code = "ok" =>
        \A s \in Slot : slots[s].pc = "free" /\ slots[s].reply \notin {"Cut", "Refused"}

\* A slot in use has no reply yet, who wants a connection has a statement to
\* run, and a handler was refused only if the process ends with an error.
SlotsInv ==
    \A s \in Slot : /\ slots[s].pc # "free" => slots[s].reply = "ordinary"
                    /\ slots[s].pc \in {"wait", "use"} => slots[s].left > 0
                    /\ slots[s].reply = "Refused" => code = "error"
                    /\ slots[s].reply = "Cut" => phase = "exited"

\* Who has a connection is who runs a statement; nobody after the exit.
HoldersUse == holds = {s \in Slot : slots[s].pc = "use"}

LifecycleInv == /\ TypeOK
                /\ PhaseInv
                /\ NoHandlers
                /\ SlotsInv
                /\ HoldersUse
                /\ PoolBounded
-----------------------------------------------------------------------------
(* Lemmas. *)

\* Settings that were accepted limit the pool.
LEMMA LimitPositive ==
    ASSUME TypeOK, Validates(cfg)
    PROVE  cfg.maxOpenConns \in Int /\ cfg.maxOpenConns > 0
  <1>1. cfg \in Config
    BY SettingsAssumption DEF TypeOK
  <1>2. cfg.maxOpenConns \in Int
    BY <1>1 DEF Config
  <1>3. cfg.maxOpenConns > 0
    BY DEF Validates
  <1> QED
    BY <1>2, <1>3

LEMMA HoldsFinite ==
    ASSUME TypeOK
    PROVE  IsFiniteSet(holds) /\ Cardinality(holds) \in Nat
  BY PoolAssumption, FS_Subset, FS_CardinalityType DEF TypeOK, PoolTypeOK

LEMMA FreeSlotTyped ==
    ASSUME NEW r \in {"ordinary", "Refused", "Ready", "Cut"}
    PROVE  FreeSlot(r) \in SlotRecord /\ FreeSlot(r).pc = "free" /\ FreeSlot(r).reply = r
  BY PoolAssumption DEF FreeSlot, SlotRecord

\* What the record of a slot may be after its statement.
LEMMA AfterStatementIs ==
    ASSUME TypeOK, SlotsInv,
           NEW s \in Slot, slots[s].pc # "free",
           NEW ok \in BOOLEAN, ok => slots[s].left > 0,
           NEW r \in {"ordinary", "Refused"}
    PROVE  /\ AfterStatement(s, ok, r) \in SlotRecord
           /\ AfterStatement(s, ok, r).pc \in {"free", "run", "redis"}
           /\ AfterStatement(s, ok, r).pc # "free"
                 => AfterStatement(s, ok, r).reply = "ordinary"
           /\ AfterStatement(s, ok, r).reply \in {"ordinary", r}
  <1>1. slots[s] \in SlotRecord /\ slots[s].reply = "ordinary"
    BY DEF TypeOK, PoolTypeOK, SlotsInv
  <1>2. CASE s \in Prober
    BY <1>1, <1>2 DEF AfterStatement, SlotRecord
  <1>3. CASE s \notin Prober /\ ok
    <2>1. slots[s].left - 1 \in 0 .. MaxStatements
      BY <1>1, <1>3, PoolAssumption DEF SlotRecord
    <2> QED
      BY <1>1, <1>3, <2>1 DEF AfterStatement, SlotRecord
  <1>4. CASE s \notin Prober /\ ~ok
    BY <1>4, FreeSlotTyped DEF AfterStatement, FreeSlot
  <1> QED
    BY <1>2, <1>3, <1>4

\* While handlers run there is a pool, open or closed after a failure.
LEMMA RunningNeedsPool ==
    ASSUME TypeOK, PhaseInv, NoHandlers,
           NEW s \in Slot, slots[s].pc # "free"
    PROVE  /\ phase \notin {"load", "postgres", "redis"}
           /\ db # "none" /\ code # "ok"
           /\ phase \in {"closeRedis", "closePostgres", "return"} => code = "error"
           /\ db = "closed" => phase \in {"return", "exited"}
  BY DEF TypeOK, PoolTypeOK, Phase, Resource, PhaseInv, NoHandlers

-----------------------------------------------------------------------------
(* Initially. *)

LEMMA LifecycleInit == Init => LifecycleInv
  <1> SUFFICES ASSUME Init PROVE LifecycleInv
    OBVIOUS
  <1>1. FreeSlot("ordinary") \in SlotRecord
    BY FreeSlotTyped
  <1>2. \A s \in Slot : slots[s] = FreeSlot("ordinary")
    BY DEF Init, PoolInit
  <1>3. TypeOK
    BY <1>1 DEF Init, PoolInit, TypeOK, PoolTypeOK, Resource, Phase
  <1>4. PhaseInv
    BY DEF Init, PoolInit, PhaseInv
  <1>5. NoHandlers /\ SlotsInv /\ HoldersUse
    BY <1>2 DEF NoHandlers, SlotsInv, HoldersUse, FreeSlot, Init, PoolInit
  <1> QED
    BY <1>3, <1>4, <1>5 DEF LifecycleInv, PoolBounded, Init, PoolInit

-----------------------------------------------------------------------------
(* The steps of run. *)

\* Most of them touch neither the pool nor the handlers.
LEMMA PoolFrame ==
    ASSUME LifecycleInv, UNCHANGED <<cfg, poolVars>>
    PROVE  /\ (cfg \in Settings)' /\ PoolTypeOK'
           /\ HoldersUse' /\ PoolBounded'
  BY DEF LifecycleInv, TypeOK, PoolTypeOK, poolVars, HoldersUse, PoolBounded,
         Opened

LEMMA RunStepKeeps ==
    ASSUME LifecycleInv,
           \/ LoadConfig \/ StartTimer \/ Signal \/ Listen
           \/ SelectSignal \/ SelectError \/ Drained \/ DrainTimeout
    PROVE  LifecycleInv'
  <1> USE DEF LifecycleInv, LoadConfig, StartTimer, Signal, Listen, SelectSignal,
              SelectError, Drained, DrainTimeout
  <1>1. UNCHANGED <<cfg, poolVars>>
    OBVIOUS
  <1>2. TypeOK'
    BY PoolFrame DEF TypeOK, Phase
  <1>3. PhaseInv'
    BY DEF PhaseInv, TypeOK, Phase, Alive, poolVars
  <1>4. NoHandlers' /\ SlotsInv'
    BY DEF NoHandlers, SlotsInv, PhaseInv, poolVars
  <1> QED
    BY <1>1, <1>2, <1>3, <1>4, PoolFrame

\* A new pool has the connection of the ping, or none.
LEMMA OpenPostgresKeeps == ASSUME LifecycleInv, OpenPostgres PROVE LifecycleInv'
  <1> USE DEF LifecycleInv, OpenPostgres
  <1>1. db = "none" /\ idle = 0 /\ \A s \in Slot : slots[s].pc = "free"
    BY DEF PhaseInv, NoHandlers
  <1>2. holds = {}
    BY <1>1 DEF HoldersUse
  <1>3. cfg'.maxOpenConns \in Int /\ cfg'.maxOpenConns > 0
    BY LimitPositive DEF PhaseInv
  <1>4. TypeOK'
    BY DEF TypeOK, PoolTypeOK, Phase, Resource
  <1>5. PhaseInv'
    BY DEF PhaseInv
  <1>6. NoHandlers' /\ SlotsInv' /\ HoldersUse'
    BY DEF NoHandlers, SlotsInv, PhaseInv, HoldersUse
  <1>7. PoolBounded'
    <2>1. holds' = {} /\ idle' \in {0, 1}
      BY <1>1, <1>2
    <2>2. Opened' \in {0, 1}
      BY <2>1, FS_EmptySet DEF Opened
    <2> QED
      BY <1>3, <2>2 DEF PoolBounded
  <1> QED
    BY <1>4, <1>5, <1>6, <1>7

LEMMA OpenRedisKeeps == ASSUME LifecycleInv, OpenRedis PROVE LifecycleInv'
  <1> USE DEF LifecycleInv, OpenRedis
  <1>1. TypeOK'
    BY DEF TypeOK, PoolTypeOK, Phase, Resource
  <1>2. PhaseInv'
    BY DEF PhaseInv
  <1>3. NoHandlers' /\ SlotsInv' /\ HoldersUse' /\ PoolBounded'
    BY DEF NoHandlers, SlotsInv, PhaseInv, HoldersUse, PoolBounded, Opened
  <1> QED
    BY <1>1, <1>2, <1>3

LEMMA CloseRedisKeeps == ASSUME LifecycleInv, CloseRedis PROVE LifecycleInv'
  <1> USE DEF LifecycleInv, CloseRedis
  <1>1. TypeOK'
    BY DEF TypeOK, PoolTypeOK, Phase, Resource
  <1>2. PhaseInv'
    BY DEF PhaseInv
  <1>3. NoHandlers' /\ SlotsInv' /\ HoldersUse' /\ PoolBounded'
    BY DEF NoHandlers, SlotsInv, PhaseInv, HoldersUse, PoolBounded, Opened
  <1> QED
    BY <1>1, <1>2, <1>3

LEMMA ClosePostgresKeeps == ASSUME LifecycleInv, ClosePostgres PROVE LifecycleInv'
  <1> USE DEF LifecycleInv, ClosePostgres
  <1>1. TypeOK'
    BY DEF TypeOK, PoolTypeOK, Phase, Resource
  <1>2. PhaseInv'
    BY DEF PhaseInv
  <1>3. NoHandlers' /\ SlotsInv' /\ HoldersUse'
    BY DEF NoHandlers, SlotsInv, PhaseInv, HoldersUse
  <1>4. db = "open" /\ idle \in Nat /\ Opened <= cfg.maxOpenConns
    BY DEF PhaseInv, TypeOK, PoolTypeOK, PoolBounded
  <1>5. PoolBounded'
    BY <1>4, HoldsFinite, LimitPositive DEF PoolBounded, Opened, PhaseInv
  <1> QED
    BY <1>1, <1>2, <1>3, <1>5

\* What the exit cuts off was running, so the code is not 0.
LEMMA ExitKeeps == ASSUME LifecycleInv, Exit PROVE LifecycleInv'
  <1> USE DEF LifecycleInv
  <1>1. \A s \in Slot :
          /\ slots[s].reply \in {"ordinary", "Refused", "Ready", "Cut"}
          /\ slots'[s] = IF s \in Running THEN FreeSlot("Cut")
                                          ELSE FreeSlot(slots[s].reply)
    BY DEF Exit, TypeOK, PoolTypeOK, SlotRecord
  <1>2. \A s \in Slot :
          /\ slots'[s] \in SlotRecord /\ slots'[s].pc = "free"
          /\ slots'[s].reply \in {"Cut", slots[s].reply}
          /\ slots'[s].reply = "Cut" => s \in Running \/ slots[s].reply = "Cut"
    <2> SUFFICES ASSUME NEW s \in Slot
                 PROVE  /\ slots'[s] \in SlotRecord /\ slots'[s].pc = "free"
                        /\ slots'[s].reply \in {"Cut", slots[s].reply}
                        /\ slots'[s].reply = "Cut"
                             => s \in Running \/ slots[s].reply = "Cut"
      OBVIOUS
    <2>1. CASE s \in Running
      BY <1>1, <2>1, FreeSlotTyped
    <2>2. CASE s \notin Running
      BY <1>1, <2>2, FreeSlotTyped
    <2> QED
      BY <2>1, <2>2
  <1>3. TypeOK'
    <2>1. slots' \in [Slot -> SlotRecord]
      BY <1>2 DEF Exit
    <2> QED
      BY <2>1 DEF Exit, TypeOK, PoolTypeOK, Phase, Resource
  <1>4. PhaseInv'
    BY DEF Exit, PhaseInv
  <1>5. NoHandlers'
    BY <1>2 DEF Exit, NoHandlers, Running
  <1>6. SlotsInv' /\ HoldersUse'
    BY <1>2 DEF Exit, SlotsInv, HoldersUse
  <1>7. PoolBounded'
    BY HoldsFinite, LimitPositive, FS_EmptySet
       DEF Exit, PoolBounded, Opened, TypeOK, PoolTypeOK, PhaseInv
  <1> QED
    BY <1>3, <1>4, <1>5, <1>6, <1>7

-----------------------------------------------------------------------------
(* The steps of clients, handlers and the pool. *)

\* When they touch only slots, and no connection changes hands.
LEMMA SlotFrame ==
    ASSUME LifecycleInv, UNCHANGED <<cfg, db, cache, idle, holds, processVars>>,
           NEW s \in Slot,
           NEW new \in SlotRecord, slots' = [slots EXCEPT ![s] = new],
           slots[s].pc # "use", new.pc # "use",
           new.pc # "free" => new.reply = "ordinary",
           new.pc = "wait" => new.left > 0,
           new.reply = "Refused" => code = "error",
           new.reply # "Cut",
           phase \notin {"load", "postgres", "redis"} /\ db # "none" /\ code # "ok"
    PROVE  LifecycleInv'
  <1> USE DEF LifecycleInv, processVars
  <1>1. \A x \in Slot : slots'[x] = IF x = s THEN new ELSE slots[x]
    BY DEF TypeOK, PoolTypeOK
  <1>2. TypeOK'
    BY DEF TypeOK, PoolTypeOK
  <1>3. PhaseInv' /\ PoolBounded'
    BY DEF PhaseInv, PoolBounded, Opened
  <1>4. NoHandlers' /\ SlotsInv' /\ HoldersUse'
    BY <1>1 DEF NoHandlers, SlotsInv, HoldersUse
  <1> QED
    BY <1>2, <1>3, <1>4

LEMMA ConnectKeeps ==
    ASSUME LifecycleInv, NEW s \in Slot, NEW n \in 0 .. MaxStatements, Connect(s, n)
    PROVE  LifecycleInv'
  <1> DEFINE new == [pc |-> "connected", left |-> n, pgOk |-> FALSE,
                     reply |-> "ordinary"]
  <1>1. new \in SlotRecord /\ new.pc = "connected" /\ new.reply = "ordinary"
    BY DEF SlotRecord
  <1>2. slots' = [slots EXCEPT ![s] = new] /\ phase = "serve" /\ slots[s].pc = "free"
    BY DEF Connect
  <1>3. db = "open" /\ code = "none"
    BY <1>2 DEF LifecycleInv, PhaseInv
  <1>4. UNCHANGED <<cfg, db, cache, idle, holds, processVars>>
    BY DEF Connect
  <1> HIDE DEF new
  <1> QED
    BY <1>1, <1>2, <1>3, <1>4, SlotFrame

LEMMA BeginKeeps ==
    ASSUME LifecycleInv, NEW s \in Slot, Begin(s)
    PROVE  LifecycleInv'
  <1> DEFINE new == [slots[s] EXCEPT !.pc = "run"]
  <1>1. slots[s] \in SlotRecord /\ slots[s].pc = "connected"
    BY DEF Begin, LifecycleInv, TypeOK, PoolTypeOK
  <1>2. slots[s].reply = "ordinary"
    BY <1>1 DEF LifecycleInv, SlotsInv
  <1>3. new \in SlotRecord /\ new.pc = "run" /\ new.reply = "ordinary"
    BY <1>1, <1>2 DEF SlotRecord
  <1>4. slots' = [slots EXCEPT ![s] = new]
    BY <1>1 DEF Begin, LifecycleInv, TypeOK, PoolTypeOK
  <1>5. UNCHANGED <<cfg, db, cache, idle, holds, processVars>>
    BY DEF Begin
  <1> HIDE DEF new
  <1> QED
    BY <1>1, <1>3, <1>4, <1>5, RunningNeedsPool, SlotFrame DEF LifecycleInv

\* A slot is freed by a client that goes, a handler that is done, a ping.
LEMMA FreeingKeeps ==
    ASSUME LifecycleInv, NEW s \in Slot, slots[s].pc \notin {"free", "use"},
           NEW r \in {"ordinary", "Ready"},
           slots' = [slots EXCEPT ![s] = FreeSlot(r)],
           UNCHANGED <<cfg, db, cache, idle, holds, processVars>>
    PROVE  LifecycleInv'
  BY RunningNeedsPool, FreeSlotTyped, SlotFrame DEF LifecycleInv

\* A handler is denied the connection it wants, or gives up waiting for it.
LEMMA DenyingKeeps ==
    ASSUME LifecycleInv, NEW s \in Slot, slots[s].pc \in {"run", "wait"},
           NEW r \in {"ordinary", "Refused"},
           r = "Refused" => db = "closed" /\ Alive,
           slots' = [slots EXCEPT ![s] = AfterStatement(s, FALSE, r)],
           UNCHANGED <<cfg, db, cache, idle, holds, processVars>>
    PROVE  LifecycleInv'
  <1> DEFINE new == AfterStatement(s, FALSE, r)
  <1>1. /\ new \in SlotRecord /\ new.pc \in {"free", "run", "redis"}
        /\ new.pc # "free" => new.reply = "ordinary"
        /\ new.reply \in {"ordinary", r}
    BY AfterStatementIs DEF LifecycleInv
  <1>2. /\ phase \notin {"load", "postgres", "redis"} /\ db # "none" /\ code # "ok"
        /\ r = "Refused" => code = "error"
    BY RunningNeedsPool DEF LifecycleInv, Alive
  <1> HIDE DEF new
  <1>3. slots' = [slots EXCEPT ![s] = new]
    BY DEF new
  <1> QED
    BY <1>1, <1>2, <1>3, SlotFrame

\* A handler gets a connection, idle or new.
LEMMA TakingKeeps ==
    ASSUME LifecycleInv, NEW s \in Slot, slots[s].pc \in {"run", "wait"},
           slots[s].left > 0, db = "open",
           \/ idle > 0 /\ idle' = idle - 1
           \/ HasRoom /\ idle' = idle,
           slots' = [slots EXCEPT ![s].pc = "use"],
           holds' = holds \cup {s},
           UNCHANGED <<cfg, db, cache, processVars>>
    PROVE  LifecycleInv'
  <1> USE DEF LifecycleInv, processVars
  <1>1. \A x \in Slot : slots'[x] = IF x = s THEN [slots[s] EXCEPT !.pc = "use"]
                                     ELSE slots[x]
    BY DEF TypeOK, PoolTypeOK
  <1>2. slots[s] \in SlotRecord /\ slots[s].reply = "ordinary"
    BY DEF TypeOK, PoolTypeOK, SlotsInv
  <1>3. /\ slots'[s] \in SlotRecord /\ slots'[s].pc = "use"
        /\ slots'[s].reply = "ordinary" /\ slots'[s].left > 0
    BY <1>1, <1>2 DEF SlotRecord
  <1>4. slots' \in [Slot -> SlotRecord] /\ idle' \in Nat /\ holds' \subseteq Slot
    BY <1>3 DEF TypeOK, PoolTypeOK
  <1>5. TypeOK'
    BY <1>4 DEF TypeOK, PoolTypeOK
  <1>6. PhaseInv'
    BY RunningNeedsPool DEF PhaseInv
  <1>7. NoHandlers'
    BY RunningNeedsPool DEF NoHandlers
  <1>8. SlotsInv' /\ HoldersUse'
    BY <1>1, <1>3 DEF SlotsInv, HoldersUse
  <1>9. s \notin holds
    BY DEF HoldersUse
  <1>10. Cardinality(holds') = Cardinality(holds) + 1
    BY <1>9, HoldsFinite, FS_AddElement
  <1>11. cfg.maxOpenConns \in Int /\ cfg.maxOpenConns > 0
    BY LimitPositive DEF PhaseInv
  <1>12. Opened <= cfg.maxOpenConns /\ idle \in Nat
    BY DEF PoolBounded, TypeOK, PoolTypeOK
  <1>13. Opened' <= cfg.maxOpenConns
    BY <1>10, <1>11, <1>12, HoldsFinite DEF Opened, HasRoom
  <1> QED
    BY <1>5, <1>6, <1>7, <1>8, <1>13 DEF PoolBounded

LEMMA AskKeeps ==
    ASSUME LifecycleInv, NEW s \in Slot, Alive, Ask(s), UNCHANGED <<cfg, processVars>>
    PROVE  LifecycleInv'
  <1>1. CASE db = "closed"
    BY <1>1, DenyingKeeps DEF Ask
  <1>2. CASE db = "open" /\ (idle > 0 \/ HasRoom)
    BY <1>2, TakingKeeps DEF Ask
  <1>3. CASE db = "open" /\ idle = 0 /\ ~HasRoom
    <2> DEFINE new == [slots[s] EXCEPT !.pc = "wait"]
    <2>1. slots[s] \in SlotRecord /\ slots[s].pc = "run" /\ slots[s].left > 0
      BY DEF Ask, LifecycleInv, TypeOK, PoolTypeOK
    <2>2. slots[s].reply = "ordinary"
      BY <2>1 DEF LifecycleInv, SlotsInv
    <2>3. /\ new \in SlotRecord /\ new.pc = "wait" /\ new.reply = "ordinary"
          /\ new.left > 0
      BY <2>1, <2>2 DEF SlotRecord
    <2>4. slots' = [slots EXCEPT ![s] = new]
      BY <1>3 DEF Ask, LifecycleInv, TypeOK, PoolTypeOK
    <2>5. UNCHANGED <<cfg, db, cache, idle, holds, processVars>>
      BY <1>3 DEF Ask
    <2> HIDE DEF new
    <2> QED
      BY <2>1, <2>3, <2>4, <2>5, RunningNeedsPool, SlotFrame DEF LifecycleInv
  <1> QED
    BY <1>1, <1>2, <1>3 DEF Ask

LEMMA PingRedisKeeps ==
    ASSUME LifecycleInv, NEW s \in Slot, PingRedis(s), UNCHANGED <<cfg, processVars>>
    PROVE  LifecycleInv'
  <1>1. PICK ok \in BOOLEAN :
          slots' = [slots EXCEPT ![s] =
                       FreeSlot(IF ok /\ slots[s].pgOk THEN "Ready" ELSE "ordinary")]
    BY DEF PingRedis
  <1>2. PICK r \in {"ordinary", "Ready"} : slots' = [slots EXCEPT ![s] = FreeSlot(r)]
    BY <1>1
  <1> QED
    BY <1>2, FreeingKeeps DEF PingRedis

LEMMA OpenKeeps ==
    ASSUME LifecycleInv, NEW s \in Slot, Open(s)
    PROVE  LifecycleInv'
  <1>1. slots[s].pc = "wait" /\ slots[s].left > 0
    BY DEF Open, OpenFor, Waiting, LifecycleInv, SlotsInv
  <1> QED
    BY <1>1, TakingKeeps DEF Open, OpenFor

\* A statement ends: what becomes of the handler, whoever gets its connection.
LEMMA AfterUse ==
    ASSUME LifecycleInv, NEW s \in Slot, slots[s].pc = "use", NEW ok \in BOOLEAN
    PROVE  LET after == [slots EXCEPT ![s] = AfterStatement(s, ok, "ordinary")]
           IN  /\ after \in [Slot -> SlotRecord]
               /\ \A x \in Slot \ {s} : after[x] = slots[x]
               /\ after[s].pc \notin {"use", "wait"} /\ after[s].reply = "ordinary"
  <1>1. slots[s].left > 0
    BY DEF LifecycleInv, SlotsInv
  <1> DEFINE new == AfterStatement(s, ok, "ordinary")
  <1>2. /\ new \in SlotRecord /\ new.pc \in {"free", "run", "redis"}
        /\ new.reply = "ordinary"
    BY <1>1, AfterStatementIs DEF LifecycleInv
  <1> HIDE DEF new
  <1>3. slots \in [Slot -> SlotRecord]
    BY DEF LifecycleInv, TypeOK, PoolTypeOK
  <1> QED
    BY <1>2, <1>3 DEF new

\* A connection is given back or closed.
LEMMA GivingKeeps ==
    ASSUME LifecycleInv, NEW s \in Slot, slots[s].pc = "use", NEW ok \in BOOLEAN,
           slots' = [slots EXCEPT ![s] = AfterStatement(s, ok, "ordinary")],
           holds' = holds \ {s},
           idle' \in {idle, idle + 1},
           UNCHANGED <<cfg, db, cache, processVars>>
    PROVE  LifecycleInv'
  <1> USE DEF LifecycleInv, processVars
  <1>1. /\ slots' \in [Slot -> SlotRecord]
        /\ \A x \in Slot \ {s} : slots'[x] = slots[x]
        /\ slots'[s].pc \notin {"use", "wait"} /\ slots'[s].reply = "ordinary"
    BY AfterUse
  <1>2. TypeOK'
    BY <1>1 DEF TypeOK, PoolTypeOK
  <1>3. PhaseInv' /\ NoHandlers'
    BY RunningNeedsPool DEF PhaseInv, NoHandlers
  <1>4. SlotsInv' /\ HoldersUse'
    BY <1>1 DEF SlotsInv, HoldersUse
  <1>5. s \in holds
    BY DEF HoldersUse
  <1>6. Cardinality(holds') = Cardinality(holds) - 1
    BY <1>5, HoldsFinite, FS_RemoveElement
  <1>7. cfg.maxOpenConns \in Int /\ Opened <= cfg.maxOpenConns /\ idle \in Nat
    BY RunningNeedsPool, LimitPositive DEF PhaseInv, PoolBounded, TypeOK, PoolTypeOK
  <1>8. Opened' <= cfg.maxOpenConns
    BY <1>6, <1>7, HoldsFinite DEF Opened
  <1> QED
    BY <1>2, <1>3, <1>4, <1>8 DEF PoolBounded

\* A connection goes from one handler to one that waits.
LEMMA HandingKeeps ==
    ASSUME LifecycleInv, NEW s \in Slot, slots[s].pc = "use", NEW ok \in BOOLEAN,
           NEW w \in Waiting,
           slots' = [[slots EXCEPT ![s] = AfterStatement(s, ok, "ordinary")]
                        EXCEPT ![w].pc = "use"],
           holds' = (holds \ {s}) \cup {w},
           UNCHANGED <<cfg, db, cache, idle, processVars>>
    PROVE  LifecycleInv'
  <1> USE DEF LifecycleInv, processVars
  <1> DEFINE after == [slots EXCEPT ![s] = AfterStatement(s, ok, "ordinary")]
  <1>1. /\ after \in [Slot -> SlotRecord]
        /\ \A x \in Slot \ {s} : after[x] = slots[x]
        /\ after[s].pc \notin {"use", "wait"} /\ after[s].reply = "ordinary"
    BY AfterUse
  <1>2. slots' = [after EXCEPT ![w].pc = "use"]
    OBVIOUS
  <1> HIDE DEF after
  <1>3. w \in Slot /\ w # s /\ slots[w].pc = "wait"
    BY DEF Waiting
  <1>4. /\ slots[w] \in SlotRecord /\ slots[w].left > 0
        /\ slots[w].reply = "ordinary"
    BY <1>3 DEF TypeOK, PoolTypeOK, SlotsInv
  <1>5. /\ slots'[w] = [slots[w] EXCEPT !.pc = "use"]
        /\ \A x \in Slot \ {w} : slots'[x] = after[x]
    BY <1>1, <1>2, <1>3
  <1>6. /\ slots'[w] \in SlotRecord /\ slots'[w].pc = "use"
        /\ slots'[w].left > 0 /\ slots'[w].reply = "ordinary"
    BY <1>4, <1>5 DEF SlotRecord
  <1>7. slots' \in [Slot -> SlotRecord]
    BY <1>1, <1>2, <1>3, <1>5, <1>6
  <1>8. TypeOK'
    BY <1>3, <1>7 DEF TypeOK, PoolTypeOK
  <1>9. PhaseInv' /\ NoHandlers'
    BY RunningNeedsPool DEF PhaseInv, NoHandlers
  <1>10. \A x \in Slot \ {s, w} : slots'[x] = slots[x]
    BY <1>1, <1>5
  <1>11. slots'[s].pc \notin {"use", "wait"} /\ slots'[s].reply = "ordinary"
    BY <1>1, <1>3, <1>5
  <1>12. SlotsInv' /\ HoldersUse'
    BY <1>3, <1>6, <1>10, <1>11 DEF SlotsInv, HoldersUse
  <1>13. s \in holds /\ w \notin holds
    BY <1>3 DEF HoldersUse
  <1>14. /\ Cardinality(holds \ {s}) = Cardinality(holds) - 1
         /\ IsFiniteSet(holds \ {s})
    BY <1>13, HoldsFinite, FS_RemoveElement
  <1>15. Cardinality(holds') = Cardinality(holds \ {s}) + 1
    BY <1>13, <1>14, FS_AddElement
  <1>16. Opened' = Opened
    BY <1>14, <1>15, HoldsFinite DEF Opened
  <1> QED
    BY <1>8, <1>9, <1>12, <1>16 DEF PoolBounded

LEMMA EndStatementKeeps ==
    ASSUME LifecycleInv, NEW s \in Slot, EndStatement(s)
    PROVE  LifecycleInv'
  <1>1. PICK ok \in BOOLEAN : Finish(s, ok)
    BY DEF EndStatement
  <1>2. slots[s].pc = "use" /\ UNCHANGED <<cfg, db, cache, processVars>>
    BY <1>1 DEF Finish, EndStatement
  <1>3. CASE db = "open" /\ Waiting # {}
    BY <1>1, <1>2, <1>3, HandingKeeps DEF Finish
  <1>4. CASE db # "open" \/ Waiting = {}
    BY <1>1, <1>2, <1>4, GivingKeeps DEF Finish
  <1> QED
    BY <1>3, <1>4

LEMMA EndContextKeeps ==
    ASSUME LifecycleInv, NEW s \in Slot, EndContext(s)
    PROVE  LifecycleInv'
  <1>1. CASE StopWaiting(s)
    BY <1>1, DenyingKeeps DEF StopWaiting, EndContext, Waiting
  <1>2. CASE Break(s)
    BY <1>2, GivingKeeps DEF Break, EndContext
  <1> QED
    BY <1>1, <1>2 DEF EndContext

LEMMA HandlerStepKeeps ==
    ASSUME LifecycleInv, NEW s \in Slot, HandlerStep(s)
    PROVE  LifecycleInv'
  <1>1. CASE Ask(s)
    BY <1>1, AskKeeps DEF HandlerStep
  <1>2. CASE Refuse(s)
    BY <1>2, DenyingKeeps DEF Refuse, HandlerStep, Waiting
  <1>3. CASE Reply(s)
    BY <1>3, FreeingKeeps DEF Reply, HandlerStep
  <1>4. CASE PingRedis(s)
    BY <1>4, PingRedisKeeps DEF HandlerStep
  <1> QED
    BY <1>1, <1>2, <1>3, <1>4 DEF HandlerStep

LEMMA MaintainKeeps == ASSUME LifecycleInv, Maintain PROVE LifecycleInv'
  <1> USE DEF LifecycleInv, Maintain, Retire, processVars
  <1>1. idle \in Nat /\ idle' \in Nat /\ idle' = idle - 1
    BY DEF TypeOK, PoolTypeOK
  <1>2. TypeOK' /\ PhaseInv'
    BY <1>1 DEF TypeOK, PoolTypeOK, PhaseInv
  <1>3. NoHandlers' /\ SlotsInv' /\ HoldersUse'
    BY DEF NoHandlers, SlotsInv, HoldersUse
  <1>4. db # "none" => Opened' <= cfg.maxOpenConns
    BY <1>1, HoldsFinite, LimitPositive DEF PoolBounded, Opened, PhaseInv
  <1> QED
    BY <1>2, <1>3, <1>4 DEF PoolBounded

LEMMA LifecycleStutters == ASSUME LifecycleInv, UNCHANGED vars PROVE LifecycleInv'
  BY DEF vars, poolVars, processVars, LifecycleInv, TypeOK, PoolTypeOK, PhaseInv,
         NoHandlers, SlotsInv, HoldersUse, PoolBounded, Opened

LEMMA LifecycleNext == LifecycleInv /\ [Next]_vars => LifecycleInv'
  <1> SUFFICES ASSUME LifecycleInv, [Next]_vars PROVE LifecycleInv'
    OBVIOUS
  <1>1. CASE UNCHANGED vars \/ Stopped
    BY <1>1, LifecycleStutters DEF Stopped
  <1>2. CASE \/ LoadConfig \/ StartTimer \/ Signal \/ Listen
             \/ SelectSignal \/ SelectError \/ Drained \/ DrainTimeout
    BY <1>2, RunStepKeeps
  <1>3. CASE OpenPostgres \/ OpenRedis
    BY <1>3, OpenPostgresKeeps, OpenRedisKeeps
  <1>4. CASE CloseRedis \/ ClosePostgres \/ Exit
    BY <1>4, CloseRedisKeeps, ClosePostgresKeeps, ExitKeeps
  <1>5. ASSUME NEW s \in Slot, NEW n \in 0 .. MaxStatements, Connect(s, n)
        PROVE  LifecycleInv'
    BY <1>5, ConnectKeeps
  <1>6. ASSUME NEW s \in Slot, Begin(s) PROVE LifecycleInv'
    BY <1>6, BeginKeeps
  <1>7. ASSUME NEW s \in Slot, Drop(s) PROVE LifecycleInv'
    BY <1>7, FreeingKeeps DEF Drop
  <1>8. ASSUME NEW s \in Slot, HandlerStep(s) \/ Open(s) \/ EndStatement(s) \/ EndContext(s)
        PROVE  LifecycleInv'
    BY <1>8, HandlerStepKeeps, OpenKeeps, EndStatementKeeps, EndContextKeeps
  <1>9. CASE Maintain
    BY <1>9, MaintainKeeps
  <1> QED
    BY <1>1, <1>2, <1>3, <1>4, <1>5, <1>6, <1>7, <1>8, <1>9 DEF Next

LEMMA LifecycleInvariant == Spec => []LifecycleInv
  BY LifecycleInit, LifecycleNext, PTL DEF Spec

-----------------------------------------------------------------------------
(* The theorems. *)

\* Every variable keeps its type, and no counter of the pool goes below 0.
THEOREM LifecycleTyped == Spec => []TypeOK
  <1>1. LifecycleInv => TypeOK
    BY DEF LifecycleInv
  <1> QED
    BY <1>1, LifecycleInvariant, PTL

\* However many clients there are, the database sees at most the configured
\* number of connections (postgres.go, SetMaxOpenConns; config.go, validate).
THEOREM PoolIsBounded == Spec => []PoolBounded
  <1>1. LifecycleInv => PoolBounded
    BY DEF LifecycleInv
  <1> QED
    BY <1>1, LifecycleInvariant, PTL

\* Nothing lies idle while somebody waits: a connection given back goes to one
\* of those who wait (DB.putConn) and only who finds none idle waits (DB.conn).
NothingIdle == db = "open" /\ Waiting # {} => idle = 0

LEMMA WaitingShrinks ==
    ASSUME NothingIdle, Waiting' \subseteq Waiting,
           db' = "open" => db = "open" /\ idle' = idle
    PROVE  NothingIdle'
  BY DEF NothingIdle

LEMMA NothingIdleNext ==
    ASSUME LifecycleInv, NothingIdle, [Next]_vars
    PROVE  NothingIdle'
  <1>1. TypeOK /\ SlotsInv /\ PhaseInv /\ NoHandlers /\ slots \in [Slot -> SlotRecord]
    BY DEF LifecycleInv, TypeOK, PoolTypeOK
  <1>2. ASSUME UNCHANGED <<db, idle, slots>>
        PROVE  NothingIdle'
    BY <1>2 DEF NothingIdle, Waiting
  <1>3. CASE \/ LoadConfig \/ StartTimer \/ Signal \/ Listen \/ SelectSignal
             \/ SelectError \/ Drained \/ DrainTimeout \/ OpenRedis \/ CloseRedis
             \/ Stopped \/ UNCHANGED vars
    BY <1>2, <1>3
    DEF LoadConfig, StartTimer, Signal, Listen, SelectSignal, SelectError, Drained,
        DrainTimeout, OpenRedis, CloseRedis, Stopped, vars, poolVars
  <1>4. CASE OpenPostgres
    BY <1>1, <1>4 DEF OpenPostgres, NoHandlers, NothingIdle, Waiting
  <1>5. CASE ClosePostgres \/ Exit
    BY <1>1, <1>5 DEF ClosePostgres, Exit, PhaseInv, NothingIdle
  <1>6. CASE Maintain
    BY <1>1, <1>6 DEF Maintain, Retire, NothingIdle, Waiting
  <1>7. ASSUME NEW s \in Slot,
               \/ \E n \in 0 .. MaxStatements : Connect(s, n)
               \/ Begin(s) \/ Drop(s)
        PROVE  NothingIdle'
    <2>1. slots'[s].pc # "wait" /\ \A x \in Slot : x # s => slots'[x] = slots[x]
      BY <1>1, <1>7 DEF Connect, Begin, Drop, FreeSlot, SlotRecord
    <2> QED
      BY <1>7, <2>1, WaitingShrinks DEF Connect, Begin, Drop, Waiting
  <1>8. ASSUME NEW s \in Slot, slots[s].pc # "free", NEW ok \in BOOLEAN,
               ok => slots[s].left > 0, NEW r \in {"ordinary", "Refused"},
               slots' = [slots EXCEPT ![s] = AfterStatement(s, ok, r)]
        PROVE  Waiting' \subseteq Waiting
    <2>1. AfterStatement(s, ok, r).pc # "wait"
      BY <1>1, <1>8, AfterStatementIs
    <2>2. \A x \in Slot : x # s => slots'[x] = slots[x]
      BY <1>1, <1>8
    <2>3. slots'[s].pc # "wait"
      BY <1>1, <1>8, <2>1
    <2> QED
      BY <2>2, <2>3 DEF Waiting
  <1>9. ASSUME NEW s \in Slot, HandlerStep(s)
         PROVE  NothingIdle'
    <2>1. CASE Ask(s)
      <3>1. CASE db = "closed"
        BY <2>1, <3>1 DEF Ask, NothingIdle
      <3>2. CASE db = "open" /\ (idle > 0 \/ HasRoom)
        <4>1. slots' = [slots EXCEPT ![s].pc = "use"] /\ idle' <= idle /\ idle' \in Nat
          BY <1>1, <2>1, <3>2 DEF Ask, TypeOK, PoolTypeOK
        <4>2. Waiting' \subseteq Waiting
          BY <1>1, <4>1 DEF Waiting, SlotRecord
        <4> QED
          BY <1>1, <2>1, <4>1, <4>2 DEF Ask, NothingIdle, TypeOK, PoolTypeOK
      <3>3. CASE db = "open" /\ idle = 0 /\ ~HasRoom
        BY <2>1, <3>3 DEF Ask, NothingIdle
      <3> QED
        BY <2>1, <3>1, <3>2, <3>3 DEF Ask
    <2>2. CASE Refuse(s)
      BY <2>2 DEF Refuse, NothingIdle
    <2>3. CASE Reply(s) \/ PingRedis(s)
      BY <1>1, <2>3, WaitingShrinks DEF Reply, PingRedis, FreeSlot, Waiting
    <2> QED
      BY <1>9, <2>1, <2>2, <2>3 DEF HandlerStep
  <1>10. ASSUME NEW s \in Slot, Open(s)
         PROVE  NothingIdle'
    BY <1>1, <1>10, WaitingShrinks DEF Open, OpenFor, Waiting
  <1>11. ASSUME NEW s \in Slot, EndStatement(s)
         PROVE  NothingIdle'
    <2>1. PICK ok \in BOOLEAN : Finish(s, ok)
      BY <1>11 DEF EndStatement
    <2>2. slots[s].pc = "use" /\ slots[s].left > 0
      BY <1>1, <2>1 DEF Finish, SlotsInv
    <2>3. CASE db = "open" /\ Waiting # {}
      <3>1. PICK w \in Waiting :
               slots' = [[slots EXCEPT ![s] = AfterStatement(s, ok, "ordinary")]
                            EXCEPT ![w].pc = "use"]
        BY <2>1, <2>3 DEF Finish
      <3>2. /\ AfterStatement(s, ok, "ordinary").pc # "wait" /\ w \in Slot
            /\ AfterStatement(s, ok, "ordinary") \in SlotRecord
        BY <1>1, <2>2, AfterStatementIs DEF Waiting
      <3>3. \A x \in Slot : x \notin {s, w} => slots'[x] = slots[x]
        BY <1>1, <3>1, <3>2
      <3>4. slots'[s].pc # "wait" /\ slots'[w].pc = "use"
        BY <1>1, <3>1, <3>2 DEF SlotRecord
      <3>5. Waiting' \subseteq Waiting
        BY <3>3, <3>4 DEF Waiting
      <3> QED
        BY <2>1, <2>3, <3>5, WaitingShrinks DEF Finish
    <2>4. CASE db # "open" \/ Waiting = {}
      <3>1. Waiting' \subseteq Waiting
        BY <1>8, <2>1, <2>2, <2>4 DEF Finish
      <3> QED
        BY <2>1, <2>4, <3>1 DEF Finish, NothingIdle
    <2> QED
      BY <2>3, <2>4
  <1>12. ASSUME NEW s \in Slot, EndContext(s)
         PROVE  NothingIdle'
    <2>1. /\ slots[s].pc \in {"wait", "use"} /\ UNCHANGED <<db, idle>>
          /\ slots' = [slots EXCEPT ![s] = AfterStatement(s, FALSE, "ordinary")]
      BY <1>12 DEF EndContext, StopWaiting, Break, Waiting
    <2> QED
      BY <1>8, <2>1, WaitingShrinks
  <1> QED
    BY <1>3, <1>4, <1>5, <1>6, <1>7, <1>9, <1>10, <1>11, <1>12 DEF Next

\* Who waits for a connection waits for somebody who has one and is using it,
\* or for one that may be opened: handlers never wait for each other in vain.
THEOREM NobodyWaitsInVain ==
    Spec => [](db = "open" /\ Waiting # {} =>
                  /\ idle = 0
                  /\ HasRoom \/ \E s \in holds : slots[s].pc = "use")
  <1>1. Init => NothingIdle
    BY DEF Init, PoolInit, NothingIdle
  <1>2. LifecycleInv /\ NothingIdle /\ [Next]_vars => NothingIdle'
    BY NothingIdleNext
  <1>3. LifecycleInv /\ NothingIdle =>
           (db = "open" /\ Waiting # {} =>
               /\ idle = 0
               /\ HasRoom \/ \E s \in holds : slots[s].pc = "use")
    <2> SUFFICES ASSUME LifecycleInv, NothingIdle, db = "open", Waiting # {}, ~HasRoom
                 PROVE  \E s \in holds : slots[s].pc = "use"
      BY DEF NothingIdle
    <2>1. idle = 0 /\ cfg.maxOpenConns \in Int /\ cfg.maxOpenConns > 0
      BY LimitPositive DEF NothingIdle, LifecycleInv, PhaseInv
    <2>2. Cardinality(holds) # 0
      BY <2>1, HoldsFinite DEF HasRoom, Opened, LifecycleInv
    <2>3. holds # {}
      BY <2>2, FS_EmptySet
    <2> QED
      BY <2>3 DEF LifecycleInv, HoldersUse
  <1> QED
    BY <1>1, <1>2, <1>3, LifecycleInvariant, PTL DEF Spec

\* Exit code 0 is truthful: a signal came, and no request was cut off or
\* refused (server.go, Run; main.go, run).
THEOREM CleanExitIsClean == Spec => []CleanExit
  <1>1. LifecycleInv => CleanExit
    BY DEF LifecycleInv, CleanExit, PhaseInv, NoHandlers
  <1> QED
    BY <1>1, LifecycleInvariant, PTL

\* Every path out of run closes what was opened on it (main.go, the defers).
THEOREM EverythingCloses == Spec => []NothingLeftOpen
  <1>1. LifecycleInv => NothingLeftOpen
    BY DEF LifecycleInv, NothingLeftOpen, PhaseInv
  <1> QED
    BY <1>1, LifecycleInvariant, PTL

\* Between asking Postgres and asking Redis a probe's slot is left alone by
\* everybody else until the exit.
LEMMA OnlyThePingReplies ==
    ASSUME LifecycleInv, [Next]_vars, NEW s \in Slot, slots[s].pc = "redis"
    PROVE  \/ slots'[s].reply # "Ready"
           \/ PingRedis(s)
  <1>1. slots \in [Slot -> SlotRecord] /\ slots[s].reply = "ordinary"
    BY DEF LifecycleInv, TypeOK, PoolTypeOK, SlotsInv
  <1>2. CASE UNCHANGED slots
    BY <1>1, <1>2
  <1>3. CASE Exit
    BY <1>1, <1>3 DEF Exit, Running, FreeSlot
  <1>4. ASSUME NEW x \in Slot, NEW n \in 0 .. MaxStatements, Connect(x, n)
        PROVE  slots'[s].reply # "Ready"
    BY <1>1, <1>4 DEF Connect
  <1>5. ASSUME NEW x \in Slot, Begin(x) \/ Drop(x) \/ Open(x) \/ EndContext(x)
        PROVE  slots'[s].reply # "Ready"
    BY <1>1, <1>5 DEF Begin, Drop, Open, OpenFor, Waiting, EndContext,
                      StopWaiting, Break
  <1>6. ASSUME NEW x \in Slot, EndStatement(x)
        PROVE  slots'[s].reply # "Ready"
    BY <1>1, <1>6 DEF EndStatement, Finish, Waiting
  <1>7. ASSUME NEW x \in Slot, HandlerStep(x)
        PROVE  slots'[s].reply # "Ready" \/ PingRedis(s)
    <2>1. CASE x = s
      BY <1>7, <2>1 DEF HandlerStep, Ask, Refuse, Reply, Waiting
    <2>2. CASE x # s
      BY <1>1, <1>7, <2>2 DEF HandlerStep, Ask, Refuse, Reply, PingRedis
    <2> QED
      BY <2>1, <2>2
  <1> QED
    BY <1>2, <1>3, <1>4, <1>5, <1>6, <1>7
       DEF Next, vars, poolVars, LoadConfig, OpenPostgres, OpenRedis, StartTimer,
           Signal, Listen, SelectSignal, SelectError, Drained, DrainTimeout,
           CloseRedis, ClosePostgres, Maintain, Retire, Stopped

\* A probe that answers ready answers while the pool and the Redis client are
\* both there (health.go, Readyz): the pool outlives the client.
THEOREM ReadyIsTrue == Spec => ReadyWhileOpen
  <1>1. ASSUME LifecycleInv, [Next]_vars, NEW s \in Slot,
               slots[s].pc = "redis", slots'[s].reply = "Ready"
        PROVE  db = "open" /\ cache = "open"
    <2>1. PingRedis(s)
      BY <1>1, OnlyThePingReplies
    <2>2. slots \in [Slot -> SlotRecord]
      BY <1>1 DEF LifecycleInv, TypeOK, PoolTypeOK
    <2>3. cache = "open"
      BY <1>1, <2>1, <2>2 DEF PingRedis, FreeSlot
    <2> QED
      BY <1>1, <2>3 DEF LifecycleInv, PhaseInv, TypeOK, Phase
  <1>2. LifecycleInv /\ [Next]_vars =>
          [\A s \in Slot : slots[s].pc = "redis" /\ slots'[s].reply = "Ready" =>
                              db = "open" /\ cache = "open"]_vars
    BY <1>1
  <1> QED
    BY <1>2, LifecycleInvariant, PTL DEF Spec, ReadyWhileOpen
=============================================================================
