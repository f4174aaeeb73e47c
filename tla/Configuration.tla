---------------------------- MODULE Configuration ---------------------------
(***************************************************************************)
(* What config.Load makes of the environment: read once, checked once, and *)
(* never changed.  A number or duration that does not parse is read as 0,  *)
(* and one without a unit as nanoseconds, so both are values like others.  *)
(* Of strings only the length matters, or whether they are empty.          *)
(***************************************************************************)
EXTENDS Integers

CONSTANTS
    Settings   \* the configurations the process may be started with

VARIABLES
    cfg        \* the one it was started with

\* Settings that may not be empty.
Required == {"POSTGRES_HOST", "POSTGRES_USER", "POSTGRES_DB", "REDIS_ADDR",
             "UPLOAD_BASE_DIR"}

Config == [env           : STRING,
           port          : Int,
           empty         : SUBSET Required,
           maxOpenConns  : Int,
           maxIdleConns  : Int,
           jwtSecret     : Nat,
           ttl           : Int,
           webhookSecret : Nat,
           maxSize       : Int]

ASSUME SettingsAssumption == \A c \in Settings : c \in Config

\* Mutant: the sizes of the pool are not checked.
ValidatesButPool(c) ==
    /\ c.env \in {"development", "production"}
    /\ c.port > 0 /\ c.port <= 65535
    /\ c.empty = {}
    /\ c.jwtSecret >= 32 /\ c.webhookSecret >= 32
    /\ c.ttl > 0
    /\ c.maxSize > 0

\* Config.validate.  Timeouts of the HTTP server are not checked: a shutdown
\* timeout of 0 is one that has passed when it is set.
Validates(c) ==
    /\ c.env \in {"development", "production"}
    /\ c.port > 0 /\ c.port <= 65535
    /\ c.empty = {}
    /\ c.maxOpenConns > 0
    /\ c.maxIdleConns <= c.maxOpenConns
    /\ c.jwtSecret >= 32 /\ c.webhookSecret >= 32
    /\ c.ttl > 0
    /\ c.maxSize > 0
=============================================================================
