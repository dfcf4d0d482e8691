-------------------------------- MODULE StartUp --------------------------------
(***************************************************************************)
(* The start of the processes of one installation (worker and web) over one  *)
(* database: building the container, creating and migrating the schema,      *)
(* seeding the administrator once, the checks of users and of the broker's   *)
(* configuration, and the degraded web process that comes back later.        *)
(***************************************************************************)
EXTENDS Integers, Sequences, FiniteSets

CONSTANTS
    Processes, WebProcesses,   \* all of them, and those build_wsgi_app starts
    NoProcess,
    OldTables,                 \* the tables that _migrate_legacy_schema adds a column to, in order
    Environments,              \* the environments that occur
    FirstDatabases,            \* the databases that are found
    MaxStarts                  \* bound on the starts of a process

\* Any database of this program; "role" is that of the administrator's row.
UserRoles == {"none", "viewer", "trader", "admin"}
Databases == [tables : BOOLEAN, columns : SUBSET STRING, stamps : {"legacy", "sqlalchemy"},
              role : UserRoles, others : UserRoles, marked : BOOLEAN, audits : Nat]

\* The mark of the bootstrap comes with its one audit row.
ASSUME StartUpAssumption ==
    /\ WebProcesses \subseteq Processes /\ NoProcess \notin Processes /\ MaxStarts \in Nat
    /\ OldTables \in Seq(STRING) /\ FirstDatabases \subseteq Databases
    /\ \A d \in FirstDatabases : (d.marked <=> d.audits > 0) /\ d.audits <= 1

VARIABLES
    env,     \* [url, driver, mode, provider, dryRun, confirm, credentials, endpoints, enforce,
             \*  bootstrap, update]
    store,   \* [tables, columns, stamps, role, others, marked, audits]
    writer,  \* who is in a transaction that writes
    process, \* [pc, at, noted, starts, why, alone, broker]
    history  \* whether the administrator was demoted for good, and whether a bootstrap found users

startVars == <<env, store, writer, process, history>>

StateNames == {"down", "looks", "creates", "reads", "alters", "normalizes", "commits", "armed", "user",
               "inserts", "updates", "created", "promoted", "validates", "broker", "up", "degraded"}
Resting == {"down", "up", "degraded"}
Fresh == [pc |-> "down", at |-> 1, noted |-> FALSE, starts |-> 0, why |-> "none", alone |-> TRUE, broker |-> "none"]

StartUpTypeOK ==
    /\ env \in Environments /\ writer \in Processes \cup {NoProcess}
    /\ \A p \in Processes : process[p].pc \in StateNames /\ process[p].starts \in 0..MaxStarts
                            /\ process[p].at \in 1..(Len(OldTables) + 1)
    /\ writer # NoProcess => process[writer].pc \in {"commits", "created", "promoted"}

StartUpInit ==
    /\ env \in Environments /\ store \in FirstDatabases
    /\ writer = NoProcess /\ process = [p \in Processes |-> Fresh]
    /\ history = [demoted |-> FALSE, foundUsers |-> FALSE]

Begun == {p \in Processes : process[p].pc \notin Resting}

\* resolve_database_url: without the driver PostgreSQL becomes the local file.
IsSqlite == env.url # "postgres" \/ ~env.driver

\* A step of p: whoever else is starting is no longer alone.
Goes(p, fields) ==
    process' = [q \in Processes |->
        IF q = p THEN [fields EXCEPT !.alone = @ /\ Begun \subseteq {p}]
        ELSE IF q \in Begun THEN [process[q] EXCEPT !.alone = FALSE] ELSE process[q]]
To(p, pc) == Goes(p, [process[p] EXCEPT !.pc = pc])

\* DatabaseInitializationError: a web process goes on degraded, any other one ends; other errors
\* end both.
Refused(p) ==
    Goes(p, [process[p] EXCEPT !.pc = IF p \in WebProcesses THEN "degraded" ELSE "down", !.why = "database"])
Ends(p, why) == Goes(p, [process[p] EXCEPT !.pc = "down", !.why = why])

-----------------------------------------------------------------------------
(* The schema *)

\* build_app_container, up to DataAccess().
Boots(p) ==
    /\ process[p].pc = "down" /\ process[p].starts < MaxStarts
    /\ Goes(p, [Fresh EXCEPT !.pc = "looks", !.starts = process[p].starts + 1])
    /\ UNCHANGED <<env, store, writer, history>>

\* create_all asks which tables there are, then creates the missing ones; that another process has
\* created them since is an OperationalError on SQLite only.
LooksForTables(p) ==
    /\ process[p].pc = "looks"
    /\ Goes(p, [process[p] EXCEPT !.pc = "creates", !.noted = ~store.tables])
    /\ UNCHANGED <<env, store, writer, history>>

CreatesTables(p) ==
    /\ process[p].pc = "creates"
    /\ IF process[p].noted /\ store.tables
       THEN /\ IF IsSqlite THEN Refused(p) ELSE Ends(p, "database")
            /\ UNCHANGED store
       ELSE /\ To(p, IF IsSqlite THEN "reads" ELSE "armed")
            /\ store' = IF process[p].noted
                        THEN [store EXCEPT !.tables = TRUE, !.columns = {OldTables[i] : i \in DOMAIN OldTables}]
                        ELSE store
    /\ UNCHANGED <<env, writer, history>>

\* A form with a plausible bug: the columns are taken as read at the start.
AltersBlindly(p) ==
    /\ process[p].pc = "reads"
    /\ To(p, "normalizes")
    /\ UNCHANGED <<env, store, writer, history>>

\* _migrate_*_table: PRAGMA table_info, then ALTER TABLE, each by itself.
ReadsColumns(p) ==
    /\ process[p].pc = "reads"
    /\ IF process[p].at > Len(OldTables) THEN To(p, "normalizes")
       ELSE Goes(p, [process[p] EXCEPT !.pc = "alters", !.noted = OldTables[process[p].at] \notin store.columns])
    /\ UNCHANGED <<env, store, writer, history>>

AltersTable(p) ==
    LET table == OldTables[process[p].at] IN
    /\ process[p].pc = "alters"
    /\ IF process[p].noted /\ table \in store.columns
       THEN Refused(p) /\ UNCHANGED store
       ELSE /\ Goes(p, [process[p] EXCEPT !.pc = "reads", !.at = @ + 1])
            /\ store' = IF process[p].noted THEN [store EXCEPT !.columns = @ \cup {table}] ELSE store
    /\ UNCHANGED <<env, writer, history>>

\* A write waits for the other writer; on SQLite only for the busy timeout.
Waits(p) ==
    /\ writer \notin {p, NoProcess} /\ IsSqlite
    /\ Refused(p)
    /\ UNCHANGED <<env, store, writer, history>>

\* _normalize_timestamp_columns opens the transaction that ends with the indexes.
Normalizes(p) ==
    /\ process[p].pc = "normalizes"
    /\ \/ /\ writer = NoProcess /\ writer' = p
          /\ To(p, "commits") /\ UNCHANGED <<env, store, history>>
       \/ Waits(p)

CommitsSchema(p) ==
    /\ process[p].pc = "commits"
    /\ store' = [store EXCEPT !.stamps = "sqlalchemy"]
    /\ writer' = NoProcess
    /\ To(p, "armed") /\ UNCHANGED <<env, history>>

-----------------------------------------------------------------------------
(* The administrator *)

ReadsMark(p) ==
    /\ process[p].pc = "armed"
    /\ To(p, IF ~env.bootstrap \/ store.marked THEN "validates" ELSE "user")
    /\ UNCHANGED <<env, store, writer, history>>

ReadsUser(p) ==
    /\ process[p].pc = "user"
    /\ To(p, IF store.role = "none" THEN "inserts" ELSE IF env.update THEN "updates" ELSE "validates")
    /\ UNCHANGED <<env, store, writer, history>>

\* A form with a plausible bug: the transaction stays open after the IntegrityError.
InsertsUserHoldingOn(p) ==
    /\ process[p].pc = "inserts" /\ writer = NoProcess /\ writer' = p
    /\ To(p, IF store.role # "none" THEN "validates" ELSE "created")
    /\ UNCHANGED <<env, store, history>>

\* INSERT INTO users: the other process's row is an IntegrityError, and all is well.
InsertsUser(p) ==
    /\ process[p].pc = "inserts"
    /\ \/ /\ writer = NoProcess
          /\ IF store.role # "none" THEN To(p, "validates") /\ UNCHANGED writer
             ELSE To(p, "created") /\ writer' = p
          /\ UNCHANGED <<env, store, history>>
       \/ Waits(p)

UpdatesUser(p) ==
    /\ process[p].pc = "updates"
    /\ \/ /\ writer = NoProcess /\ writer' = p
          /\ To(p, "promoted") /\ UNCHANGED <<env, store, history>>
       \/ Waits(p)

\* The audit row and the mark, in one transaction with the user.  A mark that is there already is
\* passed over; PostgreSQL has given up the transaction by then.
CommitsSeed(p) ==
    /\ process[p].pc \in {"created", "promoted"}
    /\ LET undone == store.marked /\ ~IsSqlite IN
       /\ store' = IF undone THEN store
                   ELSE [store EXCEPT !.role = "admin", !.marked = TRUE, !.audits = @ + 1]
       /\ history' = [history EXCEPT !.foundUsers = @ \/ (~undone /\ store.others # "none")]
    /\ writer' = NoProcess
    /\ To(p, "validates") /\ UNCHANGED env

\* _validate_privileged_user_exists
Validates(p) ==
    /\ process[p].pc = "validates"
    /\ IF env.enforce /\ store.role # "admin" /\ store.others # "trader" THEN Ends(p, "users") ELSE To(p, "broker")
    /\ UNCHANGED <<env, store, writer, history>>

-----------------------------------------------------------------------------
(* The broker *)

EffectiveMode == IF env.provider = "algolab" THEN "algolab" ELSE env.mode
LiveExecution == EffectiveMode = "live" \/ (EffectiveMode = "algolab" /\ ~env.dryRun)

\* validate_broker_config
BrokerConfigured ==
    /\ LiveExecution => env.url = "postgres"
    /\ ~(env.mode = "live" /\ env.provider \in {"live", "paper"}) /\ env.provider = "algolab" =>
          /\ env.credentials
          /\ ~env.dryRun => env.confirm /\ env.endpoints

\* _build_broker: LiveBroker knows no venue but algolab, which does not lead to it.
BrokerBuilt ==
    CASE EffectiveMode = "algolab" -> IF env.dryRun THEN "algolab_dry" ELSE "algolab_live"
      [] EffectiveMode = "live" -> "none"
      [] OTHER -> "paper"

BuildsBroker(p) ==
    /\ process[p].pc = "broker"
    /\ IF BrokerConfigured /\ BrokerBuilt # "none"
       THEN Goes(p, [process[p] EXCEPT !.pc = "up", !.broker = BrokerBuilt])
       ELSE Ends(p, "config")
    /\ UNCHANGED <<env, store, writer, history>>

-----------------------------------------------------------------------------
(* What happens to them *)

\* A crash anywhere gives up the open transaction.
Crashes(p) ==
    /\ process[p].pc # "down"
    /\ Goes(p, [process[p] EXCEPT !.pc = "down", !.why = "crash", !.broker = "none"])
    /\ writer' = IF writer = p THEN NoProcess ELSE writer
    /\ UNCHANGED <<env, store, history>>

\* _schedule_degraded_exit: SIGTERM when the degraded life is over.
DegradedExpires(p) ==
    /\ process[p].pc = "degraded"
    /\ Goes(p, [process[p] EXCEPT !.pc = "down"])
    /\ UNCHANGED <<env, store, writer, history>>

\* An operator takes the role away, or deletes the row of bootstrap_state to arm the bootstrap again.
Demotes ==
    /\ store.role = "admin" /\ writer = NoProcess
    /\ store' = [store EXCEPT !.role = "viewer"]
    /\ history' = [history EXCEPT !.demoted = store.marked /\ Begun = {}]
    /\ UNCHANGED <<env, writer, process>>

Rearms ==
    /\ store.marked /\ store.role = "viewer" /\ writer = NoProcess
    /\ store' = [store EXCEPT !.marked = FALSE, !.audits = 0]
    /\ history' = [history EXCEPT !.demoted = FALSE]
    /\ UNCHANGED <<env, writer, process>>

StartUpNext ==
    \/ \E p \in Processes :
          \/ Boots(p) \/ LooksForTables(p) \/ CreatesTables(p) \/ ReadsColumns(p) \/ AltersTable(p)
          \/ Normalizes(p) \/ CommitsSchema(p)
          \/ ReadsMark(p) \/ ReadsUser(p) \/ InsertsUser(p) \/ UpdatesUser(p) \/ CommitsSeed(p)
          \/ Validates(p) \/ BuildsBroker(p) \/ Crashes(p) \/ DegradedExpires(p)
    \/ Demotes \/ Rearms

StartUpSpec == StartUpInit /\ [][StartUpNext]_startVars

-----------------------------------------------------------------------------
\* Whoever is past the migration finds the whole schema and no stamp of the old form.
SchemaWhole ==
    \A p \in Processes : process[p].pc \in {"armed", "user", "inserts", "updates", "created", "promoted",
                                            "validates", "broker", "up"} =>
        /\ store.tables
        /\ IsSqlite => {OldTables[i] : i \in DOMAIN OldTables} \subseteq store.columns /\ store.stamps = "sqlalchemy"

\* The one-shot bootstrap: it is recorded with what it did or not at all, PostgreSQL does it once for
\* all who start together, and who was demoted afterwards stays so through restarts and crashes.
BootstrapOneShot ==
    /\ store.marked <=> store.audits > 0
    /\ ~IsSqlite => store.audits <= 1
    /\ history.demoted => store.role # "admin"

\* Only company makes the database refuse a start: who starts alone is let in, whatever crashed before.
LoneStartSucceeds == \A p \in Processes : process[p].why = "database" => ~process[p].alone

\* BROKER_PROVIDER=algolab trades live only with credentials, endpoints and the confirmation.
ProviderConfirmed ==
    \A p \in Processes : process[p].broker = "algolab_live" /\ env.provider = "algolab" =>
        env.confirm /\ env.credentials /\ env.endpoints

\* The four together.
StartsSound == SchemaWhole /\ BootstrapOneShot /\ LoneStartSucceeds /\ ProviderConfirmed

\* "A live order needs two confirmations: ALGOLAB_DRY_RUN=false and CONFIRM_LIVE_TRADING=true
\* together" (README.md:335).
LiveConfirmed == \A p \in Processes : process[p].broker = "algolab_live" => env.confirm

\* "Live broker execution requires a persistent non-SQLite DATABASE_URL" (settings.py:279).
LiveOnLastingStore == \A p \in Processes : process[p].broker = "algolab_live" => ~IsSqlite

\* "With at least one user in the users table the bootstrap settings are ignored" (README.md:289).
BootstrapOnEmpty == ~history.foundUsers
=============================================================================
