------------------------------ MODULE SqliteImport ------------------------------
(***************************************************************************)
(* The script import_sqlite_to_postgres for one table: rows of several old   *)
(* files are added to the shared database, those it has already left out,    *)
(* while the bot writes rows of its own.  What of a row counts is its key    *)
(* after the conversion of its columns: rows whose time cannot be read have  *)
(* one key between them, and no column of a time takes what they become.     *)
(***************************************************************************)
EXTENDS Naturals

CONSTANTS
    NSources,    \* the files named, in order of priority
    ImportKeys,  \* bound on the keys of rows
    Unreadable,  \* the key of the rows whose time cannot be read
    Importers    \* runs of the script that may be under way together

ASSUME ImportAssumption == NSources \in Nat

VARIABLES
    contents,    \* the keys of the rows in a file
    isKey,       \* the key is the table's primary key (app_settings)
    sharedRows,  \* the rows of the table: its key, and the file it came from or 0 for the bot
    importer,    \* what a run of the script is doing
    raced,       \* history: keys that were written by another while a run had read the table
    imported     \* history: keys of the files that some run has come to the end of

importVars == <<contents, isKey, sharedRows, importer, raced, imported>>

Sources == 1..NSources
Importing(pc, source, seen, staged, offered) ==
    [pc |-> pc, source |-> source, seen |-> seen, staged |-> staged, offered |-> offered]
NoImport == Importing("idle", 0, {}, {}, {})

ImportTypeOK ==
    /\ contents \in [Sources -> SUBSET ImportKeys] /\ isKey \in BOOLEAN
    /\ sharedRows \subseteq [key : ImportKeys, from : 0..NSources]
    /\ importer \in [Importers -> [pc : {"idle", "next", "insert"}, source : 0..NSources + 1,
                                   seen : SUBSET ImportKeys,
                                   staged : SUBSET ImportKeys, offered : SUBSET ImportKeys]]
    /\ raced \subseteq ImportKeys /\ imported \subseteq ImportKeys

ImportInit ==
    /\ contents \in [Sources -> SUBSET ImportKeys] /\ isKey \in BOOLEAN
    /\ sharedRows = {}
    /\ importer = [i \in Importers |-> NoImport]
    /\ raced = {} /\ imported = {}

KeysIn(rows) == {row.key : row \in rows}
FromFile(keys, from) == {[key |-> k, from |-> from] : k \in keys}

\* Others that have read the table and not yet written.
HasRead(i) == {j \in Importers \ {i} : importer[j].pc = "insert"}

-----------------------------------------------------------------------------
\* The bot saves a row; a setting that is there is overwritten.
BotSaves(k) ==
    /\ k \notin KeysIn(sharedRows) /\ (k = Unreadable => isKey)
    /\ sharedRows' = sharedRows \cup FromFile({k}, 0)
    /\ raced' = IF \E i \in Importers : importer[i].pc = "insert" THEN raced \cup {k} ELSE raced
    /\ UNCHANGED <<contents, isKey, importer, imported>>

\* main: the keys seen are those of this run.
BeginsImport(i) ==
    /\ importer[i].pc = "idle"
    /\ importer' = [importer EXCEPT ![i] = Importing("next", 1, {}, {}, {})]
    /\ UNCHANGED <<contents, isKey, sharedRows, raced, imported>>

\* import_table: the table's keys are read, and the file's rows whose key is neither among them
\* nor among those seen are staged, the first of each key.
ReadsTable(i) ==
    LET run == importer[i]
        fresh == contents[run.source] \ (KeysIn(sharedRows) \cup run.seen)
    IN  /\ run.pc = "next" /\ run.source <= NSources
        /\ importer' = [importer EXCEPT ![i] =
                Importing("insert", run.source, run.seen \cup fresh, fresh, run.offered \cup contents[run.source])]
        /\ UNCHANGED <<contents, isKey, sharedRows, raced, imported>>

\* They are inserted in one transaction.
InsertsRows(i) ==
    LET run == importer[i]
        mine == run.staged
    IN  /\ run.pc = "insert"
        /\ IF isKey THEN mine \cap KeysIn(sharedRows) = {} ELSE Unreadable \notin mine
        /\ sharedRows' = sharedRows \cup FromFile(mine, run.source)
        /\ importer' = [importer EXCEPT ![i] =
                Importing("next", run.source + 1, run.seen, {}, run.offered)]
        /\ raced' = IF HasRead(i) # {} THEN raced \cup mine ELSE raced
        /\ UNCHANGED <<contents, isKey, imported>>

\* A primary key that has come into the table since, or a row without its time, breaks the
\* transaction and ends the script; so does the end of its process.
ImportDies(i) ==
    /\ importer[i].pc # "idle"
    /\ importer' = [importer EXCEPT ![i] = NoImport]
    /\ UNCHANGED <<contents, isKey, sharedRows, raced, imported>>

\* A file that is not there, or lacks the table, is passed over.
SkipsSource(i) ==
    LET run == importer[i]
    IN  /\ run.pc = "next" /\ run.source <= NSources
        /\ importer' = [importer EXCEPT ![i] =
                Importing("next", run.source + 1, run.seen, {}, run.offered)]
        /\ UNCHANGED <<contents, isKey, sharedRows, raced, imported>>

EndsImport(i) ==
    /\ importer[i].pc = "next" /\ importer[i].source > NSources
    /\ imported' = imported \cup importer[i].offered
    /\ importer' = [importer EXCEPT ![i] = NoImport]
    /\ UNCHANGED <<contents, isKey, sharedRows, raced>>

ImportNext ==
    \/ \E k \in ImportKeys : BotSaves(k)
    \/ \E i \in Importers : BeginsImport(i) \/ ReadsTable(i) \/ InsertsRows(i)
                            \/ ImportDies(i) \/ SkipsSource(i) \/ EndsImport(i)

ImportSpec == ImportInit /\ [][ImportNext]_importVars

-----------------------------------------------------------------------------
\* No key has two rows, however often the script is run and wherever it died, unless one was
\* written while a run had already read the table (import_table, DEDUPE_KEYS).
ImportedOnce ==
    \A r1, r2 \in sharedRows : r1.key = r2.key /\ r1 # r2 => r1.key \in raced

\* A run that comes to its end has left out no row of a file it could read: its key is in the
\* table (the totals of main).
NothingLeftOut == imported \subseteq KeysIn(sharedRows)

\* A primary key is never in the table twice.
KeyStaysUnique == isKey => \A r1, r2 \in sharedRows : r1.key = r2.key => r1 = r2

ImportSound == ImportedOnce /\ NothingLeftOut /\ KeyStaysUnique
=============================================================================
