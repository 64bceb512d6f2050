------------------------------ MODULE CommandLine ------------------------------
(***************************************************************************)
(* cli/cli.py, db/migrate.py and config/settings.py: every command first   *)
(* brings the database of the machine, and the settings file beside it, up *)
(* to date, then does its own work on the settings.  Commands are          *)
(* processes: several may run together and each may be killed.             *)
(***************************************************************************)
EXTENDS Naturals, FiniteSets, Sequences, SequencesExt

CONSTANTS
  Processes,   \* the commands that may run together
  MaxCommands  \* bound on the commands started

VARIABLES
  versions,      \* schema_migrations
  schema,        \* the statements in effect: <<migration, number>>
  settingsFile,  \* settings.yaml: [layout, user, server]; a value 0 is not set
  serverFile,    \* server.yaml of the old layout: [layout, server]
  commands,      \* what each process runs and where it is
  started,       \* how many commands were started
  wanted,        \* the values last set by commands that ended well
  disturbed,     \* commands overlapped, one was killed, or one had a setting in its environment
  killed         \* one was killed

cliVars == <<versions, schema, settingsFile, serverFile, commands, started, wanted, disturbed, killed>>

\* The migration files in their order: two of SQL, with their statements, and
\* between them the one that rewrites the settings files.
Migrations == <<"jobs", "settings_file", "metrics">>
Statements(m) == IF m = "jobs" THEN 2 ELSE 1
IsSql(m) == m # "settings_file"
Number == 1 .. Len(Migrations)
Vars == {"user", "server"}

File(layout, user, server) == [layout |-> layout, user |-> user, server |-> server]
Absent == File("absent", 0, 0)
Empty  == File("empty", 0, 0)
Ready == [cmd |-> "none"]
Init == /\ settingsFile = File("old", 1, 0) /\ serverFile = File("old", 0, 2)
        /\ wanted = [user |-> 1, server |-> 2]
        /\ versions = {} /\ schema = {}
        /\ commands = [p \in Processes |-> Ready] /\ started = 0
        /\ disturbed = FALSE /\ killed = FALSE

Running(p) == commands[p] # Ready
At(p, pc) == Running(p) /\ commands[p].pc = pc
Goes(p, pc) == commands' = [commands EXCEPT ![p].pc = pc]
Ends(p) == commands' = [commands EXCEPT ![p] = Ready]
Files == <<settingsFile, serverFile>>
Database == <<versions, schema>>
Log == <<started, wanted, disturbed, killed>>

\* A command, or with "down" the developer's tool that reverts the last migration
\* and is used alone.  A setting in the environment matters to those that save.
Start(p) ==
  /\ ~Running(p) /\ started < MaxCommands
  /\ \A q \in Processes : Running(q) => commands[q].cmd # "down"
  /\ \E cmd \in {"set", "delete", "show", "down"}, var \in Vars, env \in {"none", "user"} :
       /\ cmd \in {"show", "down"} => var = "user" /\ env = "none"
       /\ cmd = "down" => \A q \in Processes : ~Running(q)
       /\ commands' = [commands EXCEPT ![p] =
            [cmd |-> cmd, var |-> var, env |-> env, pc |-> "versions", known |-> {},
             m |-> 0, n |-> 1, loaded |-> Absent]]
       /\ disturbed' = (disturbed \/ env # "none" \/ \E q \in Processes : Running(q))
  /\ started' = started + 1
  /\ UNCHANGED <<versions, schema, settingsFile, serverFile, wanted, killed>>

-----------------------------------------------------------------------------
(* Migrations: the versions are read once, then each file that is not among   *)
(* them is applied.  "down" reverts the newest of them.                       *)

Pending(known) == {i \in Number : Migrations[i] \notin known}
Lowest(s)  == CHOOSE i \in s : \A j \in s : i <= j
Highest(s) == CHOOSE i \in s : \A j \in s : i >= j
Going(c) == IF c.cmd = "down" THEN "down" ELSE "up"
Begin(c, i) == [c EXCEPT !.m = i, !.n = 1, !.pc = IF IsSql(Migrations[i]) THEN "statement" ELSE "read"]
NextMigration(c) == IF Pending(c.known) = {} THEN [c EXCEPT !.pc = "load"]
                    ELSE Begin(c, Lowest(Pending(c.known)))
NextMigrationAnyhow(c) == NextMigration([c EXCEPT !.known = @ \cup {Migrations[c.m]}])

ReadsVersions(p) ==
  /\ At(p, "versions")
  /\ LET c == [commands[p] EXCEPT !.known = versions]
     IN  commands' = [commands EXCEPT ![p] =
           IF c.cmd # "down" THEN NextMigration(c)
           ELSE IF versions = {} THEN Ready
           ELSE Begin(c, Highest(Number \ Pending(versions)))]
  /\ UNCHANGED <<Database, Files, Log>>

\* SQLite commits each statement that changes the schema on its own.  One whose
\* table is there already, or gone, fails and ends the command.
Fits(p) == LET s == <<Migrations[commands[p].m], commands[p].n>>
           IN  (s \in schema) = (Going(commands[p]) = "down")
RunsStatement(p) ==
  /\ At(p, "statement") /\ Fits(p)
  /\ LET c == commands[p]
         s == <<Migrations[c.m], c.n>>
     IN  /\ schema' = IF Going(c) = "up" THEN schema \cup {s} ELSE schema \ {s}
         /\ commands' = [commands EXCEPT ![p].n = @ + 1,
                           ![p].pc = IF c.n = Statements(Migrations[c.m]) THEN "record" ELSE @]
  /\ UNCHANGED <<versions, Files, Log>>

\* Mutant: what a migration raised is passed over.
AfterFailureGoOn(c) == IF c.cmd = "down" THEN Ready ELSE NextMigrationAnyhow(c)
\* migrate_up raises again what a migration raised: the command ends.
AfterFailure(c) == Ready
StatementFails(p) == /\ At(p, "statement") /\ ~Fits(p)
                     /\ commands' = [commands EXCEPT ![p] = AfterFailure(@)]
                     /\ UNCHANGED <<Database, Files, Log>>

\* The version is a primary key: a second insertion fails.  A Python migration
\* is then reverted by its function for the other direction.
Records(p) ==
  /\ At(p, "record")
  /\ LET c == commands[p]
         m == Migrations[c.m]
         done == [c EXCEPT !.known = @ \cup {m}]
     IN  IF Going(c) = "down"
         THEN versions' = versions \ {m} /\ commands' = [commands EXCEPT ![p] = Ready]
         ELSE IF m \notin versions
         THEN versions' = versions \cup {m} /\ commands' = [commands EXCEPT ![p] = NextMigration(done)]
         ELSE /\ versions' = versions
              /\ commands' = [commands EXCEPT ![p] = IF IsSql(m) THEN AfterFailure(@)
                                                     ELSE [@ EXCEPT !.pc = "revert"]]
  /\ UNCHANGED <<schema, Files, Log>>

\* The migration of the settings: up() makes one file of the two, unless it is
\* one already; down() makes two of it, and fails, to be undone by up(), on the
\* old layout.  A file is read whole, then opened for writing, which empties it,
\* then written.
ReadsFiles(p) ==
  /\ At(p, "read")
  /\ LET c == commands[p]
         loaded == IF Going(c) = "up" \/ settingsFile.layout = "old"
                   THEN File("new", settingsFile.user, serverFile.server)
                   ELSE File("old", settingsFile.user, settingsFile.server)
         nothingToDo == IF Going(c) = "up" THEN settingsFile.layout = "new"
                        ELSE settingsFile.layout \in {"absent", "empty"}
     IN  commands' = [commands EXCEPT ![p].loaded = loaded,
                        ![p].pc = IF nothingToDo THEN "record" ELSE "empty"]
  /\ UNCHANGED <<Database, Files, Log>>
Reverts(p) ==
  /\ At(p, "revert")
  /\ commands' = [commands EXCEPT ![p] =
       IF settingsFile.layout # "new" THEN Ready
       ELSE [@ EXCEPT !.loaded = File("old", settingsFile.user, settingsFile.server), !.pc = "empty"]]
  /\ UNCHANGED <<Database, Files, Log>>
EmptiesFile(p) == /\ At(p, "empty") /\ settingsFile' = Empty /\ Goes(p, "write")
                  /\ UNCHANGED <<Database, serverFile, Log>>
Kept(loaded) == IF loaded.layout = "new" THEN loaded ELSE File("old", loaded.user, 0)
WritesFile(p) == /\ At(p, "write") /\ settingsFile' = Kept(commands[p].loaded)
                 /\ Goes(p, IF commands[p].loaded.layout = "new" THEN "remove" ELSE "empty_server")
                 /\ UNCHANGED <<Database, serverFile, Log>>
RemovesServerFile(p) == /\ At(p, "remove") /\ serverFile' = Absent
                        /\ IF Going(commands[p]) = "up" THEN Goes(p, "record") ELSE Ends(p)
                        /\ UNCHANGED <<Database, settingsFile, Log>>
EmptiesServerFile(p) == /\ At(p, "empty_server") /\ serverFile' = Empty /\ Goes(p, "write_server")
                        /\ UNCHANGED <<Database, settingsFile, Log>>
WritesServerFile(p) == /\ At(p, "write_server")
                       /\ serverFile' = File("old", 0, commands[p].loaded.server)
                       /\ IF Going(commands[p]) = "down" THEN Goes(p, "record") ELSE Ends(p)
                       /\ UNCHANGED <<Database, settingsFile, Log>>

-----------------------------------------------------------------------------
(* The settings: loaded once, with what the environment overrides written     *)
(* into them; a change saves all of them.                                     *)

\* _load_settings knows the new layout only.
Loaded(file) == IF file.layout = "new" THEN file ELSE File("new", 0, 0)
ApplyOverrides(settings, c) == IF c.env = "none" THEN settings ELSE [settings EXCEPT ![c.env] = 9]
Changed(settings, c) == [settings EXCEPT ![c.var] = IF c.cmd = "set" THEN 2 + started ELSE 0]

LoadsSettings(p) ==
  /\ At(p, "load")
  /\ LET c == commands[p]
         active == ApplyOverrides(Loaded(settingsFile), c)
     IN  commands' = [commands EXCEPT ![p] =
           IF c.cmd = "show" THEN Ready
           ELSE [c EXCEPT !.loaded = Changed(active, c), !.pc = "save"]]
  /\ UNCHANGED <<Database, Files, Log>>
OpensToSave(p) == /\ At(p, "save") /\ settingsFile' = Empty /\ Goes(p, "saving")
                  /\ UNCHANGED <<Database, serverFile, Log>>
SavesSettings(p) == /\ At(p, "saving")
                    /\ settingsFile' = commands[p].loaded
                    /\ wanted' = [wanted EXCEPT ![commands[p].var] = commands[p].loaded[commands[p].var]]
                    /\ Ends(p)
                    /\ UNCHANGED <<Database, serverFile, started, disturbed, killed>>

Kill(p) == /\ Running(p) /\ ~killed
           /\ Ends(p) /\ disturbed' = TRUE /\ killed' = TRUE
           /\ UNCHANGED <<Database, Files, started, wanted>>

Next == \E p \in Processes :
  \/ Start(p) \/ ReadsVersions(p) \/ RunsStatement(p) \/ StatementFails(p) \/ Records(p)
  \/ ReadsFiles(p) \/ Reverts(p) \/ EmptiesFile(p) \/ WritesFile(p) \/ RemovesServerFile(p)
  \/ EmptiesServerFile(p) \/ WritesServerFile(p) \/ LoadsSettings(p) \/ OpensToSave(p)
  \/ SavesSettings(p) \/ Kill(p)

-----------------------------------------------------------------------------
\* However commands overlap and die, the migrations on record are the first ones
\* of the list, and, as long as none was killed, their statements are in effect;
\* with nobody migrating, only theirs are.
Recorded(m) == {m} \X (1 .. Statements(m))
MigrationsInOrder ==
  /\ \A i, j \in Number : i < j /\ Migrations[j] \in versions => Migrations[i] \in versions
  /\ (\A p \in Processes : ~Running(p)) /\ ~killed =>
       schema = UNION {Recorded(m) : m \in {n \in versions : IsSql(n)}}

\* Commands run one after the other, with nothing overridden, keep every setting,
\* through the migrations of the file in both directions.
SettingsKept ==
  ~disturbed /\ (\A p \in Processes : ~Running(p)) =>
    /\ settingsFile.user = wanted.user
    /\ wanted.server = IF settingsFile.layout = "new" THEN settingsFile.server ELSE serverFile.server

\* The invariant behind both.  A command that migrates up knows versions that stay on
\* record, among them all before the one it applies; who goes down is alone.
FileType == [layout : {"absent", "empty", "old", "new"}, user : Nat, server : Nat]
Moving == {"read", "empty", "write", "remove", "empty_server", "write_server", "revert"}
Command == [cmd : {"set", "delete", "show", "down"}, var : Vars, env : {"none", "user"},
            pc : Moving \cup {"versions", "statement", "record", "load", "save", "saving"},
            known : SUBSET {Migrations[i] : i \in Number}, m : 0 .. Len(Migrations), n : Nat,
            loaded : FileType]
CliTyped ==
  /\ versions \subseteq {Migrations[i] : i \in Number}
  /\ schema \subseteq UNION {Recorded(Migrations[i]) : i \in {j \in Number : IsSql(Migrations[j])}}
  /\ settingsFile \in FileType /\ serverFile \in FileType /\ wanted \in [Vars -> Nat]
  /\ commands \in [Processes -> Command \cup {Ready}]
  /\ started \in Nat /\ disturbed \in BOOLEAN /\ killed \in BOOLEAN

Closed(names) == \A i, j \in Number : i < j /\ Migrations[j] \in names => Migrations[i] \in names
Applies(c) ==
  /\ c.pc \in Moving \cup {"statement", "record"} =>
       /\ c.m \in Number
       /\ c.cmd = "down" => /\ Migrations[c.m] \in versions
                            /\ \A j \in Number : c.m < j => Migrations[j] \notin versions
       /\ c.cmd # "down" => /\ Migrations[c.m] \notin c.known
                            /\ \A i \in Number : i < c.m => Migrations[i] \in c.known
  /\ c.pc \in Moving => ~IsSql(Migrations[c.m])
  /\ c.pc = "statement" => IsSql(Migrations[c.m]) /\ c.n \in 1 .. Statements(Migrations[c.m])
  /\ c.pc = "record" /\ IsSql(Migrations[c.m]) => c.n = Statements(Migrations[c.m]) + 1
  /\ c.cmd = "down" => c.pc \in (Moving \ {"revert"}) \cup {"versions", "statement", "record"}
  /\ c.cmd # "down" => c.known \subseteq versions
OrderInv ==
  /\ Closed(versions)
  /\ \A p \in Processes : Running(p) =>
       /\ Applies(commands[p])
       /\ commands[p].cmd = "down" => \A q \in Processes \ {p} : ~Running(q)

\* While nobody was killed, a statement is in effect if its migration is on record or
\* was begun by a command that goes up; there is one at most.
Begun(p, m, n) == /\ Running(p) /\ commands[p].pc \in {"statement", "record"}
                  /\ Migrations[commands[p].m] = m /\ n < commands[p].n
InEffect(m, n) ==
  IF m \in versions THEN \A p \in Processes : Begun(p, m, n) => commands[p].cmd # "down"
  ELSE \E p \in Processes : Begun(p, m, n)
SchemaInv ==
  \A m \in {Migrations[i] : i \in Number} : IsSql(m) =>
    /\ \A n \in 1 .. Statements(m) : <<m, n>> \in schema <=> InEffect(m, n)
    /\ \A p, q \in Processes : Begun(p, m, 1) /\ Begun(q, m, 1) => p = q
    /\ m \in versions => \A p \in Processes : Begun(p, m, 1) => commands[p].cmd = "down"

\* While nothing overlaps, is killed or overridden, what is wanted is in the files, but
\* for the steps between which they are rewritten: then the command has read it.
Wanted(layout) == File(layout, wanted.user, wanted.server)
Resting == /\ settingsFile.layout = IF "settings_file" \in versions THEN "new" ELSE "old"
           /\ settingsFile.user = wanted.user
           /\ wanted.server = IF settingsFile.layout = "new" THEN settingsFile.server ELSE serverFile.server
Holds(c) ==
  /\ c.pc \in {"versions", "statement", "read", "load"} => Resting
  /\ c.pc = "record" /\ IsSql(Migrations[c.m]) => Resting
  /\ c.pc \in {"empty", "write"} => c.loaded = Wanted(IF Going(c) = "up" THEN "new" ELSE "old")
  /\ c.pc = "remove" => Going(c) = "up" /\ settingsFile = Wanted("new")
  /\ c.pc \in {"empty_server", "write_server"} =>
       Going(c) = "down" /\ c.loaded = Wanted("old") /\ settingsFile = Kept(Wanted("old"))
  /\ c.pc = "record" /\ ~IsSql(Migrations[c.m]) =>
       IF Going(c) = "up" THEN settingsFile = Wanted("new")
       ELSE settingsFile = Kept(Wanted("old")) /\ serverFile = File("old", 0, wanted.server)
  /\ c.pc = "load" => "settings_file" \in versions
  /\ c.pc \in {"save", "saving"} => /\ "settings_file" \in versions /\ c.loaded.layout = "new"
                                    /\ \A v \in Vars \ {c.var} : c.loaded[v] = wanted[v]
  /\ c.pc # "versions" /\ c.cmd # "down" => c.known = versions
  /\ c.pc # "revert" /\ c.env = "none"
SettingsInv ==
  /\ \A p, q \in Processes : Running(p) /\ Running(q) => p = q
  /\ (\A p \in Processes : ~Running(p)) => Resting
  /\ \A p \in Processes : Running(p) => Holds(commands[p])
CliInv == /\ CliTyped /\ OrderInv
          /\ killed => disturbed
          /\ ~killed => SchemaInv
          /\ ~disturbed => SettingsInv
=============================================================================
