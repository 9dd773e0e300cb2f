------------------------- MODULE PostgresMetastore --------------------------
(***************************************************************************)
(* The Hive metastore in Postgres: a container that start launches, and    *)
(* the directory pg_data, which outlives the container, the configuration  *)
(* and the Slurm job, and which only clean deletes. A start that finds any *)
(* file there takes the metastore for complete; otherwise it makes it, in  *)
(* several commands, each of which may fail or be the last one of the job. *)
(***************************************************************************)
EXTENDS Naturals

CONSTANTS
  Fixed,   \* the password that a user may set
  Draws,   \* how many passwords the program may draw
  None     \* no password

ASSUME PasswordAssumption == Draws \in Nat /\ Fixed \notin Nat /\ None \notin Nat

VARIABLES
  password,  \* postgres_password in config.json
  site,      \* the password in conf/hive-site.xml
  drawn,     \* passwords drawn so far
  status,    \* started_postgres in status.json: absent, or its value
  data,      \* how far pg_data has got
  role,      \* the password of the database role
  container, \* does the instance pg-server run?
  server,    \* does Postgres run in it?
  pc,        \* the command that start runs
  exists,    \* pg_exists, a local of the start
  spoiled    \* history: a start was cut short, or raised, over an unfinished pg_data

configuration == <<password, site, drawn>>
database == <<data, role>>
engine == <<container, server>>
vars == <<configuration, status, database, engine, pc, exists, spoiled>>

Passwords == {Fixed} \cup 1 .. Draws

Empty == {"missing", "empty"}
Unfinished == {"files", "cluster", "database", "role", "schema"}

TypeOK ==
  /\ password \in Passwords \cup {None}
  /\ site \in Passwords \cup {None}
  /\ drawn \in 0 .. Draws
  /\ status \in {"absent", "up", "down"}
  /\ data \in Empty \cup Unfinished \cup {"complete"}
  /\ role \in Passwords \cup {None}
  /\ container \in BOOLEAN /\ server \in BOOLEAN
  /\ pc \in {"idle", "container", "look", "initdb", "pg_ctl", "createdb", "role",
             "hive", "schematool", "others"}
  /\ exists \in BOOLEAN
  /\ spoiled \in BOOLEAN
  /\ server => container
  /\ pc \notin {"idle", "container"} => container /\ data # "missing"
  /\ pc \in {"createdb", "role", "hive", "schematool", "others"} => server
  /\ role # None => data \in {"role", "schema", "complete"}

Init ==
  /\ password = None /\ site = None /\ drawn = 0
  /\ status = "absent"
  /\ data = "missing" /\ role = None
  /\ container = FALSE /\ server = FALSE
  /\ pc = "idle" /\ exists = FALSE
  /\ spoiled = FALSE

Goto(label) == pc' = label

\* start is left before its time.
Leave ==
  /\ pc' = "idle"
  /\ exists' = FALSE
  /\ spoiled' = (spoiled \/ data' \in Unfinished)

-----------------------------------------------------------------------------
(* configure, in a new configuration or again *)

\* Mutant: hive-site.xml gets a password of its own.
ConfigureDrawsAgain ==
  /\ pc = "idle"
  /\ drawn < Draws
  /\ drawn' = drawn + 1
  /\ password' \in {Fixed, drawn + 1}
  /\ site' = drawn + 1
  /\ UNCHANGED <<status, database, engine, pc, exists, spoiled>>

\* A password that the user does not set is drawn anew by every configure.
Configure ==
  /\ pc = "idle"
  /\ \/ password' = Fixed /\ UNCHANGED drawn
     \/ drawn < Draws /\ drawn' = drawn + 1 /\ password' = drawn + 1
  /\ site' = password'
  /\ UNCHANGED <<status, database, engine, pc, exists, spoiled>>

-----------------------------------------------------------------------------
(* start *)

BeginStart ==
  /\ pc = "idle" /\ password # None
  /\ Goto("container")
  /\ UNCHANGED <<configuration, status, database, engine, exists, spoiled>>

\* Mutant: the directory is left to the container to make.
StartContainerOnly ==
  /\ pc = "container"
  /\ ~container
  /\ container' = TRUE
  /\ Goto("look")
  /\ UNCHANGED <<configuration, status, database, server, exists, spoiled>>

\* start_container.sh makes the directory and launches the instance, which fails
\* when one of its name runs.
StartContainer ==
  /\ pc = "container"
  /\ ~container
  /\ data' = IF data = "missing" THEN "empty" ELSE data
  /\ container' = TRUE
  /\ Goto("look")
  /\ UNCHANGED <<configuration, status, role, server, exists, spoiled>>

\* Any file will do.
PgExists == data \notin Empty

Look ==
  /\ pc = "look"
  /\ exists' = PgExists
  /\ Goto(IF PgExists THEN "pg_ctl" ELSE "initdb")
  /\ UNCHANGED <<configuration, status, database, engine, spoiled>>

\* Whether initdb fails is not looked at; it removes what it has made, and it
\* touches no directory that has files.
Initdb ==
  /\ pc = "initdb"
  /\ data' \in {data, "cluster"}
  /\ Goto("pg_ctl")
  /\ UNCHANGED <<configuration, status, role, engine, exists, spoiled>>

\* Mutant: whether pg_data existed is found out again, after initdb.
NextAfterServerLooksAgain == IF PgExists THEN "others" ELSE "createdb"

\* What follows when Postgres runs: nothing, or the rest of the initialisation.
NextAfterServer == IF exists THEN "others" ELSE "createdb"

PgCtl ==
  /\ pc = "pg_ctl"
  /\ data \notin {"missing", "empty", "files"}
  /\ server' = TRUE
  /\ Goto(NextAfterServer)
  /\ UNCHANGED <<configuration, status, database, container, exists, spoiled>>

Createdb ==
  /\ pc = "createdb"
  /\ data = "cluster"
  /\ data' = "database"
  /\ Goto("role")
  /\ UNCHANGED <<configuration, status, role, engine, exists, spoiled>>

CreateRole ==
  /\ pc = "role"
  /\ data' = "role"
  /\ role' = password
  /\ Goto("hive")
  /\ UNCHANGED <<configuration, status, engine, exists, spoiled>>

\* init_hive checks the binaries and unpacks them, when the database is there.
InitHive ==
  /\ pc = "hive"
  /\ Goto("schematool")
  /\ UNCHANGED <<configuration, status, database, engine, exists, spoiled>>

Schematool ==
  /\ pc = "schematool"
  /\ data' = "complete"
  /\ Goto("others")
  /\ UNCHANGED <<configuration, status, role, engine, exists, spoiled>>

\* A command fails, or cannot succeed: start raises. The flag of the metastore
\* is not set yet, so the rollback leaves the container.
SetupFails ==
  /\ pc \in {"container", "pg_ctl", "createdb", "role", "hive", "schematool"}
  /\ data' \in IF pc = "schematool" THEN {data, "schema"} ELSE {data}
  /\ Leave
  /\ UNCHANGED <<configuration, status, role, engine>>

\* The other services start too, or one fails and the rollback stops this one.
OthersStart ==
  /\ pc = "others"
  /\ status' = "up"
  /\ pc' = "idle" /\ exists' = FALSE
  /\ UNCHANGED <<configuration, database, engine, spoiled>>

OthersFail ==
  /\ pc = "others"
  /\ container' = FALSE /\ server' = FALSE
  /\ UNCHANGED <<configuration, status, database>>
  /\ Leave

-----------------------------------------------------------------------------
(* stop, clean, and the end of the job *)

Stop ==
  /\ pc = "idle" /\ password # None
  /\ IF status = "down" THEN UNCHANGED engine ELSE container' = FALSE /\ server' = FALSE
  /\ status' = "down"
  /\ UNCHANGED <<configuration, database, pc, exists, spoiled>>

\* Mutant: clean spares pg_data.
CleanSparesData ==
  /\ pc = "idle" /\ password # None
  /\ password' = None /\ site' = None
  /\ status' = "absent"
  /\ spoiled' = FALSE
  /\ UNCHANGED <<drawn, database, engine, pc, exists>>

\* When status.json says "up" the user has to force it. It stops nothing.
Clean ==
  /\ pc = "idle" /\ password # None
  /\ password' = None /\ site' = None
  /\ status' = "absent"
  /\ data' = "missing" /\ role' = None
  /\ spoiled' = FALSE
  /\ UNCHANGED <<drawn, engine, pc, exists>>

\* What a command leaves behind that did not come to its end.
Torn ==
  CASE pc = "initdb" /\ data = "empty" -> {"empty", "files", "cluster"}
    [] pc = "createdb" /\ data = "cluster" -> {"cluster", "database"}
    [] pc = "role" -> {"database", "role"}
    [] pc = "schematool" -> {"role", "schema", "complete"}
    [] OTHER -> {data}

\* The driver is killed. In a command that sets the password it may have done so.
Kill ==
  /\ pc # "idle"
  /\ data' \in Torn
  /\ role' = IF pc = "role" /\ data' = "role" THEN password ELSE role
  /\ Leave
  /\ UNCHANGED <<configuration, status, engine>>

\* The Slurm job ends, and with it the container; status.json stays as it is.
JobEnds ==
  /\ container' = FALSE /\ server' = FALSE
  /\ data' \in Torn
  /\ role' = IF pc = "role" /\ data' = "role" THEN password ELSE role
  /\ Leave
  /\ UNCHANGED <<configuration, status>>

-----------------------------------------------------------------------------
Next ==
  \/ Configure \/ BeginStart \/ StartContainer \/ Look \/ Initdb \/ PgCtl
  \/ Createdb \/ CreateRole \/ InitHive \/ Schematool
  \/ SetupFails \/ OthersStart \/ OthersFail
  \/ Stop \/ Clean \/ Kill \/ JobEnds

Spec == Init /\ [][Next]_vars

-----------------------------------------------------------------------------
(* What the metastore promises *)

Open == pc = "others" \/ status = "up"

\* A start gets past the metastore only when it is complete, unless an earlier
\* start was cut short in the middle of making it, since the last clean.
OpenMeansComplete == Open => data = "complete" \/ spoiled

\* Under an unfinished pg_data that no start has left behind, the start that
\* makes it is at work: there is no way to leave one without noticing.
UnfinishedIsInTheMaking == data \in Unfinished => spoiled \/ (pc # "idle" /\ ~exists)

\* The role of the database gets the password that hive-site.xml, which Spark
\* reads, has at that moment: whatever number of configures there were, and even
\* when the command that sets it is cut short. (A configure that comes later and
\* draws a password leaves them different, since pg_data stays.)
RoleGetsTheSitesPassword == [][role' \notin {role, None} => role' = site]_vars
=============================================================================
