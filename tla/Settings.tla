------------------------------ MODULE Settings ------------------------------
(***************************************************************************)
(* Where the parameters of a cluster come from: the built-in defaults, up  *)
(* to three settings files, and the options of `sparkctl configure`.       *)
(* Importing sparkctl reads the files, once; a later file replaces whole   *)
(* tables of an earlier one. The command line and a Python program then    *)
(* build a configuration from the same settings on paths of their own.     *)
(*                                                                         *)
(* A value is abstracted to where it was set: the place of a file, an      *)
(* "argument", the "default" of the model, "current" for the running       *)
(* Python, or "none" for no value.                                         *)
(***************************************************************************)
EXTENDS Naturals

CONSTANTS
  Keys,     \* the runtime parameters in view
  Contents, \* what users write into a settings file: its tables
  Edits,    \* how often a settings file changes
  NotRead   \* settings that have not been read

\* Options of configure whose default is read without a fallback.
Plain == Keys \cap
  {"executor_cores", "executor_memory_gb", "driver_memory_gb", "node_memory_overhead_gb",
   "enable_dynamic_allocation", "shuffle_partition_multiplier", "use_local_storage",
   "start_connect_server", "start_history_server", "start_thrift_server",
   "spark_log_level", "enable_hive_metastore", "enable_postgres_hive_metastore"}

\* Options whose default falls back on that of the model: newer than some files.
Guarded == Keys \cap
  {"connect_server_port", "start_jupyter", "jupyter_command", "jupyter_ip", "jupyter_port",
   "enable_reverse_proxy", "reverse_proxy_url", "enable_prometheus", "enable_metrics_csv",
   "metrics_csv_period", "enable_gpus", "gpus_per_node", "enable_rapids"}

\* Options that read no settings.
ArgumentOnly == Keys \cap {"spark_defaults_template_file", "python_path"}

\* Parameters that configure has no option for.
NoOption == Keys \cap {"executor_gpu_amount", "task_gpu_amount", "postgres_password"}

\* Parameters that may be None. (postgres_password is drawn in that case.)
Nullable == Keys \cap
  {"executor_cores", "executor_memory_gb", "reverse_proxy_url", "gpus_per_node",
   "task_gpu_amount", "spark_log_level", "python_path", "spark_defaults_template_file"}

\* A file has a [runtime] table, of these keys, or none, and [binaries] or not.
NoFile == [table |-> FALSE, runtime |-> {}, binaries |-> FALSE]

\* What default-config writes. TOML has no None, and the password is left out.
Generated ==
  [table |-> TRUE, runtime |-> (Keys \ Nullable) \ {"postgres_password"}, binaries |-> TRUE]

ASSUME SettingsAssumption ==
  /\ Keys = Plain \cup Guarded \cup ArgumentOnly \cup NoOption
  /\ \A c \in Contents :
       /\ c.runtime \subseteq Keys /\ c.binaries \in BOOLEAN
       /\ c.table = (c.runtime # {})
  /\ Edits \in Nat

VARIABLES
  files,    \* the content of each settings file
  exported, \* is SPARKCTL_SETTINGS_FILE set, to the shared file?
  program,  \* the settings of a Python program that has imported sparkctl
  config,   \* the last configuration built: by whom, its parameters, or a failure
  edits     \* changes of the files so far

vars == <<files, exported, program, config, edits>>

\* In increasing order of precedence.
Order == <<"home", "shared", "local">>
Places == {"home", "shared", "local"}

Sources == Places \cup {"default", "argument", "current", "none"}

Runtimes == [Keys -> Sources]

SomeSettings == [place : Places \cup {"default"}, keys : SUBSET Keys, binaries : BOOLEAN]

Init ==
  /\ files = [p \in Places |-> NoFile]
  /\ exported = FALSE
  /\ program = NotRead
  /\ config = NotRead
  /\ edits = 0

-----------------------------------------------------------------------------
(* The settings *)

InUse(p) == p = "shared" => exported

\* Mutant: the variable has the last word.
WinnersSharedLast == IF exported THEN <<"home", "local", "shared">> ELSE Order

Winners == Order

\* The place of the last file in use with a [runtime] table: the table is
\* replaced as a whole. Without one the validator puts the defaults there.
RuntimePlace ==
  LET Has(i) == InUse(Winners[i]) /\ files[Winners[i]].table
  IN IF \E i \in 1 .. 3 : Has(i)
     THEN Winners[CHOOSE i \in 1 .. 3 : Has(i) /\ \A j \in i + 1 .. 3 : ~Has(j)]
     ELSE "default"

\* What importing sparkctl reads.
Settings ==
  [place |-> RuntimePlace,
   keys |-> IF RuntimePlace = "default" THEN Keys \ Nullable ELSE files[RuntimePlace].runtime,
   binaries |-> \E p \in Places : InUse(p) /\ files[p].binaries]

ModelDefault(k) == IF k \in Nullable THEN "none" ELSE "default"

Get(s, k, otherwise) == IF k \in s.keys THEN s.place ELSE otherwise

\* Mutant: the fallback for keys that an old file does not have is forgotten.
OptionDefaultUnguarded(s, k) == Get(s, k, "none")

\* Mutant: the defaults are those of the model.
OptionDefaultOfTheModel(s, k) == IF k = "python_path" THEN "current" ELSE ModelDefault(k)

\* The default of an option, computed when the command line is imported. If no
\* python_path is given, that of the running Python is taken.
OptionDefault(s, k) ==
  CASE k \in Plain -> Get(s, k, "none")
    [] k \in Guarded -> Get(s, k, ModelDefault(k))
    [] k = "python_path" -> "current"
    [] OTHER -> "none"

\* build_config passes every parameter that has an option.
CommandLine(s, arguments) ==
  [k \in Keys |->
     IF k \in NoOption THEN ModelDefault(k)
     ELSE IF k \in arguments THEN "argument" ELSE OptionDefault(s, k)]

\* make_default_spark_config passes the table as it is.
FromSettings(s) == [k \in Keys |-> Get(s, k, ModelDefault(k))]

\* The model refuses None where it expects a value.
Valid(runtime) == \A k \in Keys \ Nullable : runtime[k] # "none"

Failed == [k \in Keys |-> "none"]

\* Mutant: the parameters are not validated.
BuildUnchecked(s, runtime) == IF s.binaries THEN runtime ELSE Failed

Build(s, runtime) == IF s.binaries /\ Valid(runtime) THEN runtime ELSE Failed

-----------------------------------------------------------------------------
(* What happens *)

\* A user writes a settings file, or edits one.
Edit(p) ==
  /\ edits < Edits
  /\ \E content \in Contents : files' = [files EXCEPT ![p] = content]
  /\ edits' = edits + 1
  /\ UNCHANGED <<exported, program, config>>

\* default-config, for the home directory, this one or the shared deployment,
\* over whatever the file said. It uses no setting.
DefaultConfig(p) ==
  /\ edits < Edits
  /\ files' = [files EXCEPT ![p] = Generated]
  /\ edits' = edits + 1
  /\ UNCHANGED <<exported, program, config>>

\* The user sets or unsets the variable, and loads or unloads the module.
Export ==
  /\ exported' = ~exported
  /\ UNCHANGED <<files, program, config, edits>>

\* configure: a new process, which reads the settings.
Configure(arguments) ==
  /\ config' = [by |-> "command", arguments |-> arguments, settings |-> Settings,
                runtime |-> Build(Settings, CommandLine(Settings, arguments))]
  /\ UNCHANGED <<files, exported, program, edits>>

Import ==
  /\ program = NotRead
  /\ program' = Settings
  /\ UNCHANGED <<files, exported, config, edits>>

ProgramEnds ==
  /\ program # NotRead
  /\ program' = NotRead
  /\ UNCHANGED <<files, exported, config, edits>>

MakeDefaultSparkConfig ==
  /\ program # NotRead
  /\ config' = [by |-> "program", arguments |-> {}, settings |-> program,
                runtime |-> Build(program, FromSettings(program))]
  /\ UNCHANGED <<files, exported, program, edits>>

\* The options a user gives: none, one, or all there are.
Arguments == {{}} \cup {{k} : k \in Keys \ NoOption} \cup {Keys \ NoOption}

Next ==
  \/ \E p \in Places : Edit(p) \/ DefaultConfig(p)
  \/ \E arguments \in Arguments : Configure(arguments)
  \/ Export \/ Import \/ ProgramEnds \/ MakeDefaultSparkConfig

Spec == Init /\ [][Next]_vars

-----------------------------------------------------------------------------
(* What users rely on *)

TypeOK ==
  /\ files \in [Places -> Contents \cup {Generated, NoFile}]
  /\ exported \in BOOLEAN
  /\ program = NotRead \/ program \in SomeSettings
  /\ config = NotRead \/
       /\ config.by \in {"command", "program"}
       /\ config.arguments \in Arguments /\ config.settings \in SomeSettings
       /\ config.runtime \in Runtimes
       /\ config.runtime = Failed \/ Valid(config.runtime)
  /\ edits \in 0 .. Edits

Built == config # NotRead /\ config.runtime # Failed

Complete(s) == s.binaries /\ Plain \ Nullable \subseteq s.keys

\* "This lets a user override any site-wide default locally": what a command
\* takes from a file is in no later file with a [runtime] table.
LocalOverridesShared ==
  [][\A k \in Keys :
       config' # config /\ config'.by = "command" /\ config'.runtime[k] \in Places
         => /\ config'.runtime[k] = "home" => ~files["local"].table
            /\ config'.runtime[k] = "shared" => ~files["local"].table
            /\ config'.runtime[k] = "home" => ~(exported /\ files["shared"].table)]_vars

\* A file that default-config has written serves the commands of every later
\* version: they fail only for want of [binaries], of an old key, or of None.
OldFilesServe ==
  config # NotRead /\ Complete(config.settings) => Built

\* A command without arguments and a program that starts now agree on every
\* parameter that has an option which reads settings.
CommandAndProgramAgree ==
  LET runtime == CommandLine(Settings, {})
  IN Valid(runtime) => \A k \in Plain \cup Guarded : runtime[k] = FromSettings(Settings)[k]
=============================================================================
