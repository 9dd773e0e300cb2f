----------------------------- MODULE MCSettings -----------------------------
(***************************************************************************)
(* Small instances of Settings for TLC: one parameter of each kind.        *)
(***************************************************************************)
EXTENDS Settings

SomeKeys ==
  {"driver_memory_gb", "start_connect_server", "executor_cores", "jupyter_port",
   "python_path", "executor_gpu_amount"}

Table(keys, binaries) == [table |-> keys # {}, runtime |-> keys, binaries |-> binaries]

\* The examples of the documentation, and a file of default-config that is older
\* than the options with a fallback.
SomeContents ==
  {Table({}, TRUE),
   Table({"start_connect_server"}, FALSE),
   Table({"start_connect_server", "executor_cores"}, TRUE),
   Table({"start_connect_server", "driver_memory_gb"}, TRUE),
   Table(SomeKeys \ {"executor_cores", "python_path", "executor_gpu_amount"}, FALSE),
   Table(SomeKeys, TRUE)}
=============================================================================
