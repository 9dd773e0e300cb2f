-------------------------- MODULE MCExecutorSizing --------------------------
(***************************************************************************)
(* Small allocations and settings for ExecutorSizing.                      *)
(***************************************************************************)
EXTENDS ExecutorSizing

\* Nodes of 6, 9 and 30 gigabytes for Spark; uneven GPUs when they were asked
\* for as a total. A heterogeneous job asks per node.
SmallJobs ==
  {j \in [mb : {8192, 12288, 40960}, cpus : {1, 2, 4, 5, 7, 12}, het : BOOLEAN,
          gpus : {<<0>>, <<2>>, <<4>>, <<0, 0>>, <<2, 2>>, <<2, 1>>, <<1, 2>>, <<4, 4, 4>>},
          request : {"per_node", "total"}] :
     /\ j.het => j.request = "per_node"
     /\ j.gpus \in {<<2, 1>>, <<1, 2>>} => j.request = "total"}

\* No setting of the GPUs matters while they are not enabled.
SmallSettings ==
  {r \in [cores : {None, 1, 3}, memory : {None, 2, 7}, driver : {1, 4}, overhead : {1},
          postgres : BOOLEAN, enable_gpus : BOOLEAN, gpus_per_node : {None, 3},
          executor_gpu_amount : {1, 2}, multiplier : {2}, template : {None, 2}] :
     ~r.enable_gpus => r.gpus_per_node = None /\ r.executor_gpu_amount = 1}

\* A large node with little memory, sized by the defaults.
ThinJobs ==
  [mb : {40960}, cpus : {12, 104}, het : {FALSE}, gpus : {<<0>>, <<0, 0>>},
   request : {"per_node"}]

DefaultSettings ==
  [cores : {None}, memory : {None}, driver : {10}, overhead : {10}, postgres : BOOLEAN,
   enable_gpus : {FALSE}, gpus_per_node : {None}, executor_gpu_amount : {1},
   multiplier : {1}, template : {None}]
=============================================================================
