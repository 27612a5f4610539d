--------------------------- MODULE MC_ReplaceJobs ---------------------------
EXTENDS ReplaceJobs

(* The second trace has an empty parameter file.                           *)
const_mem_sizes == <<<<20, 40>>, <<>>, <<20>>>>
const_kMethods == <<"lirs2", "arc">>
const_Task == ({1} \X {1, 2} \X {1, 2}) \cup ({3} \X {1} \X {1, 2})
(* The jobs are plain functions, without a priority.                       *)
const_Priority == [job \in Task |-> 0]
=============================================================================
