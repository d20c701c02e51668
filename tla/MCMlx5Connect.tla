--------------------------- MODULE MCMlx5Connect ---------------------------
EXTENDS Mlx5Connect

AllJobs ==
    {"mpi"} \X {"runtime", "fabric", "gather", "ring"} \cup {<<"pmi2", "ring">>}
=============================================================================
