---------------------------- MODULE MCWriteCaches ----------------------------
(***************************************************************************)
(* One file in each of four configurations, chosen at the start: a library *)
(* that blocks (NetCDF, HDF5), one whose calls may fail and whose arrays   *)
(* share decompositions, PnetCDF, and PnetCDF whose calls may fail; all    *)
(* with decompositions that leave holes.  The constants of the last are    *)
(* those of the model.                                                     *)
(***************************************************************************)
EXTENDS MCWriteCache

VARIABLE config  \* "netcdf", "netcdf errors", "pnetcdf" or "pnetcdf errors"

NetCDF == INSTANCE WriteCache WITH
  DecompsOf <- OwnDecomp, Pnetcdf <- FALSE, MaxWrites <- 4, MaxFailures <- 0

NetCDFErrors == INSTANCE WriteCache WITH
  DecompsOf <- TwoDecompsOfTwo, Pnetcdf <- FALSE,
  RewritePending <- FALSE, MaxWrites <- 3, MaxFailures <- 1

PnetCDF == INSTANCE WriteCache WITH
  DecompsOf <- OwnDecomp, RewritePending <- FALSE, MaxWrites <- 4, MaxFailures <- 0

Configs == {"netcdf", "netcdf errors", "pnetcdf", "pnetcdf errors"}

\* The library does not fail.
NoErrors == config \in {"netcdf", "pnetcdf"}

MCInit == config \in Configs /\ Init

MCNext ==
  /\ \/ config = "netcdf" /\ NetCDF!Next
     \/ config = "netcdf errors" /\ NetCDFErrors!Next
     \/ config = "pnetcdf" /\ PnetCDF!Next
     \/ config = "pnetcdf errors" /\ Next
  /\ UNCHANGED config

MCSpec == MCInit /\ [][MCNext]_<<vars, config>>

\* The promise of BufferedFile is about libraries that do not fail.
Reliable == INSTANCE BufferedFile WITH
  accepted <- IF NoErrors THEN latest ELSE [x \in Slots |-> 0],
  stored <- [x \in Slots |-> IF NoErrors THEN Stored(x) ELSE 0],
  synced <- NoErrors /\ ret \in {<<"sync", "ok">>, <<"close", "ok">>}

\* CacheImplementsFile of WriteCache in the configurations without errors:
\* PIOc_write_darray, PIOc_setframe, PIOc_freedecomp, PIOc_sync, PIOc_closefile
\* and PIOc_openfile behave as on a file whose writes are stored late, but
\* never lost, never overtaken by an older one, and all stored when sync or
\* close returns.
CachesImplementFile == Reliable!Spec
=============================================================================
