-------------------------------- MODULE MCFs --------------------------------
(* The file system with two kinds of work: directories, and bytes of files *)
EXTENDS Fs

CONSTANT MaxShort  \* bound: number of calls on directories, and of calls of a process

VARIABLE job

MCNames == {"a", "b", "c"}

MCBoots == {<<>>, <<"x", "y", "z">>}

MCPaths == {<<>>, <<"a">>, <<"b">>, <<"c">>, <<"a", "b">>}

MCDataPaths == {<<"a">>, <<"b">>}

MCModes == {<<"r", FALSE>>, <<"w", FALSE>>, <<"w", TRUE>>}

MCInit ==
    /\ Init
    /\ \/ job = "tree" /\ d.pool = "kernel"
       \/ job = "data" /\ DOMAIN tree = {}

MCNext ==
    /\ UNCHANGED job
    /\ \/ job = "tree" /\ calls < MaxShort /\ TreeCalls
       \/ job = "data" /\ (d.pool = "user" => calls < MaxShort) /\ DataCalls
    /\ "dropped" \notin d'.seen

\* nothing is said of a partition once a bit is lost or a number is used twice
Undamaged == d.seen \cap {"stale", "lost"} = {}

MCSpec == MCInit /\ [][MCNext]_<<vars, job>>
=============================================================================
