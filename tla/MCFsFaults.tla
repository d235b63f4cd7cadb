---------------------------- MODULE MCFsFaults ------------------------------
(* The file system where what the code says of itself does not hold        *)
EXTENDS Fs

Blank == {<<>>}

ThreeFiles == {<<"x", "y", "z">>}

MCNames == {"a", "b", "c"}

MCPaths == {<<"a">>, <<"b">>, <<"c">>}

MCDataPaths == {<<"a">>}

MCModes == {<<"w", TRUE>>}
=============================================================================
