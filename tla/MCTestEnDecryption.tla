-------------------------- MODULE MCTestEnDecryption --------------------------
(* Small instances of TestEnDecryption for TLC. *)
EXTENDS TestEnDecryption

MCMemoryArg == {-1, 0, 2}
MCWorkersArg == {-2, 1, 3}
MCGarbage == {-1, 1, 7}

\* One size of data, for the run that ends early.
MCOneMemoryArg == {2}
=============================================================================
