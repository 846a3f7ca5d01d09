------------------------------ MODULE MCLogin ------------------------------
(***************************************************************************)
(* A small instance of Login for TLC.                                      *)
(***************************************************************************)
EXTENDS Login, TLC

CONSTANTS a1, a2, c1, c2

MCRealmOf == a1 :> "cn" @@ a2 :> "global"

\* Two accounts, two files; with one name for both the run passes as well.
MCNames == a1 :> "u-1" @@ a2 :> "u-2"
=============================================================================
