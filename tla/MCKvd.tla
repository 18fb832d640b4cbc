------------------------------- MODULE MCKvd --------------------------------
(***************************************************************************)
(* A small instance of KvdSuite.                                            *)
(***************************************************************************)
EXTENDS KvdSuite

MCUsers == {"job", "load"}
MCKeys == {<<"job", n>> : n \in 1..MaxOps} \cup {<<"load", 0>>}

=============================================================================
