----------------------------- MODULE MCOperations -----------------------------
(***************************************************************************)
(* Small instances of Operations: a first deployment and one more, by a    *)
(* reset or by hand, and two files.                                        *)
(***************************************************************************)
EXTENDS Operations
=============================================================================
