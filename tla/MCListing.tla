------------------------------ MODULE MCListing ------------------------------
(***************************************************************************)
(* An instance of Listing for TLC.                                         *)
(***************************************************************************)
EXTENDS Listing

CONSTANTS a, b

\* In a buffer of one, a fits and b does not.
MCSize == [n \in Name |-> IF n = b THEN 2 ELSE 1]
=============================================================================
