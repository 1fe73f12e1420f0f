---------------------------- MODULE MCShimSession ----------------------------
(***************************************************************************)
(* A client with two subscription ids, two REQs, one user and room for one *)
(* badge counter; two failures, dead peers or crashes.                     *)
(***************************************************************************)
EXTENDS ShimSession

CONSTANTS s, t
=============================================================================
