------------------------- MODULE RailwayApiOutcomes -------------------------
(***************************************************************************)
(* What a caller of RailwayApiClient.execute has to reckon with: whether   *)
(* it got data, and how often the server executed the mutation, given how  *)
(* many answers may have been lost, or been of no use, on the way.         *)
(***************************************************************************)
EXTENDS Naturals

Outcomes(losses) ==
    [ok : {TRUE}, effects : 1 .. 1 + losses]
        \cup [ok : {FALSE}, effects : 0 .. losses]
=============================================================================
