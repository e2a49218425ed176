------------------------------ MODULE MCSigner ------------------------------
(* Instances of Signer for TLC: equal values in the input, and hashes whose
   order is not the order of the values. *)
EXTENDS Signer, TLC

MCInput3 == <<1, 0, 1>>
MCRank == (0 :> 2) @@ (1 :> 1)
=============================================================================
