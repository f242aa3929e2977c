--------------------------- MODULE MCMcDonaldsShop ---------------------------
(* The instances of MCMcDonalds, for the refinement.                       *)
EXTENDS MCMcDonalds, McDonaldsShop
=============================================================================
