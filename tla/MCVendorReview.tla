---------------------------- MODULE MCVendorReview ----------------------------
(* A small instance of VendorReview: two documents of one type, one of       *)
(* another.                                                                  *)
EXTENDS VendorReview, TLC

CONSTANTS d1, d2, d3

MCTypeOf == d1 :> "ktp" @@ d2 :> "ktp" @@ d3 :> "npwp"
=============================================================================
