------------------------- MODULE MCCheckoutIntent -------------------------
(* Instances of CheckoutIntent for TLC.                                    *)
EXTENDS CheckoutIntent
=============================================================================
