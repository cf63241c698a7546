------------------------ MODULE MCUberOrderLifecycle ------------------------
(* One worker and one webhook handler around one order.                      *)
EXTENDS UberOrderLifecycle

MCWritable == OrderStatuses
=============================================================================
