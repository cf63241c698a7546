------------------------- MODULE MCUberWebhookInbox -------------------------
(* A small instance of the inbox: two events of one order, the one that     *)
(* announces it of a type the first build does not understand.              *)
EXTENDS UberWebhookInbox, TLC

CONSTANTS orderPlaced, orderFailed

MCEvents == {orderPlaced, orderFailed}

MCResource == [e \in MCEvents |-> "order"]

MCUnsupported == {orderPlaced}
=============================================================================
