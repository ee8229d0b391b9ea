------------------------- MODULE MCDecryptDelivery -------------------------
(* DecryptDelivery for TLC (DeliveryEarly.cfg): one subscription and a     *)
(* list() call in one room, of a client that subscribes before its MLS     *)
(* provider is initialized.                                                *)
EXTENDS DecryptDelivery

OneRow == [c \in Consumers |-> 1]
=============================================================================
