-------------------------- MODULE MCEventDelivery --------------------------
(* Instances of EventDelivery for TLC: one tab, whose sockets come one after another. *)
EXTENDS EventDelivery
=============================================================================
