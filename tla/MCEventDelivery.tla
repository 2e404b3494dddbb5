--------------------------- MODULE MCEventDelivery --------------------------
(* A small instance of EventDelivery for TLC: a turn with one question, and a *)
(* page that may lose its connection twice.                                   *)
EXTENDS EventDelivery

CONSTANT write

=============================================================================
