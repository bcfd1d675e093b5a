-------------------------- MODULE MCMessageDelivery --------------------------
(* One message in two parts, sent as a steer. *)
EXTENDS MessageDelivery

CONSTANTS t1, e1, e2

TwoParts == [m \in Messages |-> 2]
=============================================================================
