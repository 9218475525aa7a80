----------------------------- MODULE MCRabbitmq -----------------------------
(* Small instances of Rabbitmq for TLC.                                    *)
EXTENDS Rabbitmq

CONSTANTS q1, m1, m2      \* model values

OneQueue    == {q1}
TwoMessages == {m1, m2}
ToOneQueue  == [m \in TwoMessages |-> q1]
=============================================================================
