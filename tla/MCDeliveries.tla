-------------------------------- MODULE MCDeliveries --------------------------------
(* Two processes during a deployment, two webhooks. *)
EXTENDS Deliveries

CONSTANTS e1, w1, w2, d1, d2, t1, t2

MCTypeOf == [e \in Events |-> t1]
MCRedeliveries == {<<w1, e1, 1>>}
MCSubscriptions == {{}, {t2}}
================================================================================
