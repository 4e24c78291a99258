-------------------------- MODULE MCMqttAgentDemo --------------------------
(* Small instances of the coreMQTT Agent demo for TLC: the demo tasks are  *)
(* model values.                                                           *)
EXTENDS MqttAgentDemo

CONSTANTS t1, t2
=============================================================================
