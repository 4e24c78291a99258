---------------------------- MODULE MCMqttDemos ----------------------------
(* Instances of the MQTT demos for TLC.                                    *)
EXTENDS MqttDemos

\* The parts of a defender report and a buffer that only some reports fit.
SmallParts == <<2, 1, 1, 1, 1>>
=============================================================================
