-------------------------- MODULE MCNetworkManager --------------------------
(* Instances of the network manager for TLC.                               *)
EXTENDS NetworkManager

AllNetworks == {"ble", "wifi", "eth"}
SmallDemos == {{"wifi"}, {"ble"}, {"ble", "wifi"}, AllNetworks}
=============================================================================
