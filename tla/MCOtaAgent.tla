----------------------------- MODULE MCOtaAgent -----------------------------
(* Small instances of the OTA agent for TLC.                               *)
EXTENDS OtaAgent, TLC

CONSTANTS j1, j2, j3, j4, j5, b1, b2

OneFirmware   == [j \in {j1} |-> "firmware"]
EveryKind     == [j \in {j1, j2, j3, j4, j5} |->
                    CASE j = j1 -> "file" [] j = j2 -> "firmware"
                      [] j = j3 -> "malformed" [] j = j4 -> "zerosize"
                      [] OTHER  -> "oversize"]

BlockSymmetry == Permutations(Blocks)
=============================================================================
