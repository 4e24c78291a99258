------------------------------ MODULE OtaFile ------------------------------
(***************************************************************************)
(* What an OTA update promises, whatever events reach the agent and in     *)
(* whatever order: the update slot is filled block by block for one job    *)
(* at a time, a slot is verified only when it holds every block of its     *)
(* job, and the device only ever boots the image of a verified slot.       *)
(***************************************************************************)
CONSTANTS Jobs, NoJob, Blocks

VARIABLES
  phase,      \* "closed", "open" for writing, or "verified"
  job,        \* the job the slot was created for
  got,        \* the blocks the slot holds
  installed   \* the job whose image the device boots

vars == <<phase, job, got, installed>>

Init == phase = "closed" /\ job = NoJob /\ got = {} /\ installed = NoJob

(* A file is created for a job; what the slot held before is gone.         *)
Create == /\ \E j \in Jobs : job' = j
          /\ phase' = "open" /\ got' = {}
          /\ installed' = installed

(* A block that is not there yet is written.                               *)
Store == /\ phase = "open"
         /\ \E b \in Blocks \ got : got' = got \cup {b}
         /\ UNCHANGED <<phase, job, installed>>

(* Writing ends without a verified image: abort, failure, loss of power,   *)
(* or a last block after which the signature does not match.               *)
GiveUp == /\ phase = "open" /\ phase' = "closed"
          /\ \E S \in SUBSET Blocks : got \subseteq S /\ got' = S
          /\ UNCHANGED <<job, installed>>

(* The last missing block is written and the image verified; the image of  *)
(* a verified slot may be installed.                                       *)
Verify == /\ phase = "open" /\ phase' = "verified"
          /\ \E b \in Blocks \ got : got \cup {b} = Blocks
          /\ got' = Blocks /\ job' = job
          /\ installed' \in {installed, job}

Next == Create \/ Store \/ GiveUp \/ Verify

Spec == Init /\ [][Next]_vars
=============================================================================
