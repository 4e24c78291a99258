---------------------------- MODULE UpdateFlash ----------------------------
(***************************************************************************)
(* The OTA platform layer of the Ameba chips (aws_ota_ameba.c behind       *)
(* ota_pal.c): how the blocks of an image reach the flash slot that is not *)
(* running, what is held back until the image is activated, the word that  *)
(* keeps the image state, and what a loss of power between two flash       *)
(* operations leaves behind. The three families of chips share the file    *)
(* and differ in their branches; one is chosen at the start.               *)
(*                                                                         *)
(* Flash is modelled in cells. Cell 0 of an image is its signature or      *)
(* manifest, without which the boot loader ignores the slot; programming   *)
(* a cell that is not erased leaves a mixture. On AmebaD and its           *)
(* successors one cell of header comes first in the file and is not        *)
(* written. The calls come from the OTA agent, one at a time.              *)
(***************************************************************************)
EXTENDS Naturals, Sequences, FiniteSets, SequencesExt

CONSTANTS
  Families,   \* the chips: "ameba" (Plus, Lite, Smart), "amebad", "amebaz2"
  Versions,   \* the images on offer, by version; the device starts with 0
  ImgLen,     \* cells of an image
  BlockCells, \* cells of a block, OTA_FILE_BLOCK_SIZE
  Erased,     \* an erased cell
  Mixed       \* one that was programmed twice

ASSUME FlashAssumption ==
  /\ Families \subseteq {"ameba", "amebad", "amebaz2"}
  /\ Versions \subseteq Nat \ {0}
  /\ ImgLen \in Nat \ {0} /\ BlockCells \in Nat /\ BlockCells > 1
  /\ BlockCells <= ImgLen + 1   \* block 0 ends in the image
  /\ Erased \notin Versions \cup {0} /\ Mixed \notin Versions \cup {0}

VARIABLES
  family,     \* the build
  running,    \* the version that runs
  underTest,  \* it was booted after its activation and its state not rewritten since
  slot,       \* the cells of the other slot
  flag,       \* the word at AWS_OTA_IMAGE_STATE_FLASH_OFFSET
  pc,         \* what the agent has got to
  file,       \* the image being received: its version and the cells behind it
  remaining,  \* the blocks the agent has not handed over
  header,     \* aws_ota_target_hdr: not there, guessed, or read from block 0
  imgsz,      \* aws_ota_imgsz
  held,       \* the signature or manifest held back, 0 when there is none
  firstTime,  \* first_time of AmebaZ2
  fresh,      \* the slot has been erased for this file
  todo        \* the flash operations of the call in progress

download == <<file, remaining, header, imgsz, held, firstTime, fresh>>
vars == <<family, running, underTest, slot, flag, pc, download, todo>>

Cells == 0..ImgLen            \* room for one cell behind the image
NoFile == [version |-> 0, trailing |-> 0]

\* The header cell at the start of the file.
Offset == IF family = "amebaz2" THEN 0 ELSE 1

Blocks(f) ==
  0..((Offset + ImgLen + f.trailing - 1) \div BlockCells)

\* The image cells in block b, with what is behind the image.
CellsOf(b, f) ==
  {c \in Cells : /\ c < ImgLen + f.trailing
                 /\ (c + Offset) \div BlockCells = b}

-----------------------------------------------------------------------------
(* Flash operations, one per step, so that power may be lost in between.   *)

Program(c, v) == [op |-> "program", cell |-> c, value |-> v, state |-> "none"]
Erase(c)      == [op |-> "program", cell |-> c, value |-> Erased, state |-> "none"]
Word(v)       == [op |-> "flag", cell |-> 0, value |-> Erased, state |-> v]
SetFlag(v)    == <<Word("erased"), Word(v)>>
Restart       == [op |-> "reset", cell |-> 0, value |-> Erased, state |-> "none"]

EraseSlot == [i \in 1..(ImgLen + 1) |-> Erase(i - 1)]

\* Without an erasure bits only go from one to zero: what is there mixes with
\* what is written.
Programmed(old, new) ==
  IF old \in {Erased, new} \/ new = Erased THEN new ELSE Mixed

\* The boot loader takes the slot when it is signed and newer than what runs.
Bootable(s, r) == s[0] \in Versions /\ s[0] > r

\* The boot, after prvSysReset_ameba or a loss of power; what runs becomes the
\* image in the other slot. An image that is flagged as being tested is told so.
Boot(s, r, t, fl) ==
  LET new == Bootable(s, r) IN
  /\ running' = IF new THEN s[0] ELSE r
  /\ slot' = IF new THEN [c \in Cells |-> r] ELSE s
  /\ underTest' = (t \/ new)
  /\ pc' = IF fl = "testing" THEN "selfTest" ELSE "idle"
  /\ file' = NoFile /\ remaining' = {} /\ header' = "none" /\ imgsz' = 0
  /\ held' = 0 /\ firstTime' = FALSE /\ fresh' = FALSE
  /\ todo' = <<>>

FlashOperation ==
  /\ todo # <<>>
  /\ LET o == Head(todo) IN
     CASE o.op = "reset" ->
            /\ Boot(slot, running, underTest, flag)
            /\ UNCHANGED flag
       [] o.op = "flag" ->
            /\ flag' = o.state
            /\ underTest' = (underTest /\ o.state # "erased")
            /\ todo' = Tail(todo)
            /\ UNCHANGED <<running, slot, pc, download>>
       [] o.op = "program" ->
            /\ slot' = [slot EXCEPT ![o.cell] = Programmed(@, o.value)]
            /\ todo' = Tail(todo)
            /\ UNCHANGED <<running, underTest, flag, pc, download>>
  /\ UNCHANGED family

\* Power is lost at any time; nothing but the flash survives.
PowerLoss ==
  /\ Boot(slot, running, underTest, flag)
  /\ UNCHANGED <<family, flag>>

Init ==
  /\ family \in Families
  /\ running = 0 /\ underTest = FALSE
  /\ slot = [c \in Cells |-> 0] /\ flag = "accepted"
  /\ pc = "idle" /\ file = NoFile /\ remaining = {}
  /\ header = "none" /\ imgsz = 0 /\ held = 0
  /\ firstTime = FALSE /\ fresh = FALSE /\ todo = <<>>

Calls == todo = <<>>   \* the previous call has returned

-----------------------------------------------------------------------------
(* The file.                                                               *)

\* prvPAL_CreateFileForRx_ameba of AmebaDPlus and its siblings, and of AmebaD:
\* the slot is erased as far as the file goes, from its first sector on.
Receive(f, counted) ==
  /\ file' = f /\ remaining' = Blocks(f)
  /\ pc' = "receiving"
  /\ todo' = EraseSlot
  /\ imgsz' = counted /\ header' = "none" /\ held' = 0 /\ fresh' = TRUE
  /\ UNCHANGED firstTime

CreateKeepsCount(f) == family = "ameba" /\ Receive(f, imgsz)

CreateAmeba(f)  == family = "ameba" /\ Receive(f, 0)
CreateAmebaD(f) == family = "amebad" /\ Receive(f, 0)

\* AmebaZ2 only notes the address. The counts of the others are not there.
CreateAmebaZ2(f) ==
  /\ family = "amebaz2"
  /\ file' = f /\ remaining' = Blocks(f)
  /\ pc' = "receiving" /\ fresh' = FALSE
  /\ UNCHANGED <<todo, imgsz, header, held, firstTime>>

\* otaPal_CreateFileForRx; an address that is not in flash fails and changes
\* nothing the next file would not set anew.
CreateFileForRx ==
  /\ Calls /\ pc \in {"idle", "verified"}
  /\ \E v \in Versions, t \in {0, 1} :
       LET f == [version |-> v, trailing |-> t] IN
       CreateAmeba(f) \/ CreateAmebaD(f) \/ CreateAmebaZ2(f)
  /\ UNCHANGED <<family, running, underTest, slot, flag>>

\* prvGet_ota_tartget_header of AmebaDPlus and its siblings: what is behind its
\* checks of the header is the image, or it is refused.
HeaderAccepted(f) == BOOLEAN

\* AmebaD also refuses a version that is not newer than its own.
HeaderAcceptedD(f) == IF f.version > running THEN BOOLEAN ELSE {FALSE}

\* The header as block b finds it: block 0 brings the real one; without it the
\* length is taken to be an address, which no image reaches.
HeaderAt(b) ==
  CASE header \in {"first", "late"} -> header
    [] header \notin {"first", "late"} /\ b = 0 -> IF header = "none" THEN "first" ELSE "late"
    [] OTHER -> "guessed"

ImgLenAt(b) == IF HeaderAt(b) = "guessed" THEN ImgLen + 2 ELSE ImgLen

\* Cells that go to flash: all of block 0, and of the others what is not
\* beyond the length.
WrittenCells(b) == {c \in CellsOf(b, file) : b = 0 \/ c < ImgLenAt(b)}

ProgramAll(cells) ==
  SetToSeq({Program(c, file.version) : c \in cells})

StoreWithManifest(b, accepted) ==
  /\ header' = HeaderAt(b)
  /\ IF b = 0 /\ ~accepted
     THEN pc' = "failed" /\ UNCHANGED <<imgsz, held, todo, remaining>>
     ELSE /\ remaining' = remaining \ {b}
          /\ UNCHANGED pc
          /\ IF imgsz >= ImgLenAt(b)
             THEN UNCHANGED <<imgsz, held, todo>>
             ELSE /\ imgsz' = imgsz + Cardinality(WrittenCells(b))
                  /\ held' = IF b = 0 THEN file.version ELSE held
                  /\ todo' = ProgramAll(WrittenCells(b))
  /\ UNCHANGED <<firstTime, fresh>>

\* prvPAL_WriteBlock_ameba of AmebaDPlus and its siblings: block 0 is written
\* without the manifest, which is kept. What comes when everything has been
\* counted is dropped.
StoreBlock(b, accepted) ==
  /\ header' = HeaderAt(b)
  /\ IF b = 0 /\ ~accepted
     THEN pc' = "failed" /\ UNCHANGED <<imgsz, held, todo, remaining>>
     ELSE /\ remaining' = remaining \ {b}
          /\ UNCHANGED pc
          /\ IF imgsz >= ImgLenAt(b)
             THEN UNCHANGED <<imgsz, held, todo>>
             ELSE /\ imgsz' = imgsz + Cardinality(WrittenCells(b))
                  /\ held' = IF b = 0 THEN file.version ELSE held
                  /\ todo' = ProgramAll(WrittenCells(b) \ {0})
  /\ UNCHANGED <<firstTime, fresh>>

WriteBlockAmeba(b) ==
  family = "ameba" /\ \E a \in HeaderAccepted(file) : StoreBlock(b, a)

\* AmebaD does the same with its signature.
WriteBlockAmebaD(b) ==
  family = "amebad" /\ \E a \in HeaderAcceptedD(file) : StoreBlock(b, a)

\* AmebaZ2 erases the slot before the first block since the boot.
WriteBlockAmebaZ2(b) ==
  /\ family = "amebaz2"
  /\ firstTime' = TRUE
  /\ fresh' = (fresh \/ ~firstTime)
  /\ held' = IF b = 0 THEN file.version ELSE held
  /\ remaining' = remaining \ {b}
  /\ todo' = (IF firstTime THEN <<>> ELSE EraseSlot) \o
             ProgramAll(CellsOf(b, file) \ {0})
  /\ UNCHANGED <<pc, header, imgsz>>

\* otaPal_WriteBlock: the agent hands over each block once, in any order. A
\* flash write that fails ends the job.
WriteBlock ==
  /\ Calls /\ pc = "receiving"
  /\ \/ \E b \in remaining : WriteBlockAmeba(b) \/ WriteBlockAmebaD(b) \/ WriteBlockAmebaZ2(b)
     \/ pc' = "failed" /\ UNCHANGED <<remaining, header, imgsz, held, firstTime, fresh, todo>>
  /\ UNCHANGED <<family, running, underTest, slot, flag, file>>

\* prvPAL_Abort_ameba, after a failure or because the user asked for it; the
\* agent then sets the image state.
Abort ==
  /\ Calls /\ pc \in {"receiving", "failed"}
  /\ pc' = "idle"
  /\ todo' = SetFlag("aborted")
  /\ UNCHANGED <<family, running, underTest, slot, flag, download>>

-----------------------------------------------------------------------------
(* The signature check.                                                    *)

Intact(cells) == \A c \in cells : slot[c] = file.version

\* What prvSignatureVerificationUpdate_ameba feeds: what was held back, then as
\* many cells of the slot as were counted, or as the file has on AmebaZ2.
CountedImage ==
  /\ imgsz = ImgLen
  /\ held = file.version
  /\ Intact(1..(ImgLen - 1))

UpdateAmeba  == family = "ameba"  /\ CountedImage
UpdateAmebaD == family = "amebad" /\ CountedImage
UpdateOneShort ==
  /\ family = "amebaz2"
  /\ held = file.version
  /\ Intact(1..(ImgLen + file.trailing - 2))

UpdateAmebaZ2 ==
  /\ family = "amebaz2"
  /\ held = file.version
  /\ Intact(1..(ImgLen + file.trailing - 1))

\* prvPAL_ReadAndAssumeCertificate_ameba: the certificate from PKCS #11 or the
\* one that is built in; there may be no memory for it.
CertificateRead == BOOLEAN

\* prvPAL_CheckFileSignature_ameba: only an image as it was signed passes, and
\* only that a signature does not match is a rejection.
CheckFileSignature(passes, rejected) ==
  /\ passes => (UpdateAmeba \/ UpdateAmebaD \/ UpdateAmebaZ2) /\ TRUE \in CertificateRead
  /\ rejected => ~passes

\* prvPAL_CloseFile_ameba: whatever fails, the image state ends as aborted.
CloseFile ==
  /\ Calls /\ pc = "receiving" /\ remaining = {}
  /\ \/ /\ CheckFileSignature(TRUE, FALSE)
        /\ pc' = "verified" /\ UNCHANGED todo
     \/ \E rejected \in BOOLEAN :
          /\ CheckFileSignature(FALSE, rejected)
          /\ pc' = "idle"
          /\ todo' = (IF rejected THEN SetFlag("rejected") ELSE <<>>) \o SetFlag("aborted")
  /\ UNCHANGED <<family, running, underTest, slot, flag, download>>

-----------------------------------------------------------------------------
(* Activation and the image state.                                         *)

\* prvPAL_ActivateNewImage_ameba on AmebaDPlus and its siblings: a checksum that
\* does not match erases the first sector. The manifest, once written, makes the
\* slot bootable; the image state follows.
ActivateAmeba ==
  /\ family = "ameba"
  /\ \/ pc' = "idle" /\ todo' \in {<<Erase(0)>>, <<>>}
     \/ pc' = "activated" /\ todo' = <<Program(0, held)>> \o SetFlag("pending") \o <<Restart>>

\* The same with AmebaD's signature.
ActivateAmebaD ==
  /\ family = "amebad"
  /\ \/ pc' = "idle" /\ todo' \in {<<Erase(0)>>, <<>>}
     \/ pc' = "activated" /\ todo' = <<Program(0, held)>> \o SetFlag("pending") \o <<Restart>>

\* AmebaZ2 writes the state that its boot reads as being tested.
SignAmebaZ2 ==
  /\ family = "amebaz2"
  /\ pc' = "activated"
  /\ todo' = <<Program(0, held)>> \o SetFlag("testing") \o <<Restart>>

ActivateNewImage ==
  /\ Calls /\ pc = "verified"
  /\ \/ ActivateAmeba \/ ActivateAmebaD \/ SignAmebaZ2
     \/ family = "amebaz2" /\ pc' = "idle" /\ UNCHANGED todo
  /\ UNCHANGED <<family, running, underTest, slot, flag, download>>

\* prvPAL_SetPlatformImageState_ameba by the agent: the image under test is
\* accepted, or rejected and left for a restart.
SetPlatformImageState ==
  /\ Calls /\ pc = "selfTest"
  /\ pc' = "idle"
  /\ \/ todo' = SetFlag("accepted")
     \/ todo' = SetFlag("rejected") \o <<Restart>>
  /\ UNCHANGED <<family, running, underTest, slot, flag, download>>

-----------------------------------------------------------------------------
Next == \/ FlashOperation \/ PowerLoss
        \/ CreateFileForRx \/ WriteBlock \/ Abort \/ CloseFile
        \/ ActivateNewImage \/ SetPlatformImageState

Spec == Init /\ [][Next]_vars

-----------------------------------------------------------------------------
CellValues == {Erased, Mixed, 0} \cup Versions

TypeOK ==
  /\ family \in Families /\ running \in {0} \cup Versions
  /\ underTest \in BOOLEAN
  /\ slot \in [Cells -> CellValues]
  /\ flag \in {"erased", "accepted", "rejected", "aborted", "testing", "pending"}
  /\ pc \in {"idle", "receiving", "failed", "verified", "activated", "selfTest"}
  /\ remaining \subseteq 0..(ImgLen + 1)
  /\ header \in {"none", "guessed", "late", "first"}
  /\ imgsz \in 0..(ImgLen + 1) /\ held \in {0} \cup Versions
  /\ firstTime \in BOOLEAN /\ fresh \in BOOLEAN

\* A slot the boot loader would take holds one whole image: nothing that is
\* still arriving, that was given up or that lost its power halfway is bootable,
\* for the signature is only written when everything else has been verified.
NeverBootPartial ==
  Bootable(slot, running) => \A c \in 0..(ImgLen - 1) : slot[c] = slot[0]

\* A file whose blocks have all been taken, in whatever order, passes the
\* signature check: what is written, counted and held back is what the check
\* reads. It needs a slot that was erased for it, and when there is something
\* behind the image, block 0 before the others.
CompleteFileVerifies ==
  (/\ Calls /\ pc = "receiving" /\ remaining = {} /\ fresh
   /\ file.trailing = 0 \/ header = "first" \/ family = "amebaz2")
  => UpdateAmeba \/ UpdateAmebaD \/ UpdateAmebaZ2

\* An image that has been verified can still be activated: what is held back is
\* its own, and what is in the slot has not changed since.
VerifiedStays ==
  pc = "verified" => held = file.version /\ Intact(1..(ImgLen - 1)) /\ slot[0] # file.version

\* The device never changes what it runs but to the image that was verified and
\* activated last, whole and newer than what ran: a restart for another reason, a
\* loss of power at any flash operation of an update included, keeps the image.
RunsActivated ==
  [][running' # running =>
       /\ pc = "activated" /\ running' = file.version /\ running' > running
       /\ Intact(0..(ImgLen - 1))]_vars
=============================================================================
