------------------------- MODULE UpdateFlashProofs -------------------------
(***************************************************************************)
(* Proofs about the update slot, for every family of chips, every length   *)
(* of the image and of its blocks, and every set of versions: power may be *)
(* lost between any two flash operations, and never leaves a slot that is  *)
(* bootable in part.                                                       *)
(***************************************************************************)
EXTENDS UpdateFlash, FiniteSetTheorems, SequenceTheorems, TLAPS

FlagStates == {"none", "erased", "accepted", "rejected", "aborted", "testing", "pending"}

(* The flash operations a call may leave to be done.                       *)
Operations == [op : {"program", "flag", "reset"}, cell : Cells,
               value : CellValues, state : FlagStates]

Typed ==
  /\ family \in Families
  /\ slot \in [Cells -> CellValues] /\ running \in {0} \cup Versions
  /\ held \in {0} \cup Versions
  /\ file \in [version : {0} \cup Versions, trailing : {0, 1}]
  /\ pc \in {"receiving", "verified"} => file.version \in Versions
  /\ todo \in Seq(Operations)
  /\ firstTime \in BOOLEAN

(* Nothing that is still to be done signs the slot.                        *)
Quiet == \A i \in 1..Len(todo) :
           todo[i].op = "program" => todo[i].value = Erased \/ todo[i].cell # 0

(* All that is still to be done to cell 0 is to sign it.                   *)
Signs == \A i \in 1..Len(todo) :
           todo[i].op = "program" => todo[i].cell = 0 /\ todo[i].value = held

(* Cells 1 and up hold the image whose signature is held back.             *)
Whole == held = file.version /\ Intact(1..(ImgLen - 1))

(* Only the activation of a verified image makes the slot bootable.        *)
OnlyActivated ==
  /\ pc # "activated" => ~Bootable(slot, running) /\ Quiet
  /\ pc = "activated" => Whole /\ Signs /\ (Bootable(slot, running) => slot[0] = held)
  /\ pc = "verified" => Whole /\ todo = <<>>

(* The signature's cell is erased before anything else is, and stays so    *)
(* until the activation. AmebaZ2 erases with the first block.              *)
FirstErased ==
  /\ family = "amebaz2" /\ pc = "receiving" /\ 0 \notin remaining => firstTime
  /\ family = "amebaz2" /\ pc = "verified" => firstTime
  /\ /\ pc # "activated"
     /\ family = "amebaz2" => firstTime
     /\ family # "amebaz2" => pc \in {"receiving", "failed", "verified"}
     => slot[0] = Erased \/ (Len(todo) > 0 /\ todo[1] = Erase(0))

IInv == Typed /\ OnlyActivated /\ FirstErased
-----------------------------------------------------------------------------
(* The lists of flash operations.                                          *)

LEMMA OperationKinds ==
  /\ \A c \in Cells, v \in CellValues : Program(c, v) \in Operations
  /\ \A c \in Cells : Erase(c) \in Operations /\ Erase(c).value = Erased
  /\ \A v \in FlagStates : Word(v) \in Operations /\ Word(v).op = "flag"
  /\ Restart \in Operations /\ Restart.op = "reset"
BY FlashAssumption DEF Program, Erase, Word, Restart, Operations, Cells, CellValues, FlagStates

(* The operations that program a set of cells are those of its cells.      *)
LEMMA ProgramAllCells ==
  ASSUME NEW cells \in SUBSET Cells, file.version \in CellValues
  PROVE  /\ ProgramAll(cells) \in Seq(Operations)
         /\ \A i \in 1..Len(ProgramAll(cells)) : ProgramAll(cells)[i].cell \in cells
         /\ \A i \in 1..Len(ProgramAll(cells)) :
              \E c \in cells : ProgramAll(cells)[i] = Program(c, file.version)
         /\ \A c \in cells :
              \E i \in 1..Len(ProgramAll(cells)) : ProgramAll(cells)[i] = Program(c, file.version)
<1> DEFINE S == {Program(c, file.version) : c \in cells}
           g == [c \in cells |-> Program(c, file.version)]
<1>1. IsFiniteSet(cells)
  <2>1. IsFiniteSet(Cells)
    BY FlashAssumption, FS_Interval DEF Cells
  <2> QED  BY <2>1, FS_Subset
<1>2. IsFiniteSet(S)
  <2>1. g \in Surjection(cells, S)
    BY DEF Surjection
  <2> HIDE DEF g, S
  <2> QED  BY <1>1, <2>1, FS_Surjection
<1>3. S \subseteq Operations /\ \A o \in S : o.cell \in cells
  BY OperationKinds DEF Program
<1>9. /\ \A o \in S : \E c \in cells : o = Program(c, file.version)
      /\ \A c \in cells : Program(c, file.version) \in S
  OBVIOUS
<1> HIDE DEF S
<1>4. \E f \in [1..Cardinality(S) -> S] : IsInjective(f)
  BY <1>2, FS_CardinalityType DEF ExistsBijection, Bijection, Injection
<1>5. SetToSeq(S) \in [1..Cardinality(S) -> S] /\ IsInjective(SetToSeq(S))
  BY <1>4 DEF SetToSeq
<1>6. Cardinality(S) \in Nat
  BY <1>2, FS_CardinalityType
<1>7. SetToSeq(S) \in Seq(S) /\ Len(SetToSeq(S)) = Cardinality(S)
  BY <1>5, <1>6
<1>8. ProgramAll(cells) = SetToSeq(S)
  BY DEF ProgramAll, S
<1>10. SetToSeq(S) \in Surjection(1..Cardinality(S), S)
  <2>1. SetToSeq(S) \in Injection(1..Cardinality(S), S)
    BY <1>5 DEF Injection
  <2>2. Cardinality(1..Cardinality(S)) = Cardinality(S)
    BY <1>6, FS_Interval
  <2> QED  BY <1>2, <2>1, <2>2, FS_Injection
<1>11. \A o \in S : \E i \in 1..Cardinality(S) : SetToSeq(S)[i] = o
  BY <1>10 DEF Surjection
<1> QED  BY <1>3, <1>5, <1>7, <1>8, <1>9, <1>11

LEMMA EraseSlotCells ==
  /\ EraseSlot \in Seq(Operations) /\ Len(EraseSlot) > 0 /\ EraseSlot[1] = Erase(0)
  /\ \A i \in 1..Len(EraseSlot) : EraseSlot[i].value = Erased
BY FlashAssumption, OperationKinds DEF EraseSlot, Cells

(* Lists that program nothing.                                             *)
Harmless(s) == s \in Seq(Operations) /\ \A i \in 1..Len(s) : s[i].op # "program"

LEMMA HarmlessLists ==
  /\ Harmless(<<>>) /\ Harmless(<<Restart>>)
  /\ \A v \in FlagStates : Harmless(SetFlag(v))
  /\ \A v \in FlagStates : Harmless(SetFlag(v) \o <<Restart>>)
  /\ \A v, w \in FlagStates : Harmless(SetFlag(v) \o SetFlag(w))
<1>1. "erased" \in FlagStates
  BY DEF FlagStates
<1>2. Harmless(<<>>) /\ Harmless(<<Restart>>)
  BY OperationKinds DEF Harmless
<1>3. \A v \in FlagStates : Harmless(SetFlag(v))
  BY <1>1, OperationKinds DEF Harmless, SetFlag
<1>4. ASSUME NEW s, NEW t, Harmless(s), Harmless(t)
      PROVE  Harmless(s \o t)
  BY <1>4 DEF Harmless
<1> QED  BY <1>2, <1>3, <1>4

(* What follows a list of one element.                                     *)
LEMMA AfterFirst ==
  ASSUME NEW S, NEW s \in Seq(S), NEW t \in Seq(S), Len(s) = 1
  PROVE  /\ s \o t \in Seq(S) /\ Len(s \o t) = 1 + Len(t)
         /\ (s \o t)[1] = s[1]
         /\ \A i \in 1..Len(t) : (s \o t)[i + 1] = t[i]
<1>1. /\ s \o t \in Seq(S) /\ Len(s \o t) = Len(s) + Len(t)
      /\ \A i \in 1..Len(s) + Len(t) :
           (s \o t)[i] = IF i <= Len(s) THEN s[i] ELSE t[i - Len(s)]
  BY ConcatProperties
<1>2. Len(t) \in Nat
  OBVIOUS
<1>3. ASSUME NEW i \in 1..Len(t)
      PROVE  (s \o t)[i + 1] = t[i]
  <2>1. i + 1 \in 1..1 + Len(t) /\ ~(i + 1 <= 1) /\ (i + 1) - 1 = i
    BY <1>2
  <2> QED  BY <1>1, <2>1
<1>4. (s \o t)[1] = s[1]
  BY <1>1, <1>2
<1> QED  BY <1>1, <1>3, <1>4

(* Every file has a first block.                                           *)
LEMMA FirstBlock ==
  ASSUME NEW f \in [version : Versions, trailing : {0, 1}]
  PROVE  0 \in Blocks(f)
<1>1. /\ Offset + ImgLen + f.trailing - 1 \in Nat
      /\ BlockCells \in Nat \ {0}
  BY FlashAssumption DEF Offset
<1>2. \A n \in Nat, d \in Nat \ {0} : n \div d \in Nat
  OBVIOUS
<1> QED  BY <1>1, <1>2 DEF Blocks

-----------------------------------------------------------------------------
LEMMA InvInit == Init => IInv
<1> SUFFICES ASSUME Init PROVE IInv
  OBVIOUS
<1>1. Typed
  <2>1. slot \in [Cells -> CellValues] /\ todo \in Seq(Operations)
    BY DEF Init, CellValues
  <2>2. file \in [version : {0} \cup Versions, trailing : {0, 1}]
    BY DEF Init, NoFile
  <2> QED  BY <2>1, <2>2 DEF Init, Typed
<1>2. OnlyActivated
  BY FlashAssumption DEF Init, OnlyActivated, Bootable, Quiet, Cells
<1>3. FirstErased
  BY DEF Init, FirstErased
<1> QED  BY <1>1, <1>2, <1>3 DEF IInv

(* A boot takes the slot, or leaves one that cannot be booted.             *)
LEMMA BootStep ==
  ASSUME IInv, NEW fl, Boot(slot, running, underTest, fl), family' = family
  PROVE  IInv'
<1> USE DEF IInv, Typed
<1>1. Typed'
  <2>1. slot' \in [Cells -> CellValues]
    BY FlashAssumption DEF Boot, CellValues
  <2>2. running' \in {0} \cup Versions
    BY DEF Boot, Bootable
  <2>3. todo' \in Seq(Operations)
    BY DEF Boot
  <2> QED  BY <2>1, <2>2, <2>3 DEF Boot, NoFile
<1>2. OnlyActivated'
  <2>1. ~Bootable(slot', running')
    <3>1. Versions \subseteq Nat /\ 0 \in Cells
      BY FlashAssumption DEF Cells
    <3> QED  BY <3>1 DEF Boot, Bootable
  <2>2. Quiet'
    BY DEF Boot, Quiet
  <2>3. pc' \in {"selfTest", "idle"}
    BY DEF Boot
  <2> QED  BY <2>1, <2>2, <2>3 DEF OnlyActivated
<1>3. FirstErased'
  BY DEF Boot, FirstErased
<1> QED  BY <1>1, <1>2, <1>3

(* One flash operation: it only signs the slot after the verification.     *)
LEMMA OperationStep == IInv /\ FlashOperation => IInv'
<1> SUFFICES ASSUME IInv, FlashOperation PROVE IInv'
  OBVIOUS
<1> DEFINE o == Head(todo)
<1> USE DEF IInv, Typed
<1>1. /\ Len(todo) \in Nat \ {0} /\ o = todo[1] /\ o \in Operations
      /\ Tail(todo) \in Seq(Operations) /\ Len(Tail(todo)) = Len(todo) - 1
      /\ \A i \in 1..Len(Tail(todo)) : Tail(todo)[i] = todo[i + 1]
  BY DEF FlashOperation
<1>2. CASE o.op = "reset"
  BY <1>2, BootStep DEF FlashOperation
<1>3. CASE o.op = "flag"
  <2>1. /\ todo' = Tail(todo) /\ UNCHANGED <<family, running, slot, pc, download>>
    BY <1>3 DEF FlashOperation
  <2>2. Typed'
    BY <1>1, <2>1 DEF download
  <2>3. OnlyActivated'
    BY <1>1, <2>1 DEF OnlyActivated, Quiet, Signs, Whole, Intact, Bootable, download
  <2>4. FirstErased'
    BY <1>1, <1>3, <2>1 DEF FirstErased, download, Erase
  <2> QED  BY <2>2, <2>3, <2>4
<1>4. CASE o.op = "program"
  <2>1. /\ slot' = [slot EXCEPT ![o.cell] = Programmed(@, o.value)]
        /\ todo' = Tail(todo) /\ UNCHANGED <<family, running, pc, download>>
    BY <1>4 DEF FlashOperation
  <2>2. o.cell \in Cells /\ o.value \in CellValues
    BY <1>1 DEF Operations
  <2>3. Typed'
    BY <1>1, <2>1, <2>2 DEF download, Programmed, CellValues
  <2>4. 0 \in Cells /\ \A c \in 1..(ImgLen - 1) : c \in Cells /\ c # 0
    BY FlashAssumption DEF Cells
  <2>5. OnlyActivated'
    <3>1. CASE pc # "activated"
      <4>1. o.value = Erased \/ o.cell # 0
        BY <1>1, <1>4, <3>1 DEF OnlyActivated, Quiet
      <4>2. slot'[0] = Erased \/ slot'[0] = slot[0]
        BY <2>1, <2>2, <2>4, <4>1 DEF Programmed
      <4>3. ~Bootable(slot', running')
        BY <2>1, <3>1, <4>2, FlashAssumption DEF OnlyActivated, Bootable
      <4>4. Quiet'
        BY <1>1, <2>1, <3>1 DEF OnlyActivated, Quiet
      <4>5. pc # "verified"
        BY <1>1 DEF OnlyActivated
      <4> QED  BY <2>1, <3>1, <4>3, <4>4, <4>5 DEF OnlyActivated
    <3>2. CASE pc = "activated"
      <4>1. o.cell = 0 /\ o.value = held /\ Whole /\ Signs
        BY <1>1, <1>4, <3>2 DEF OnlyActivated, Signs
      <4>2. Whole'
        BY <2>1, <2>2, <2>4, <4>1 DEF Whole, Intact, download
      <4>3. Signs'
        BY <1>1, <2>1, <4>1 DEF Signs, download
      <4>4. slot'[0] \in {held, Mixed}
        BY <2>1, <2>2, <2>4, <4>1, FlashAssumption DEF Programmed
      <4>5. Bootable(slot', running') => slot'[0] = held'
        BY <2>1, <4>4, FlashAssumption DEF Bootable, download
      <4> QED  BY <2>1, <3>2, <4>2, <4>3, <4>5 DEF OnlyActivated
    <3> QED  BY <3>1, <3>2
  <2>6. FirstErased'
    <3>1. slot[0] = Erased \/ o = Erase(0) => pc = "activated" \/ slot'[0] = Erased
      BY <1>1, <1>4, <2>1, <2>2, <2>4 DEF OnlyActivated, Quiet, Programmed, Erase
    <3> QED  BY <1>1, <2>1, <3>1 DEF FirstErased, download
  <2> QED  BY <2>3, <2>5, <2>6
<1> QED  BY <1>1, <1>2, <1>3, <1>4 DEF Operations

-----------------------------------------------------------------------------
(* The calls of the agent.                                                 *)

LEMMA CreateStep == IInv /\ CreateFileForRx => IInv'
<1> SUFFICES ASSUME IInv, CreateFileForRx PROVE IInv'
  OBVIOUS
<1> USE DEF IInv, Typed
<1>1. PICK f \in [version : Versions, trailing : {0, 1}] :
        /\ CreateAmeba(f) \/ CreateAmebaD(f) \/ CreateAmebaZ2(f)
        /\ Calls /\ pc \in {"idle", "verified"}
        /\ UNCHANGED <<family, running, slot>>
  BY DEF CreateFileForRx
<1>2. CASE CreateAmebaZ2(f)
  <2>1. /\ family = "amebaz2" /\ file' = f /\ remaining' = Blocks(f) /\ pc' = "receiving"
        /\ UNCHANGED <<todo, held, firstTime>>
    BY <1>2 DEF CreateAmebaZ2
  <2>2. OnlyActivated'
    BY <1>1, <2>1 DEF OnlyActivated, Bootable, Quiet
  <2>3. 0 \in Blocks(f)
    BY <1>1, <2>1, FirstBlock
  <2>4. FirstErased'
    BY <1>1, <2>1, <2>3 DEF FirstErased
  <2> QED  BY <1>1, <2>1, <2>2, <2>4
<1>3. CASE CreateAmeba(f) \/ CreateAmebaD(f)
  <2>1. /\ family # "amebaz2" /\ file' = f /\ pc' = "receiving" /\ todo' = EraseSlot
        /\ held' = 0 /\ firstTime' = firstTime
    BY <1>3 DEF CreateAmeba, CreateAmebaD, Receive
  <2>2. OnlyActivated'
    BY <1>1, <2>1, EraseSlotCells DEF OnlyActivated, Bootable, Quiet
  <2>3. FirstErased'
    BY <1>1, <2>1, EraseSlotCells DEF FirstErased
  <2> QED  BY <1>1, <2>1, <2>2, <2>3, EraseSlotCells
<1> QED  BY <1>1, <1>2, <1>3

(* A block is written anywhere but on the signature's cell.                *)
LEMMA WriteStep == IInv /\ WriteBlock => IInv'
<1> SUFFICES ASSUME IInv, WriteBlock PROVE IInv'
  OBVIOUS
<1> USE DEF IInv, Typed
<1>0. /\ todo = <<>> /\ pc = "receiving" /\ file.version \in CellValues
      /\ UNCHANGED <<family, running, slot, file>>
  BY DEF WriteBlock, Calls, CellValues
<1>1. ASSUME NEW b \in remaining, NEW a \in BOOLEAN, family # "amebaz2", StoreBlock(b, a)
      PROVE  IInv'
  <2> DEFINE cells == WrittenCells(b) \ {0}
  <2>1. /\ pc' \in {"receiving", "failed"} /\ held' \in {held, file.version}
        /\ todo' = todo \/ todo' = ProgramAll(cells)
        /\ firstTime' = firstTime
    BY <1>0, <1>1 DEF StoreBlock
  <2>2. cells \in SUBSET Cells /\ 0 \notin cells
    BY DEF WrittenCells, CellsOf
  <2> HIDE DEF cells
  <2>3. todo' \in Seq(Operations) /\ \A i \in 1..Len(todo') : todo'[i].cell # 0
    <3>1. CASE todo' = todo
      BY <1>0, <3>1
    <3>2. CASE todo' = ProgramAll(cells)
      <4>1. /\ ProgramAll(cells) \in Seq(Operations)
            /\ \A i \in 1..Len(ProgramAll(cells)) : ProgramAll(cells)[i].cell \in cells
        BY <1>0, <2>2, ProgramAllCells
      <4> QED  BY <2>2, <3>2, <4>1
    <3> QED  BY <2>1, <3>1, <3>2
  <2>4. Typed'
    BY <1>0, <2>1, <2>3
  <2>5. OnlyActivated'
    BY <1>0, <2>1, <2>3 DEF OnlyActivated, Bootable, Quiet
  <2>6. slot[0] = Erased
    BY <1>0, <1>1 DEF FirstErased
  <2>7. FirstErased'
    BY <1>0, <1>1, <2>1, <2>6 DEF FirstErased
  <2> QED  BY <2>4, <2>5, <2>7
<1>2. ASSUME NEW b \in remaining, WriteBlockAmebaZ2(b)
      PROVE  IInv'
  <2> DEFINE cells == CellsOf(b, file) \ {0}
             erase == IF firstTime THEN <<>> ELSE EraseSlot
  <2>1. /\ family = "amebaz2" /\ firstTime' = TRUE /\ pc' = pc
        /\ held' \in {held, file.version}
        /\ todo' = erase \o ProgramAll(cells)
    BY <1>2 DEF WriteBlockAmebaZ2
  <2>2. cells \in SUBSET Cells /\ 0 \notin cells
    BY DEF CellsOf
  <2>3. /\ erase \in Seq(Operations)
        /\ \A i \in 1..Len(erase) : erase[i].value = Erased
        /\ firstTime \/ (Len(erase) > 0 /\ erase[1] = Erase(0))
    BY EraseSlotCells
  <2> HIDE DEF cells, erase
  <2>4. /\ ProgramAll(cells) \in Seq(Operations)
        /\ \A i \in 1..Len(ProgramAll(cells)) : ProgramAll(cells)[i].cell # 0
    BY <1>0, <2>2, ProgramAllCells
  <2>5. /\ todo' \in Seq(Operations)
        /\ \A i \in 1..Len(todo') : todo'[i].value = Erased \/ todo'[i].cell # 0
        /\ firstTime \/ (Len(todo') > 0 /\ todo'[1] = Erase(0))
    <3> DEFINE p == ProgramAll(cells)
    <3>1. /\ p \in Seq(Operations) /\ todo' = erase \o p
          /\ \A i \in 1..Len(p) : p[i].cell # 0
      BY <2>1, <2>4
    <3> HIDE DEF p
    <3>2. /\ Len(todo') = Len(erase) + Len(p) /\ Len(erase) \in Nat /\ Len(p) \in Nat
          /\ todo' \in Seq(Operations)
          /\ \A i \in 1..Len(todo') : todo'[i] = IF i <= Len(erase) THEN erase[i]
                                                 ELSE p[i - Len(erase)]
      BY <2>3, <3>1
    <3>3. \A i \in 1..Len(todo') : \/ i \in 1..Len(erase) /\ todo'[i] = erase[i]
                                   \/ i - Len(erase) \in 1..Len(p) /\ todo'[i] = p[i - Len(erase)]
      BY <3>2
    <3>4. Len(erase) > 0 => Len(todo') > 0 /\ todo'[1] = erase[1]
      BY <3>2
    <3> QED  BY <2>3, <3>1, <3>2, <3>3, <3>4
  <2>6. Typed'
    BY <1>0, <2>1, <2>5
  <2>7. OnlyActivated'
    BY <1>0, <2>1, <2>5 DEF OnlyActivated, Bootable, Quiet
  <2>8. FirstErased'
    BY <1>0, <2>1, <2>5 DEF FirstErased
  <2> QED  BY <2>6, <2>7, <2>8
<1>3. ASSUME pc' = "failed",
             UNCHANGED <<remaining, header, imgsz, held, firstTime, fresh, todo>>
      PROVE  IInv'
  BY <1>0, <1>3 DEF OnlyActivated, FirstErased, Bootable, Quiet
<1>4. CASE \E b \in remaining : WriteBlockAmeba(b) \/ WriteBlockAmebaD(b)
  <2>1. \E b \in remaining, a \in BOOLEAN : family # "amebaz2" /\ StoreBlock(b, a)
    BY <1>4 DEF WriteBlockAmeba, WriteBlockAmebaD, HeaderAccepted, HeaderAcceptedD
  <2> QED  BY <1>1, <2>1
<1> QED  BY <1>2, <1>3, <1>4 DEF WriteBlock

(* Calls that only write the image state, or nothing.                      *)
LEMMA HarmlessStep ==
  ASSUME IInv, Calls, UNCHANGED <<family, running, slot, download>>, Harmless(todo'),
         pc \in {"receiving", "failed", "verified", "selfTest"}, pc' = "idle"
  PROVE  IInv'
<1> USE DEF IInv, Typed
<1>1. OnlyActivated'
  BY DEF OnlyActivated, Bootable, Quiet, Harmless
<1>2. FirstErased'
  BY DEF FirstErased, Calls, download
<1> QED  BY <1>1, <1>2 DEF Harmless, download

LEMMA CloseStep == IInv /\ CloseFile => IInv'
<1> SUFFICES ASSUME IInv, CloseFile PROVE IInv'
  OBVIOUS
<1> USE DEF IInv, Typed
<1>0. Calls /\ pc = "receiving" /\ remaining = {} /\ UNCHANGED <<family, running, slot, download>>
  BY DEF CloseFile
<1>1. CASE CheckFileSignature(TRUE, FALSE) /\ pc' = "verified" /\ UNCHANGED todo
  <2>1. Whole
    BY <1>1, FlashAssumption
    DEF CheckFileSignature, UpdateAmeba, UpdateAmebaD, UpdateAmebaZ2, CountedImage, Whole, Intact
  <2>2. OnlyActivated'
    BY <1>0, <1>1, <2>1 DEF OnlyActivated, Bootable, Quiet, Whole, Intact, Calls, download
  <2>3. FirstErased'
    BY <1>0, <1>1 DEF FirstErased, download
  <2> QED  BY <1>0, <1>1, <2>2, <2>3 DEF download
<1>2. CASE \E rejected \in BOOLEAN :
             /\ pc' = "idle"
             /\ todo' = (IF rejected THEN SetFlag("rejected") ELSE <<>>) \o SetFlag("aborted")
  <2>1. <<>> \o SetFlag("aborted") = SetFlag("aborted")
    BY DEF SetFlag
  <2>2. Harmless(todo')
    BY <1>2, <2>1, HarmlessLists DEF FlagStates
  <2> QED  BY <1>0, <1>2, <2>2, HarmlessStep
<1> QED  BY <1>1, <1>2 DEF CloseFile

(* The activation signs what has been verified.                            *)
LEMMA ActivateStep == IInv /\ ActivateNewImage => IInv'
<1> SUFFICES ASSUME IInv, ActivateNewImage PROVE IInv'
  OBVIOUS
<1> USE DEF IInv, Typed
<1>0. /\ todo = <<>> /\ pc = "verified" /\ UNCHANGED <<family, running, slot, download>>
      /\ Whole /\ ~Bootable(slot, running)
  BY DEF ActivateNewImage, Calls, OnlyActivated
<1>1. ASSUME NEW v \in FlagStates, pc' = "activated",
             todo' = <<Program(0, held)>> \o SetFlag(v) \o <<Restart>>
      PROVE  IInv'
  <2> DEFINE sign == <<Program(0, held)>>
             end  == SetFlag(v) \o <<Restart>>
  <2>1. 0 \in Cells /\ held \in CellValues
    BY FlashAssumption DEF Cells, CellValues
  <2>2. sign \in Seq(Operations) /\ Len(sign) = 1 /\ sign[1] = Program(0, held)
    BY <2>1, OperationKinds
  <2>3. end \in Seq(Operations) /\ \A i \in 1..Len(end) : end[i].op # "program"
    BY HarmlessLists DEF Harmless
  <2>4. todo' = sign \o end
    BY <1>1 DEF SetFlag
  <2> HIDE DEF sign, end
  <2>5. todo' \in Seq(Operations) /\ todo'[1] = Program(0, held)
        /\ \A i \in 1..Len(todo') : i = 1 \/ todo'[i].op # "program"
    <3>1. /\ sign \o end \in Seq(Operations) /\ Len(sign \o end) = 1 + Len(end)
          /\ (sign \o end)[1] = sign[1]
          /\ \A i \in 1..Len(end) : (sign \o end)[i + 1] = end[i]
      BY <2>2, <2>3, AfterFirst
    <3>2. ASSUME NEW i \in 1..Len(todo'), i # 1
          PROVE  todo'[i].op # "program"
      <4>1. i - 1 \in 1..Len(end) /\ (i - 1) + 1 = i
        BY <2>3, <2>4, <3>1, <3>2
      <4> QED  BY <2>3, <2>4, <3>1, <4>1
    <3> QED  BY <2>2, <2>4, <3>1, <3>2
  <2>6. OnlyActivated'
    BY <1>0, <1>1, <2>5 DEF OnlyActivated, Signs, Program, Bootable, Whole, Intact, download
  <2>7. FirstErased'
    BY <1>1 DEF FirstErased
  <2> QED  BY <1>0, <1>1, <2>5, <2>6, <2>7 DEF download
<1>2. CASE pc' = "idle" /\ todo' = <<>>
  BY <1>0, <1>2, HarmlessLists, HarmlessStep DEF Calls
<1>3. CASE family # "amebaz2" /\ pc' = "idle" /\ todo' = <<Erase(0)>>
  <2>1. todo' \in Seq(Operations) /\ \A i \in 1..Len(todo') : todo'[i].value = Erased
    BY <1>3, OperationKinds, FlashAssumption DEF Cells
  <2>2. OnlyActivated'
    BY <1>0, <1>3, <2>1 DEF OnlyActivated, Bootable, Quiet
  <2> QED  BY <1>0, <1>3, <2>1, <2>2 DEF FirstErased, download
<1> QED  BY <1>0, <1>1, <1>2, <1>3
         DEF ActivateNewImage, ActivateAmeba, ActivateAmebaD, SignAmebaZ2, FlagStates

LEMMA InvStep == IInv /\ [Next]_vars => IInv'
<1> SUFFICES ASSUME IInv, [Next]_vars PROVE IInv'
  OBVIOUS
<1>1. CASE PowerLoss
  BY <1>1, BootStep DEF PowerLoss
<1>2. CASE Abort
  BY <1>2, HarmlessStep, HarmlessLists DEF Abort, FlagStates
<1>3. CASE SetPlatformImageState
  BY <1>3, HarmlessStep, HarmlessLists DEF SetPlatformImageState, FlagStates
<1>4. CASE UNCHANGED vars
  BY <1>4 DEF vars, download, IInv, Typed, OnlyActivated, FirstErased, Bootable, Quiet, Signs,
              Whole, Intact
<1> QED  BY <1>1, <1>2, <1>3, <1>4, OperationStep, CreateStep, WriteStep, CloseStep, ActivateStep
         DEF Next

LEMMA InvAlways == Spec => []IInv
BY InvInit, InvStep, PTL DEF Spec

(* Power may be lost between any two flash operations, blocks may come in  *)
(* any order and a download be given up: what is bootable is one image,    *)
(* from its first cell to its last.                                        *)
THEOREM NeverPartial == Spec => []NeverBootPartial
<1>1. IInv => NeverBootPartial
  <2> SUFFICES ASSUME IInv, Bootable(slot, running), NEW c \in 0..(ImgLen - 1)
               PROVE  slot[c] = slot[0]
    BY DEF NeverBootPartial
  <2>1. slot[0] = file.version /\ Intact(1..(ImgLen - 1))
    BY DEF IInv, OnlyActivated, Whole
  <2> QED  BY <2>1, FlashAssumption DEF Intact
<1> QED  BY <1>1, InvAlways, PTL

(* A verified image stays as it was verified until it is activated.        *)
THEOREM VerifiedUntilActivated == Spec => []VerifiedStays
<1>1. IInv => VerifiedStays
  <2> SUFFICES ASSUME IInv, pc = "verified"
               PROVE  held = file.version /\ Intact(1..(ImgLen - 1)) /\ slot[0] # file.version
    BY DEF VerifiedStays
  <2>1. todo = <<>> /\ Whole
    BY DEF IInv, OnlyActivated
  <2>2. slot[0] = Erased
    BY <2>1 DEF IInv, FirstErased
  <2> QED  BY <2>1, <2>2, FlashAssumption DEF IInv, Typed, Whole
<1> QED  BY <1>1, InvAlways, PTL

(* Wherever the power fails and whatever restarts the device, it goes on     *)
(* with the image it ran, or with the whole, newer one that was activated.   *)
THEOREM BootsActivated == Spec => RunsActivated
<1> DEFINE Changed == /\ pc = "activated" /\ running' = file.version /\ running' > running
                      /\ Intact(0..(ImgLen - 1))
<1>1. ASSUME IInv, [Next]_vars, running' # running PROVE Changed
  <2>1. PICK fl : Boot(slot, running, underTest, fl)
    <3>1. CASE PowerLoss
      BY <3>1 DEF PowerLoss
    <3>2. CASE FlashOperation
      <4>1. Head(todo) \in Operations
        BY <1>1, <3>2 DEF FlashOperation, IInv, Typed
      <4>2. Head(todo).op \in {"program", "flag", "reset"}
        BY <4>1 DEF Operations
      <4> QED  BY <1>1, <3>2, <4>2 DEF FlashOperation
    <3>3. ~CreateFileForRx /\ ~WriteBlock /\ ~Abort /\ ~CloseFile /\ ~ActivateNewImage
          /\ ~SetPlatformImageState /\ ~UNCHANGED vars
      BY <1>1 DEF CreateFileForRx, WriteBlock, Abort, CloseFile, ActivateNewImage,
                  SetPlatformImageState, vars
    <3> QED  BY <1>1, <3>1, <3>2, <3>3 DEF Next
  <2>2. Bootable(slot, running) /\ running' = slot[0]
    BY <1>1, <2>1 DEF Boot
  <2>3. pc = "activated" /\ Whole /\ slot[0] = held
    BY <1>1, <2>2 DEF IInv, OnlyActivated
  <2>4. Intact(0..(ImgLen - 1))
    BY <2>3, FlashAssumption DEF Whole, Intact
  <2> QED  BY <2>2, <2>3, <2>4 DEF Whole, Bootable
<1>2. IInv /\ [Next]_vars => [running' # running => Changed]_vars
  BY <1>1
<1> QED  BY <1>2, InvAlways, PTL DEF Spec, RunsActivated

-----------------------------------------------------------------------------
(* What a file needs to pass the check. The cells a list of operations     *)
(* erases and those it writes; a call erases before it writes.             *)
BlockOf(c) == (c + Offset) \div BlockCells

Erases(o) == o.op = "program" /\ o.value = Erased
Writes(o) == o.op = "program" /\ o.value # Erased
ToErase(s) == {s[i].cell : i \in {j \in 1..Len(s) : Erases(s[j])}}
ToWrite(s) == {s[i].cell : i \in {j \in 1..Len(s) : Writes(s[j])}}

ErasesFirst(s) ==
  /\ \A i \in 1..Len(s) : s[i].op = "program" /\ s[i].value \in {Erased, file.version}
  /\ \A i, k \in 1..Len(s) : i < k /\ s[k].value = Erased => s[i].value = Erased

(* The count is right when nothing is behind the image, or when the length *)
(* was known before anything else came; AmebaZ2 does not count.            *)
LengthKnown == file.trailing = 0 \/ header \in {"none", "first"} \/ family = "amebaz2"

(* The cells the check reads from flash, and those that have been counted. *)
CheckedUpTo(f) == ImgLen - 1 + IF family = "amebaz2" THEN f.trailing ELSE 0
Checked == 1..CheckedUpTo(file)
CountedIn(rem) == {c \in 0..(ImgLen - 1) : BlockOf(c) \notin rem}

(* A cell is erased until its block comes; from then on it is written, or  *)
(* about to be.                                                            *)
Stored(c) ==
  /\ BlockOf(c) \in remaining => /\ c \notin ToWrite(todo)
                                 /\ slot[c] = Erased \/ c \in ToErase(todo)
  /\ BlockOf(c) \notin remaining /\ c \in ToWrite(todo) =>
       slot[c] \in {Erased, file.version} \/ c \in ToErase(todo)
  /\ BlockOf(c) \notin remaining /\ c \notin ToWrite(todo) =>
       slot[c] = file.version /\ c \notin ToErase(todo)

NotBegun == family = "amebaz2" /\ ~firstTime

Arriving ==
  /\ ErasesFirst(todo)
  /\ NotBegun => ~fresh /\ \A c \in Checked : BlockOf(c) \in remaining
  /\ LengthKnown => 0 \in remaining \/ held = file.version
  /\ LengthKnown /\ family # "amebaz2" => imgsz = Cardinality(CountedIn(remaining))
  /\ LengthKnown /\ fresh => \A c \in Checked : Stored(c)

Receiving == /\ pc = "receiving" => Arriving
             /\ fresh \in BOOLEAN

(* A quotient grows with the number that is divided.                       *)
LEMMA QuotientGrows ==
  ASSUME NEW m \in Nat, NEW n \in Nat, NEW d \in Nat \ {0}, m <= n
  PROVE  m \div d \in Nat /\ m \div d <= n \div d
<1> DEFINE p == m \div d
           q == n \div d
<1>1. p \in Nat /\ q \in Nat /\ m % d \in 0..(d - 1) /\ n % d \in 0..(d - 1)
      /\ m = d * p + (m % d) /\ n = d * q + (n % d)
  OBVIOUS
<1>2. \A x, y \in Nat : x > y => d * x >= d * y + d
  <2> TAKE x, y \in Nat
  <2> HAVE x > y
  <2>1. PICK k \in Nat : x = y + 1 + k
    <3>1. x - y - 1 \in Nat /\ x = y + 1 + (x - y - 1)
      OBVIOUS
    <3> QED  BY <3>1
  <2>2. d * x = d * y + d + d * k /\ d * k \in Nat /\ d * y \in Nat
    BY <2>1
  <2> QED  BY <2>2
<1>3. d * p \in Nat /\ d * q \in Nat
  BY <1>1
<1> HIDE DEF p, q
<1>4. ~(p > q)
  <2> SUFFICES ASSUME p > q PROVE FALSE
    OBVIOUS
  <2>1. d * p >= d * q + d
    BY <1>1, <1>2
  <2> QED  BY <1>1, <1>3, <2>1
<1>5. p <= q
  BY <1>1, <1>4
<1> QED  BY <1>1, <1>5 DEF p, q

(* The cells of a file are in its blocks, cell 0 in the first one.         *)
LEMMA CellsInBlocks ==
  ASSUME NEW f \in [version : Versions, trailing : {0, 1}]
  PROVE  /\ \A c \in 0..(ImgLen + f.trailing - 1) : BlockOf(c) \in Blocks(f)
         /\ BlockOf(0) = 0
         /\ CheckedUpTo(f) \in 0..(ImgLen + f.trailing - 1) /\ CheckedUpTo(f) <= ImgLen
<1>1. ImgLen \in Nat \ {0} /\ BlockCells \in Nat \ {0} /\ BlockCells > 1
      /\ Offset \in {0, 1} /\ f.trailing \in {0, 1}
  BY FlashAssumption DEF Offset
<1>2. ASSUME NEW c \in 0..(ImgLen + f.trailing - 1)
      PROVE  BlockOf(c) \in Blocks(f)
  <2> DEFINE m == c + Offset
             n == Offset + ImgLen + f.trailing - 1
  <2>1. m \in Nat /\ n \in Nat /\ m <= n
    BY <1>1
  <2> HIDE DEF m, n
  <2>2. m \div BlockCells \in Nat /\ m \div BlockCells <= n \div BlockCells
    BY <1>1, <2>1, QuotientGrows
  <2>3. n \div BlockCells \in Nat
    BY <1>1, <2>1, QuotientGrows
  <2> QED  BY <2>2, <2>3 DEF BlockOf, Blocks, m, n
<1>3. BlockOf(0) = 0
  <2>1. Offset < BlockCells
    BY <1>1
  <2>2. \A n \in Nat, d \in Nat \ {0} : n < d => n \div d = 0
    OBVIOUS
  <2> QED  BY <1>1, <2>1, <2>2 DEF BlockOf
<1>4. CheckedUpTo(f) \in 0..(ImgLen + f.trailing - 1) /\ CheckedUpTo(f) <= ImgLen
  BY <1>1 DEF CheckedUpTo
<1> QED  BY <1>2, <1>3, <1>4

(* What the lists of a call erase and write.                               *)
LEMMA EraseSlotErases ==
  /\ ToErase(EraseSlot) = Cells /\ ToWrite(EraseSlot) = {} /\ ErasesFirst(EraseSlot)
  /\ \A i \in 1..Len(EraseSlot) : Erases(EraseSlot[i])
<1>1. Len(EraseSlot) = ImgLen + 1 /\ ImgLen \in Nat
      /\ \A i \in 1..(ImgLen + 1) : EraseSlot[i] = Erase(i - 1)
  BY FlashAssumption DEF EraseSlot
<1>2. \A c : Erases(Erase(c)) /\ ~Writes(Erase(c)) /\ Erase(c).cell = c
             /\ Erase(c).op = "program" /\ Erase(c).value = Erased
  BY DEF Erases, Writes, Erase
<1>3. ToErase(EraseSlot) = {i - 1 : i \in 1..(ImgLen + 1)}
  <2>1. {j \in 1..Len(EraseSlot) : Erases(EraseSlot[j])} = 1..(ImgLen + 1)
    BY <1>1, <1>2
  <2>2. \A i \in 1..(ImgLen + 1) : EraseSlot[i].cell = i - 1
    BY <1>1, <1>2
  <2> QED  BY <2>1, <2>2 DEF ToErase
<1>4. {i - 1 : i \in 1..(ImgLen + 1)} = Cells
  <2>1. ASSUME NEW c \in Cells PROVE \E i \in 1..(ImgLen + 1) : c = i - 1
    <3>1. c + 1 \in 1..(ImgLen + 1) /\ c = (c + 1) - 1
      BY <1>1 DEF Cells
    <3> QED  BY <3>1
  <2>2. \A i \in 1..(ImgLen + 1) : i - 1 \in Cells
    BY <1>1 DEF Cells
  <2> QED  BY <2>1, <2>2
<1>5. ToWrite(EraseSlot) = {}
  BY <1>1, <1>2 DEF ToWrite
<1>6. ErasesFirst(EraseSlot)
  BY <1>1, <1>2 DEF ErasesFirst
<1> QED  BY <1>1, <1>2, <1>3, <1>4, <1>5, <1>6

LEMMA ProgramAllWrites ==
  ASSUME NEW cells \in SUBSET Cells, file.version \in Versions
  PROVE  /\ ToWrite(ProgramAll(cells)) = cells /\ ToErase(ProgramAll(cells)) = {}
         /\ ErasesFirst(ProgramAll(cells))
         /\ \A i \in 1..Len(ProgramAll(cells)) : Writes(ProgramAll(cells)[i])
<1> DEFINE s == ProgramAll(cells)
<1>1. file.version \in CellValues /\ file.version # Erased
  BY FlashAssumption DEF CellValues
<1>2. /\ s \in Seq(Operations)
      /\ \A i \in 1..Len(s) : \E c \in cells : s[i] = Program(c, file.version)
      /\ \A c \in cells : \E i \in 1..Len(s) : s[i] = Program(c, file.version)
  BY <1>1, ProgramAllCells
<1> HIDE DEF s
<1>3. \A c : /\ Writes(Program(c, file.version)) /\ ~Erases(Program(c, file.version))
             /\ Program(c, file.version).cell = c
             /\ Program(c, file.version).op = "program"
             /\ Program(c, file.version).value = file.version
  BY <1>1 DEF Erases, Writes, Program
<1>4. \A i \in 1..Len(s) : /\ Writes(s[i]) /\ ~Erases(s[i]) /\ s[i].cell \in cells
                           /\ s[i].op = "program" /\ s[i].value = file.version
  BY <1>2, <1>3
<1>5. ToWrite(s) = cells
  <2>1. ToWrite(s) \subseteq cells
    BY <1>4 DEF ToWrite
  <2>2. ASSUME NEW c \in cells PROVE c \in ToWrite(s)
    <3>1. PICK i \in 1..Len(s) : s[i] = Program(c, file.version)
      BY <1>2
    <3> QED  BY <1>3, <1>4, <3>1 DEF ToWrite
  <2> QED  BY <2>1, <2>2
<1>6. ToErase(s) = {}
  BY <1>4 DEF ToErase
<1>7. ErasesFirst(s)
  BY <1>1, <1>4 DEF ErasesFirst
<1> QED  BY <1>4, <1>5, <1>6, <1>7 DEF s

(* What is left of a list after its first operation.                       *)
LEMMA AfterOperation ==
  ASSUME NEW s \in Seq(Operations), s # <<>>
  PROVE  /\ ToErase(s) = ToErase(Tail(s)) \cup IF Erases(s[1]) THEN {s[1].cell} ELSE {}
         /\ ToWrite(s) = ToWrite(Tail(s)) \cup IF Writes(s[1]) THEN {s[1].cell} ELSE {}
         /\ ErasesFirst(s) => ErasesFirst(Tail(s)) /\ (Writes(s[1]) => ToErase(s) = {})
<1>1. /\ Len(s) \in Nat \ {0} /\ Len(Tail(s)) = Len(s) - 1
      /\ \A i \in 1..Len(Tail(s)) : Tail(s)[i] = s[i + 1] /\ i + 1 \in 1..Len(s)
      /\ \A i \in 1..Len(s) : i # 1 => i - 1 \in 1..Len(Tail(s)) /\ Tail(s)[i - 1] = s[i]
      /\ 1 \in 1..Len(s)
  OBVIOUS
<1>2. ToErase(s) = ToErase(Tail(s)) \cup IF Erases(s[1]) THEN {s[1].cell} ELSE {}
  <2>1. ASSUME NEW c \in ToErase(s)
        PROVE  c \in ToErase(Tail(s)) \/ (Erases(s[1]) /\ c = s[1].cell)
    <3>1. PICK i \in 1..Len(s) : Erases(s[i]) /\ c = s[i].cell
      BY DEF ToErase
    <3> QED  BY <1>1, <3>1 DEF ToErase
  <2>2. \A c \in ToErase(Tail(s)) : c \in ToErase(s)
    BY <1>1 DEF ToErase
  <2>3. Erases(s[1]) => s[1].cell \in ToErase(s)
    BY <1>1 DEF ToErase
  <2> QED  BY <2>1, <2>2, <2>3
<1>3. ToWrite(s) = ToWrite(Tail(s)) \cup IF Writes(s[1]) THEN {s[1].cell} ELSE {}
  <2>1. ASSUME NEW c \in ToWrite(s)
        PROVE  c \in ToWrite(Tail(s)) \/ (Writes(s[1]) /\ c = s[1].cell)
    <3>1. PICK i \in 1..Len(s) : Writes(s[i]) /\ c = s[i].cell
      BY DEF ToWrite
    <3> QED  BY <1>1, <3>1 DEF ToWrite
  <2>2. \A c \in ToWrite(Tail(s)) : c \in ToWrite(s)
    BY <1>1 DEF ToWrite
  <2>3. Writes(s[1]) => s[1].cell \in ToWrite(s)
    BY <1>1 DEF ToWrite
  <2> QED  BY <2>1, <2>2, <2>3
<1>4. ASSUME ErasesFirst(s)
      PROVE  ErasesFirst(Tail(s)) /\ (Writes(s[1]) => ToErase(s) = {})
  <2>1. ErasesFirst(Tail(s))
    <3>1. ASSUME NEW i \in 1..Len(Tail(s)), NEW k \in 1..Len(Tail(s)), i < k,
                 Tail(s)[k].value = Erased
          PROVE  Tail(s)[i].value = Erased
      <4>1. i + 1 < k + 1
        BY <1>1, <3>1
      <4> QED  BY <1>1, <1>4, <3>1, <4>1 DEF ErasesFirst
    <3> QED  BY <1>1, <1>4, <3>1 DEF ErasesFirst
  <2>2. ASSUME Writes(s[1]), NEW c \in ToErase(s)
        PROVE  FALSE
    <3>1. PICK k \in 1..Len(s) : Erases(s[k])
      BY <2>2 DEF ToErase
    <3>2. k # 1 /\ s[k].value = Erased /\ s[1].value # Erased
      BY <2>2, <3>1 DEF Erases, Writes
    <3>3. 1 < k
      BY <1>1, <3>1, <3>2
    <3> QED  BY <1>1, <1>4, <3>1, <3>2, <3>3 DEF ErasesFirst
  <2> QED  BY <2>1, <2>2
<1> QED  BY <1>2, <1>3, <1>4

(* The slot is erased before the block is written.                         *)
LEMMA EraseThenWrite ==
  ASSUME NEW cells \in SUBSET Cells, file.version \in Versions
  PROVE  LET s == EraseSlot \o ProgramAll(cells) IN
         ToErase(s) = Cells /\ ToWrite(s) = cells /\ ErasesFirst(s)
<1> DEFINE e == EraseSlot
           p == ProgramAll(cells)
           s == e \o p
<1>1. file.version \in CellValues
  BY DEF CellValues
<1>2. /\ e \in Seq(Operations) /\ p \in Seq(Operations)
      /\ ToErase(e) = Cells /\ ToWrite(e) = {} /\ ErasesFirst(e)
      /\ \A i \in 1..Len(e) : e[i].value = Erased
      /\ ToErase(p) = {} /\ ToWrite(p) = cells /\ ErasesFirst(p)
      /\ \A i \in 1..Len(p) : p[i].value # Erased
  BY <1>1, EraseSlotErases, EraseSlotCells, ProgramAllCells, ProgramAllWrites DEF Writes
<1> HIDE DEF e, p
<1>3. /\ Len(s) = Len(e) + Len(p) /\ Len(e) \in Nat /\ Len(p) \in Nat
      /\ \A i \in 1..Len(s) : s[i] = IF i <= Len(e) THEN e[i] ELSE p[i - Len(e)]
  BY <1>2
<1> HIDE DEF s
<1>4. /\ \A i \in 1..Len(e) : i \in 1..Len(s) /\ s[i] = e[i]
      /\ \A i \in 1..Len(p) : Len(e) + i \in 1..Len(s) /\ s[Len(e) + i] = p[i]
      /\ \A i \in 1..Len(s) : \/ i \in 1..Len(e) /\ s[i] = e[i]
                              \/ i > Len(e) /\ i - Len(e) \in 1..Len(p) /\ s[i] = p[i - Len(e)]
  BY <1>3
<1>5. ToErase(s) = Cells
  <2>1. \A c \in ToErase(s) : c \in ToErase(e) \/ c \in ToErase(p)
    BY <1>4 DEF ToErase
  <2>2. \A c \in ToErase(e) : c \in ToErase(s)
    BY <1>4 DEF ToErase
  <2> QED  BY <1>2, <2>1, <2>2
<1>6. ToWrite(s) = cells
  <2>1. \A c \in ToWrite(s) : c \in ToWrite(e) \/ c \in ToWrite(p)
    BY <1>4 DEF ToWrite
  <2>2. ASSUME NEW c \in ToWrite(p) PROVE c \in ToWrite(s)
    <3>1. PICK i \in 1..Len(p) : Writes(p[i]) /\ c = p[i].cell
      BY DEF ToWrite
    <3> QED  BY <1>4, <3>1 DEF ToWrite
  <2> QED  BY <1>2, <2>1, <2>2
<1>7. ErasesFirst(s)
  <2>1. ASSUME NEW i \in 1..Len(s)
        PROVE  s[i].op = "program" /\ s[i].value \in {Erased, file.version}
    <3>1. CASE i \in 1..Len(e) /\ s[i] = e[i]
      BY <1>2, <3>1 DEF ErasesFirst
    <3>2. CASE i - Len(e) \in 1..Len(p) /\ s[i] = p[i - Len(e)]
      BY <1>2, <3>2 DEF ErasesFirst
    <3> QED  BY <1>4, <3>1, <3>2
  <2>2. ASSUME NEW i \in 1..Len(s), NEW k \in 1..Len(s), i < k, s[k].value = Erased
        PROVE  s[i].value = Erased
    <3>1. k \in 1..Len(e)
      BY <1>2, <1>4, <2>2
    <3>2. i \in 1..Len(e) /\ s[i] = e[i]
      BY <1>3, <1>4, <2>2, <3>1
    <3> QED  BY <1>2, <3>2
  <2> QED  BY <2>1, <2>2 DEF ErasesFirst
<1> QED  BY <1>5, <1>6, <1>7 DEF s, e, p

-----------------------------------------------------------------------------
LEMMA ReceivingInit == Init => Receiving
BY DEF Init, Receiving

(* A flash operation finishes one cell.                                    *)
LEMMA ReceivingOperation == IInv /\ Receiving /\ FlashOperation => Receiving'
<1> SUFFICES ASSUME IInv, Receiving, FlashOperation PROVE Receiving'
  OBVIOUS
<1> DEFINE o == Head(todo)
<1>0. Typed
  BY DEF IInv
<1>1. /\ todo # <<>> /\ todo \in Seq(Operations) /\ o = todo[1] /\ o \in Operations
      /\ 1 \in 1..Len(todo)
  BY <1>0 DEF FlashOperation, Typed
<1>2. CASE o.op = "reset"
  BY <1>2 DEF FlashOperation, Boot, Receiving
<1>3. CASE o.op # "reset"
  <2>1. UNCHANGED <<family, pc, download>> /\ todo' = Tail(todo)
    BY <1>1, <1>3 DEF FlashOperation, Operations
  <2>2. SUFFICES ASSUME pc = "receiving" PROVE Arriving'
    BY <2>1 DEF Receiving, download
  <2>3. Arriving /\ o.op = "program" /\ o.value \in {Erased, file.version}
    BY <1>1, <2>2 DEF Receiving, Arriving, ErasesFirst
  <2>4. slot' = [slot EXCEPT ![o.cell] = Programmed(@, o.value)] /\ o.cell \in Cells
    BY <1>1, <2>3 DEF FlashOperation, Operations
  <2>5. /\ file' = file /\ remaining' = remaining /\ header' = header /\ imgsz' = imgsz
        /\ held' = held /\ firstTime' = firstTime /\ fresh' = fresh /\ family' = family
    BY <2>1 DEF download
  <2>6. file.version \in Versions /\ file.version # Erased
    BY <1>0, <2>2, FlashAssumption DEF Typed
  <2>7. /\ ToErase(todo) = ToErase(todo') \cup IF Erases(o) THEN {o.cell} ELSE {}
        /\ ToWrite(todo) = ToWrite(todo') \cup IF Writes(o) THEN {o.cell} ELSE {}
        /\ ErasesFirst(todo') /\ (Writes(o) => ToErase(todo) = {})
    BY <1>1, <2>1, <2>3, AfterOperation DEF Arriving
  <2>8. ErasesFirst(todo)'
    BY <2>5, <2>7 DEF ErasesFirst
  <2>9. Checked' = Checked /\ LengthKnown' = LengthKnown /\ NotBegun' = NotBegun
        /\ \A c : BlockOf(c)' = BlockOf(c)
    BY <2>5 DEF Checked, CheckedUpTo, LengthKnown, NotBegun, BlockOf, Offset
  <2>10. CountedIn(remaining)' = CountedIn(remaining)
    BY <2>5, <2>9 DEF CountedIn
  <2>11. ASSUME LengthKnown, fresh, NEW c \in Checked
         PROVE  Stored(c)'
    <3>1. Stored(c) /\ c \in Cells
      <4>1. Checked \subseteq Cells
        BY <1>0, FlashAssumption DEF Checked, CheckedUpTo, Cells, Typed
      <4> QED  BY <2>3, <2>11, <4>1 DEF Arriving
    <3>2. slot \in [Cells -> CellValues]
      BY <1>0 DEF Typed
    <3>3. ToErase(todo)' = ToErase(todo') /\ ToWrite(todo)' = ToWrite(todo')
      BY DEF ToErase, ToWrite, Erases, Writes
    <3>4. CASE c # o.cell
      <4>1. slot'[c] = slot[c] /\ (c \in ToErase(todo) <=> c \in ToErase(todo'))
            /\ (c \in ToWrite(todo) <=> c \in ToWrite(todo'))
        BY <2>4, <2>7, <3>1, <3>2, <3>4
      <4> QED  BY <2>5, <2>9, <3>1, <3>3, <4>1 DEF Stored
    <3>5. CASE c = o.cell /\ Erases(o)
      <4>1. slot'[c] = Erased /\ ~Writes(o)
        BY <2>4, <3>1, <3>2, <3>5 DEF Erases, Writes, Programmed
      <4>3. c \in ToErase(todo)
        BY <2>7, <3>5
      <4>2. c \in ToWrite(todo) <=> c \in ToWrite(todo')
        BY <2>7, <4>1
      <4> QED  BY <2>5, <2>9, <3>1, <3>3, <4>1, <4>2, <4>3 DEF Stored
    <3>6. CASE c = o.cell /\ Writes(o)
      <4>1. c \in ToWrite(todo) /\ ToErase(todo) = {} /\ ToErase(todo') = {}
        BY <2>7, <3>6
      <4>2. BlockOf(c) \notin remaining /\ slot[c] \in {Erased, file.version}
        BY <3>1, <4>1 DEF Stored
      <4>3. slot'[c] = file.version
        BY <2>3, <2>4, <3>1, <3>2, <3>6, <4>2 DEF Programmed, Writes
      <4> QED  BY <2>5, <2>9, <3>3, <4>1, <4>2, <4>3 DEF Stored
    <3> QED  BY <2>3, <3>4, <3>5, <3>6 DEF Erases, Writes
  <2> QED  BY <2>3, <2>5, <2>8, <2>9, <2>10, <2>11 DEF Arriving
<1> QED  BY <1>2, <1>3

(* A file starts with a slot that is about to be erased; on AmebaZ2 with   *)
(* none of its blocks taken.                                               *)
LEMMA ReceivingCreate == IInv /\ Receiving /\ CreateFileForRx => Receiving'
<1> SUFFICES ASSUME IInv, Receiving, CreateFileForRx PROVE Receiving'
  OBVIOUS
<1>0. Typed /\ fresh \in BOOLEAN
  BY DEF IInv, Receiving
<1>1. PICK f \in [version : Versions, trailing : {0, 1}] :
        /\ CreateAmeba(f) \/ CreateAmebaD(f) \/ CreateAmebaZ2(f)
        /\ Calls /\ family' = family /\ slot' = slot
  BY DEF CreateFileForRx
<1>2. f.version \in Versions /\ f.trailing \in {0, 1} /\ ImgLen \in Nat \ {0}
  BY FlashAssumption
<1>3. /\ \A c \in 0..(ImgLen + f.trailing - 1) : BlockOf(c) \in Blocks(f)
      /\ BlockOf(0) = 0 /\ CheckedUpTo(f) \in 0..(ImgLen + f.trailing - 1)
      /\ CheckedUpTo(f) <= ImgLen
  BY CellsInBlocks
<1>4. \A c \in 0..(ImgLen - 1) : c \in 0..(ImgLen + f.trailing - 1)
  BY <1>2
<1>5. 0 \in Blocks(f)
  BY FirstBlock
<1>6. /\ file' = f /\ remaining' = Blocks(f) /\ pc' = "receiving"
  BY <1>1 DEF CreateAmeba, CreateAmebaD, CreateAmebaZ2, Receive
<1>7. /\ \A c : BlockOf(c)' = BlockOf(c)
      /\ Checked' = 1..CheckedUpTo(f)
  BY <1>1, <1>6 DEF Checked, CheckedUpTo, BlockOf, Offset
<1>8. \A c \in Checked' : c \in Cells /\ BlockOf(c) \in Blocks(f)
  BY <1>2, <1>3, <1>7 DEF Cells
<1>9. CASE CreateAmebaZ2(f)
  <2>1. family = "amebaz2" /\ fresh' = FALSE /\ todo' = <<>>
    BY <1>1, <1>9 DEF CreateAmebaZ2, Calls
  <2>2. ErasesFirst(todo)'
    BY <2>1 DEF ErasesFirst
  <2> QED  BY <1>1, <1>5, <1>6, <1>7, <1>8, <2>1, <2>2 DEF Receiving, Arriving
<1>10. CASE CreateAmeba(f) \/ CreateAmebaD(f)
  <2>1. family # "amebaz2" /\ fresh' = TRUE /\ todo' = EraseSlot /\ imgsz' = 0
    BY <1>10 DEF CreateAmeba, CreateAmebaD, Receive
  <2>2. ErasesFirst(todo)'
    BY <2>1, EraseSlotErases DEF ErasesFirst, Erases
  <2>3. imgsz' = Cardinality(CountedIn(remaining)')
    <3>1. CountedIn(remaining)' = {}
      BY <1>3, <1>4, <1>6, <1>7 DEF CountedIn
    <3> QED  BY <2>1, <3>1, FS_EmptySet
  <2>4. ASSUME NEW c \in Checked' PROVE Stored(c)'
    <3>1. ToErase(todo)' = Cells /\ ToWrite(todo)' = {}
      <4>1. ToErase(todo)' = ToErase(todo') /\ ToWrite(todo)' = ToWrite(todo')
        BY DEF ToErase, ToWrite, Erases, Writes
      <4> QED  BY <2>1, <4>1, EraseSlotErases
    <3> QED  BY <1>6, <1>7, <1>8, <2>4, <3>1 DEF Stored
  <2> QED  BY <1>1, <1>5, <1>6, <2>1, <2>2, <2>3, <2>4 DEF Receiving, Arriving, NotBegun
<1> QED  BY <1>1, <1>9, <1>10

(* One block more: its cells are on their way to flash, the others as they *)
(* were.                                                                   *)
LEMMA BlockStored ==
  ASSUME IInv, Arriving, todo = <<>>, file.version \in Versions,
         NEW b, NEW cells \in SUBSET Cells, NEW c, c \in Checked,
         slot' = slot, family' = family, file' = file,
         remaining' = remaining \ {b}, b \in remaining,
         LengthKnown, fresh,
         ToErase(todo') = {}, ToWrite(todo') = cells,
         c \in cells <=> BlockOf(c) = b
  PROVE  Stored(c)'
<1>1. Stored(c)
  BY DEF Arriving
<1>2. ToErase(todo) = {} /\ ToWrite(todo) = {}
  BY DEF ToErase, ToWrite
<1>3. ToErase(todo)' = ToErase(todo') /\ ToWrite(todo)' = ToWrite(todo')
      /\ BlockOf(c)' = BlockOf(c)
  BY DEF ToErase, ToWrite, Erases, Writes, BlockOf, Offset
<1>4. CASE c \in cells
  <2>1. slot[c] = Erased
    BY <1>1, <1>2, <1>4 DEF Stored
  <2> QED  BY <1>3, <1>4, <2>1 DEF Stored
<1>5. CASE c \notin cells
  <2>1. BlockOf(c) \in remaining' <=> BlockOf(c) \in remaining
    BY <1>5
  <2> QED  BY <1>1, <1>2, <1>3, <1>5, <2>1 DEF Stored
<1> QED  BY <1>4, <1>5

(* A block is dropped only when there is nothing of the image in it.       *)
LEMMA ReceivingStore ==
  ASSUME IInv, Receiving, todo = <<>>, pc = "receiving", slot' = slot, family' = family,
         file' = file, family # "amebaz2",
         NEW b \in remaining, NEW a \in BOOLEAN, StoreBlock(b, a)
  PROVE  Receiving'
<1> DEFINE W == WrittenCells(b)
           I == 0..(ImgLen - 1)
<1>0. Typed /\ Arriving /\ fresh' = fresh /\ fresh \in BOOLEAN /\ file.version \in Versions
      /\ ImgLen \in Nat \ {0} /\ file.trailing \in {0, 1}
      /\ file \in [version : Versions, trailing : {0, 1}]
  BY FlashAssumption DEF IInv, Receiving, Typed, StoreBlock
<1>1. SUFFICES ASSUME pc' = "receiving" PROVE Arriving'
  BY <1>0 DEF Receiving
<1>2. /\ header' = HeaderAt(b) /\ remaining' = remaining \ {b} /\ firstTime' = firstTime
      /\ IF imgsz >= ImgLenAt(b)
         THEN UNCHANGED <<imgsz, held, todo>>
         ELSE /\ imgsz' = imgsz + Cardinality(W)
              /\ held' = IF b = 0 THEN file.version ELSE held
              /\ todo' = ProgramAll(W \ {0})
  BY <1>1 DEF StoreBlock
<1>3. /\ LengthKnown' => LengthKnown
      /\ LengthKnown' => W = {c \in I : BlockOf(c) = b}
      /\ ImgLenAt(b) >= ImgLen
      /\ LengthKnown' => ImgLenAt(b) = ImgLen \/ ImgLenAt(b) = ImgLen + 2
  <2>1. header' \in {"first", "late", "guessed"}
        /\ (header' = "first" => header \in {"first", "none"})
        /\ ImgLenAt(b) = (IF header' = "guessed" THEN ImgLen + 2 ELSE ImgLen)
    BY <1>2 DEF HeaderAt, ImgLenAt
  <2>2. LengthKnown' => LengthKnown
    BY <2>1 DEF LengthKnown
  <2>3. ASSUME LengthKnown'
        PROVE  W = {c \in I : BlockOf(c) = b}
    <3>1. file.trailing = 0 \/ header' = "first"
      BY <2>1, <2>3 DEF LengthKnown
    <3>2. \A c : c \in W <=> /\ c \in Cells /\ c < ImgLen + file.trailing
                             /\ BlockOf(c) = b /\ (b = 0 \/ c < ImgLenAt(b))
      BY DEF WrittenCells, CellsOf, BlockOf
    <3>3. \A c : c \in I <=> /\ c \in Cells /\ c < ImgLen + file.trailing /\ c < ImgLenAt(b)
      BY <1>0, <2>1, <3>1 DEF Cells
    <3>4. ASSUME NEW c \in Cells, BlockOf(c) = 0
          PROVE  c < ImgLen /\ ImgLen <= ImgLenAt(b)
      <4>1. c \in Nat /\ (c + 1) \div BlockCells = 0 /\ BlockCells \in Nat \ {0}
            /\ BlockCells <= ImgLen + 1
        BY <3>4, FlashAssumption DEF Cells, BlockOf, Offset
      <4>2. c + 1 = BlockCells * ((c + 1) \div BlockCells) + ((c + 1) % BlockCells)
            /\ (c + 1) % BlockCells \in 0..(BlockCells - 1)
        BY <4>1
      <4>3. c + 1 < BlockCells
        BY <4>1, <4>2
      <4>4. c < ImgLen
        BY <1>0, <4>1, <4>3
      <4>5. ImgLen <= ImgLenAt(b)
        BY <1>0, <2>1
      <4> QED  BY <4>4, <4>5
    <3>5. \A c \in Cells : b = 0 /\ BlockOf(c) = b => c < ImgLenAt(b)
      <4>1. ImgLenAt(b) \in Nat /\ ImgLen \in Nat /\ Cells \subseteq Nat
        BY <1>0, <2>1 DEF Cells
      <4> QED  BY <3>4, <4>1
    <3>6. \A c : c \in W <=> c \in I /\ BlockOf(c) = b
      BY <3>2, <3>3, <3>5
    <3> QED  BY <3>6
  <2> QED  BY <1>0, <2>1, <2>2, <2>3
<1>4. /\ \A c : BlockOf(c)' = BlockOf(c)
      /\ Checked' = Checked /\ Checked = 1..(ImgLen - 1)
      /\ I' = I
  BY <1>0 DEF Checked, CheckedUpTo, BlockOf, Offset
<1>5. W \in SUBSET Cells /\ W \ {0} \in SUBSET Cells
  BY DEF WrittenCells, CellsOf
<1>6. IsFiniteSet(I) /\ Cardinality(I) = ImgLen
  BY <1>0, FS_Interval
<1> HIDE DEF W, I
<1>7. ErasesFirst(todo)'
  <2>1. CASE todo' = <<>>
    BY <2>1 DEF ErasesFirst
  <2>2. CASE todo' = ProgramAll(W \ {0})
    <3>1. ErasesFirst(ProgramAll(W \ {0}))
      BY <1>0, <1>5, ProgramAllWrites
    <3> QED  BY <2>2, <3>1 DEF ErasesFirst
  <2> QED  BY <1>2, <2>1, <2>2
<1>8. ASSUME LengthKnown'
      PROVE  /\ imgsz' = Cardinality(CountedIn(remaining)')
             /\ 0 \in remaining' \/ held' = file.version
             /\ ToErase(todo') = {} /\ ToWrite(todo') = W \ {0}
  <2> DEFINE T == CountedIn(remaining)
  <2>1. LengthKnown /\ W = {c \in I : BlockOf(c) = b} /\ imgsz = Cardinality(T)
        /\ (0 \in remaining \/ held = file.version)
    BY <1>0, <1>3, <1>8 DEF Arriving
  <2>2. T = {c \in I : BlockOf(c) \notin remaining}
        /\ CountedIn(remaining)' = {c \in I : BlockOf(c) \notin remaining'}
    BY <1>4 DEF CountedIn, I
  <2>3. CountedIn(remaining)' = T \cup W /\ T \cap W = {}
    BY <1>2, <2>1, <2>2
  <2> HIDE DEF T
  <2>4. /\ IsFiniteSet(T) /\ IsFiniteSet(W) /\ Cardinality(T) \in Nat /\ Cardinality(W) \in Nat
        /\ Cardinality(T) <= ImgLen /\ (Cardinality(T) = ImgLen => T = I)
    <3>1. T \in SUBSET I /\ W \in SUBSET I
      BY <2>1, <2>2
    <3>2. IsFiniteSet(T) /\ IsFiniteSet(W) /\ Cardinality(T) <= Cardinality(I)
          /\ (Cardinality(I) = Cardinality(T) => I = T)
      BY <1>6, <3>1, FS_Subset
    <3> QED  BY <1>6, <3>2, FS_CardinalityType
  <2>5. Cardinality(T \cup W) = Cardinality(T) + Cardinality(W)
    <3>1. Cardinality(T \cup W) = Cardinality(T) + Cardinality(W) - Cardinality(T \cap W)
      BY <2>4, FS_Union
    <3>2. Cardinality(T \cap W) = 0
      BY <2>3, FS_EmptySet
    <3> QED  BY <2>4, <3>1, <3>2
  <2>6. CASE imgsz >= ImgLenAt(b)
    <3>1. Cardinality(T) = ImgLen
      BY <1>0, <1>3, <1>8, <2>1, <2>4, <2>6
    <3>2. W = {}
      BY <2>1, <2>3, <2>4, <3>1
    <3>3. b # 0
      <4>1. 0 \in I
        BY <1>0 DEF I
      <4>2. BlockOf(0) = 0
        BY <1>0, CellsInBlocks
      <4> QED  BY <2>1, <3>2, <4>1, <4>2
    <3>4. UNCHANGED <<imgsz, held, todo>>
      BY <1>2, <2>6
    <3>5. ToErase(<<>>) = {} /\ ToWrite(<<>>) = {}
      BY DEF ToErase, ToWrite
    <3> QED  BY <1>2, <2>1, <2>3, <3>2, <3>3, <3>4, <3>5
  <2>7. CASE ~(imgsz >= ImgLenAt(b))
    <3>1. /\ imgsz' = imgsz + Cardinality(W)
          /\ held' = IF b = 0 THEN file.version ELSE held
          /\ todo' = ProgramAll(W \ {0})
      BY <1>2, <2>7
    <3>2. ToErase(todo') = {} /\ ToWrite(todo') = W \ {0}
      BY <1>0, <1>5, <3>1, ProgramAllWrites
    <3>3. 0 \in remaining' \/ held' = file.version
      BY <1>2, <2>1, <3>1
    <3> QED  BY <2>1, <2>3, <2>5, <3>1, <3>2, <3>3
  <2> QED  BY <2>6, <2>7
<1>9. ASSUME LengthKnown', fresh, NEW c \in Checked
      PROVE  Stored(c)'
  <2>1. LengthKnown /\ W = {d \in I : BlockOf(d) = b}
    BY <1>3, <1>9
  <2>2. c \in I /\ c # 0
    BY <1>0, <1>4 DEF I
  <2>3. c \in W \ {0} <=> BlockOf(c) = b
    BY <2>1, <2>2
  <2>4. ToErase(todo') = {} /\ ToWrite(todo') = W \ {0}
    BY <1>8, <1>9
  <2> QED  BY <1>0, <1>2, <1>5, <1>9, <2>1, <2>3, <2>4, BlockStored
<1> QED  BY <1>0, <1>4, <1>7, <1>8, <1>9 DEF Arriving, NotBegun

(* AmebaZ2 erases the slot in front of the first block since the boot.     *)
LEMMA ReceivingStoreZ2 ==
  ASSUME IInv, Receiving, todo = <<>>, pc = "receiving", slot' = slot, family' = family,
         file' = file, NEW b \in remaining, WriteBlockAmebaZ2(b)
  PROVE  Receiving'
<1> DEFINE W == CellsOf(b, file) \ {0}
<1>0. Typed /\ Arriving /\ fresh \in BOOLEAN /\ file.version \in Versions
      /\ ImgLen \in Nat \ {0} /\ file.trailing \in {0, 1} /\ family = "amebaz2"
      /\ file \in [version : Versions, trailing : {0, 1}] /\ firstTime \in BOOLEAN
  BY FlashAssumption DEF IInv, Receiving, Typed, WriteBlockAmebaZ2
<1>1. /\ firstTime' = TRUE /\ fresh' = (fresh \/ ~firstTime)
      /\ held' = IF b = 0 THEN file.version ELSE held
      /\ remaining' = remaining \ {b} /\ pc' = pc
      /\ todo' = (IF firstTime THEN <<>> ELSE EraseSlot) \o ProgramAll(W)
  BY DEF WriteBlockAmebaZ2
<1>2. W \in SUBSET Cells /\ \A c : c \in W <=> /\ c \in Cells /\ c # 0 /\ BlockOf(c) = b
                                               /\ c < ImgLen + file.trailing
  BY DEF CellsOf, BlockOf
<1>3. /\ \A c : BlockOf(c)' = BlockOf(c)
      /\ Checked' = Checked /\ \A c \in Checked : c \in Cells /\ c # 0 /\ c < ImgLen + file.trailing
      /\ LengthKnown /\ LengthKnown' /\ fresh' \in BOOLEAN
  BY <1>0, <1>1 DEF Checked, CheckedUpTo, BlockOf, Offset, Cells, LengthKnown
<1> HIDE DEF W
<1>4. /\ ToWrite(todo') = W /\ ErasesFirst(todo')
      /\ ToErase(todo') = IF firstTime THEN {} ELSE Cells
  <2>1. CASE firstTime
    <3>1. file.version \in CellValues
      BY <1>0 DEF CellValues
    <3>2. ProgramAll(W) \in Seq(Operations)
      BY <1>2, <3>1, ProgramAllCells
    <3>3. todo' = ProgramAll(W)
      BY <1>1, <2>1, <3>2
    <3> QED  BY <1>0, <1>2, <2>1, <3>3, ProgramAllWrites
  <2>2. CASE ~firstTime
    BY <1>0, <1>1, <1>2, <2>2, EraseThenWrite
  <2> QED  BY <2>1, <2>2
<1>5. ErasesFirst(todo)'
  BY <1>4 DEF ErasesFirst
<1>6. ASSUME fresh', NEW c \in Checked
      PROVE  Stored(c)'
  <2>1. c \in W <=> BlockOf(c) = b
    BY <1>2, <1>3
  <2>2. CASE firstTime
    BY <1>0, <1>1, <1>2, <1>3, <1>4, <1>6, <2>1, <2>2, BlockStored
  <2>3. CASE ~firstTime
    <3>1. BlockOf(c) \in remaining
      BY <1>0, <2>3 DEF Arriving, NotBegun
    <3>2. ToErase(todo)' = Cells /\ ToWrite(todo)' = W /\ c \in Cells
      <4>1. ToErase(todo)' = ToErase(todo') /\ ToWrite(todo)' = ToWrite(todo')
        BY DEF ToErase, ToWrite, Erases, Writes
      <4> QED  BY <1>3, <1>4, <2>3, <4>1
    <3>3. BlockOf(c)' \in remaining' <=> c \notin W
      BY <1>1, <1>3, <2>1, <3>1
    <3> QED  BY <3>2, <3>3 DEF Stored
  <2> QED  BY <1>0, <2>2, <2>3
<1>7. 0 \in remaining' \/ held' = file.version
  BY <1>0, <1>1, <1>3 DEF Arriving
<1> QED  BY <1>0, <1>1, <1>3, <1>5, <1>6, <1>7 DEF Receiving, Arriving, NotBegun

LEMMA ReceivingStep == IInv /\ Receiving /\ [Next]_vars => Receiving'
<1> SUFFICES ASSUME IInv, Receiving, [Next]_vars PROVE Receiving'
  OBVIOUS
<1>1. CASE PowerLoss
  BY <1>1 DEF PowerLoss, Boot, Receiving
<1>2. CASE Abort
  BY <1>2 DEF Abort, Receiving, download
<1>3. CASE SetPlatformImageState
  BY <1>3 DEF SetPlatformImageState, Receiving, download
<1>4. CASE CloseFile
  BY <1>4 DEF CloseFile, Receiving, download
<1>5. CASE ActivateNewImage
  BY <1>5 DEF ActivateNewImage, ActivateAmeba, ActivateAmebaD, SignAmebaZ2, Receiving, download
<1>6. CASE WriteBlock
  <2>1. todo = <<>> /\ pc = "receiving" /\ UNCHANGED <<family, slot, file>>
    BY <1>6 DEF WriteBlock, Calls
  <2>2. CASE pc' = "failed" /\ fresh' = fresh
    BY <2>2 DEF Receiving
  <2>3. CASE \E b \in remaining : WriteBlockAmeba(b) \/ WriteBlockAmebaD(b)
    <3>1. PICK b \in remaining, a \in BOOLEAN : family # "amebaz2" /\ StoreBlock(b, a)
      BY <2>3 DEF WriteBlockAmeba, WriteBlockAmebaD, HeaderAccepted, HeaderAcceptedD
    <3> QED  BY <2>1, <3>1, ReceivingStore
  <2>4. CASE \E b \in remaining : WriteBlockAmebaZ2(b)
    BY <2>1, <2>4, ReceivingStoreZ2
  <2> QED  BY <1>6, <2>2, <2>3, <2>4 DEF WriteBlock
<1>7. CASE UNCHANGED vars
  <2>1. UNCHANGED <<family, slot, pc, file, remaining, header, imgsz, held, firstTime, fresh, todo>>
    BY <1>7 DEF vars, download
  <2>2. \A c : Stored(c)' = Stored(c)
    BY <2>1 DEF Stored, BlockOf, Offset, ToErase, ToWrite, Erases, Writes
  <2>3. Arriving' = Arriving
    BY <2>1, <2>2 DEF Arriving, ErasesFirst, LengthKnown, NotBegun, Checked, CheckedUpTo,
                      CountedIn, BlockOf, Offset
  <2> QED  BY <2>1, <2>3 DEF Receiving
<1> QED  BY <1>1, <1>2, <1>3, <1>4, <1>5, <1>6, <1>7, ReceivingOperation, ReceivingCreate DEF Next

LEMMA ReceivingAlways == Spec => []Receiving
BY InvAlways, ReceivingInit, ReceivingStep, PTL DEF Spec

(* Blocks may come in any order, on any of the chips: a file that has all  *)
(* of them, in a slot that was erased for it, is found as it was signed.   *)
THEOREM CompleteVerifies == Spec => []CompleteFileVerifies
<1>1. IInv /\ Receiving => CompleteFileVerifies
  <2> SUFFICES ASSUME IInv, Receiving, todo = <<>>, pc = "receiving", remaining = {}, fresh,
                      file.trailing = 0 \/ header = "first" \/ family = "amebaz2"
               PROVE  UpdateAmeba \/ UpdateAmebaD \/ UpdateAmebaZ2
    BY DEF CompleteFileVerifies, Calls
  <2>1. Arriving /\ LengthKnown /\ Typed
    BY DEF Receiving, LengthKnown, IInv
  <2>2. ImgLen \in Nat \ {0} /\ family \in {"ameba", "amebad", "amebaz2"}
        /\ file.trailing \in {0, 1}
    BY <2>1, FlashAssumption DEF Typed
  <2>3. held = file.version
    BY <2>1 DEF Arriving
  <2>4. Intact(Checked)
    <3>1. ToWrite(todo) = {}
      BY DEF ToWrite
    <3>2. \A c \in Checked : Stored(c)
      BY <2>1 DEF Arriving
    <3> QED  BY <3>1, <3>2 DEF Intact, Stored
  <2>5. CASE family = "amebaz2"
    <3>1. Checked = 1..(ImgLen + file.trailing - 1)
      BY <2>2, <2>5 DEF Checked, CheckedUpTo
    <3> QED  BY <2>3, <2>4, <2>5, <3>1 DEF UpdateAmebaZ2
  <2>6. CASE family # "amebaz2"
    <3>1. Checked = 1..(ImgLen - 1)
      BY <2>2, <2>6 DEF Checked, CheckedUpTo
    <3>2. imgsz = ImgLen
      <4>1. CountedIn(remaining) = 0..(ImgLen - 1)
        BY DEF CountedIn
      <4>2. Cardinality(0..(ImgLen - 1)) = ImgLen
        BY <2>2, FS_Interval
      <4> QED  BY <2>1, <2>6, <4>1, <4>2 DEF Arriving
    <3> QED  BY <2>2, <2>3, <2>4, <2>6, <3>1, <3>2 DEF UpdateAmeba, UpdateAmebaD, CountedImage
  <2> QED  BY <2>5, <2>6
<1> QED  BY <1>1, InvAlways, ReceivingAlways, PTL
=============================================================================
