------------------------- MODULE ProvisioningProofs -------------------------
(***************************************************************************)
(* Proofs about the credentials, for every set of images, every number of  *)
(* key pairs and of losses of power: what the image brought is in the      *)
(* token when provisioning reports success, and the halves of a generated  *)
(* pair belong together.                                                   *)
(***************************************************************************)
EXTENDS Provisioning, TLAPS

Before == {"destroy", "certificate", "create", "privateKey"}
After  == {"jitp", "state", "generate", "private", "run"}
Tails  == {<<"cert", "code", "private", "public">>, <<"code", "private", "public">>,
           <<"private", "public">>, <<"public">>, <<>>}

Typed ==
  /\ flash \in [Objects -> Contents] /\ saving \in Objects \cup {None}
  /\ image \in Images
  /\ pc \in {"boot"} \cup Before \cup After /\ then \in {"certificate", "create"}
  /\ found \in {"ok", "error"} /\ result \in {"ok", "error"}
  /\ imported \in BOOLEAN /\ generate \in BOOLEAN
  /\ torn \in BOOLEAN /\ fault \in {"none", "overrun"}
  /\ keys \in Nat /\ resets \in 0..MaxResets
  /\ keys <= resets + (IF pc \in {"private", "run"} THEN 1 ELSE 0)

(* What a sector holds, and which one is written at which step. Only a     *)
(* certificate can run into the sector behind it.                          *)
Stored ==
  /\ \A o \in Objects : o # "cert" => flash[o].size = "fits"
  /\ \A o \in Objects : flash[o].words > 0 => flash[o].thing # Nothing
  /\ flash["private"].thing # Certificate
  /\ flash["public"].thing \notin {Certificate, 0}
  /\ saving # None => flash[saving].words < Whole /\ flash[saving].thing # Nothing

Saved ==
  /\ saving = "cert" => pc \in {"destroy", "privateKey"}
  /\ saving = "code" => pc = "destroy"
  /\ saving = "private" => pc \in {"destroy", "jitp"} \/ (pc = "run" /\ generate)
  /\ saving = "public" =>
       pc = "private" \/ (pc = "destroy" /\ flash["public"].thing = Zeros)

(* What has been decided at each step.                                     *)
Decided ==
  /\ pc \in Before => ~imported
  /\ pc \in Before \cup {"jitp", "state"} => ~generate
  /\ pc = "private" => generate /\ result = "ok"
  /\ pc = "destroy" =>
       \/ then = "certificate" /\ image.key /\ todo \in Tails
       \/ /\ then = "create" /\ todo \in {<<"cert">>, <<>>} /\ result = "ok"
          /\ image.cert # None
  /\ pc = "create" => image.cert # None
  /\ pc # "destroy" => todo \in Tails

(* What the image brought.                                                 *)
CertificateKept ==
  pc \in After \cup {"privateKey"} /\ result = "ok" /\ image.cert \notin {None, "large"} =>
    /\ flash["cert"].thing = Certificate /\ flash["cert"].size = image.cert
    /\ flash["cert"].words = Whole \/ saving = "cert"

KeyKept ==
  pc \in After /\ imported /\ ~generate =>
    flash["private"].thing = 0 /\ (flash["private"].words = Whole \/ saving = "private")

(* A key of the image is created when the public half of an older pair is  *)
(* gone.                                                                   *)
Cleared ==
  \/ pc \in {"certificate", "create", "privateKey"} /\ result = "ok"
  \/ pc = "destroy" /\ then = "create"
  \/ pc = "destroy" /\ then = "certificate" /\ todo = <<>> /\ found = "ok"

Gone == Cleared /\ image.key /\ ~torn => flash["public"].thing \in {Nothing, Zeros}

(* The two halves, unless a reset has torn them.                           *)
PublicWhole ==
  ~torn /\ flash["public"].thing > 0 =>
    flash["public"].words = Whole \/ (pc = "private" /\ saving = "public")

Paired ==
  ~torn /\ pc # "private" /\ flash["private"].thing >= 0 /\ flash["public"].thing > 0 =>
    flash["private"].thing = flash["public"].thing

(* A pair was found, or has been made.                                     *)
Present(o) == flash[o].words = Whole /\ flash[o].thing # Zeros
FoundBoth ==
  pc \in {"generate", "run"} /\ ~generate /\ ~imported /\ result = "ok" =>
    Present("private") /\ Present("public")

Made ==
  /\ pc = "private" \/ (pc = "run" /\ generate /\ result = "ok") =>
       /\ flash["public"].thing = keys /\ keys > 0
       /\ flash["public"].words = Whole \/ (pc = "private" /\ saving = "public")
  /\ pc = "run" /\ generate /\ result = "ok" =>
       flash["private"].thing = keys /\ (flash["private"].words = Whole \/ saving = "private")

IInv == /\ Typed /\ Stored /\ Saved /\ Decided /\ CertificateKept /\ KeyKept
        /\ Gone /\ PublicWhole /\ Paired /\ FoundBoth /\ Made
-----------------------------------------------------------------------------
(* Sectors and what writing them changes.                                  *)

LEMMA ObjectFacts ==
  /\ Objects = {"cert", "private", "public", "code"} /\ None \notin Objects
  /\ NextSector("cert") = {"private"} /\ NextSector("private") = {"public"}
  /\ NextSector("public") = {"code"} /\ NextSector("code") = {}
<1>1. Sectors = <<"cert", "private", "public", "code">>
  BY DEF Sectors
<1>2. Objects = {"cert", "private", "public", "code"}
  <2>1. 1..4 = {1, 2, 3, 4}
    OBVIOUS
  <2> QED  BY <1>1, <2>1 DEF Objects
<1>3. \A o : NextSector(o) = {Sectors[i + 1] : i \in {j \in {1, 2, 3} : Sectors[j] = o}}
  <2>1. 1..3 = {1, 2, 3}
    OBVIOUS
  <2> QED  BY <2>1 DEF NextSector
<1>4. /\ {j \in {1, 2, 3} : Sectors[j] = "cert"} = {1}
      /\ {j \in {1, 2, 3} : Sectors[j] = "private"} = {2}
      /\ {j \in {1, 2, 3} : Sectors[j] = "public"} = {3}
      /\ {j \in {1, 2, 3} : Sectors[j] = "code"} = {}
  BY <1>1
<1>5. /\ NextSector("cert") = {"private"} /\ NextSector("private") = {"public"}
      /\ NextSector("public") = {"code"} /\ NextSector("code") = {}
  BY <1>1, <1>3, <1>4
<1> QED  BY <1>2, <1>5 DEF None

(* What an object is when it is begun to be saved.                         *)
LEMMA SaveBegins ==
  ASSUME Typed, NEW o \in Objects, NEW t \in Nothing..MaxKeys, NEW z \in Sizes \cup {"fits"},
         SaveObject(o, [thing |-> t, size |-> z])
  PROVE  /\ flash' \in [Objects -> Contents] /\ saving' \in Objects \cup {None}
         /\ \A x \in Objects : x # o => flash'[x] = flash[x]
         /\ z = "large" => flash' = flash /\ saving' = saving
         /\ z # "large" => /\ saving' = o /\ flash'[o].thing = t /\ flash'[o].size = z
                            /\ flash'[o].words = 0
<1>1. CASE z = "large"
  BY <1>1 DEF SaveObject, token, Typed
<1>2. CASE z # "large"
  <2>1. /\ saving' = o
        /\ flash' = [flash EXCEPT ![o] = [thing |-> t, size |-> z, words |-> 0]]
    BY <1>2 DEF SaveObject
  <2>2. [thing |-> t, size |-> z, words |-> 0] \in Contents
    BY DEF Contents, Whole
  <2> QED  BY <1>2, <2>1, <2>2 DEF Typed
<1> QED  BY <1>1, <1>2

LEMMA InvInit == Init => IInv
<1> SUFFICES ASSUME Init PROVE IInv
  OBVIOUS
<1>1. \A o \in Objects : flash[o] = Erased
  BY DEF Init
<1>2. Erased \in Contents
  BY BoundsAssumption DEF Erased, Contents, Nothing, Whole
<1>3. Typed
  <2>1. flash \in [Objects -> Contents]
    BY <1>2 DEF Init
  <2>2. 0 \in 0..MaxResets
    BY BoundsAssumption
  <2>3. keys <= resets + (IF pc \in {"private", "run"} THEN 1 ELSE 0) /\ keys \in Nat
    BY DEF Init
  <2> QED  BY <2>1, <2>2, <2>3 DEF Init, Typed
<1>4. Stored
  BY <1>1, ObjectFacts DEF Init, Stored, Erased, Nothing, Certificate, None
<1>5. Saved /\ Decided
  BY ObjectFacts DEF Init, Saved, Decided, Before, Tails, None
<1>6. CertificateKept /\ KeyKept /\ Gone /\ FoundBoth /\ Made
  BY DEF Init, CertificateKept, KeyKept, Gone, Cleared, FoundBoth, Made, After
<1>7. PublicWhole /\ Paired
  BY <1>1, ObjectFacts DEF Init, PublicWhole, Paired, Erased, Nothing
<1> QED  BY <1>3, <1>4, <1>5, <1>6, <1>7 DEF IInv

-----------------------------------------------------------------------------
(* The steps.                                                              *)

LEMMA OpenSessionInv == IInv /\ OpenSession => IInv'
<1> SUFFICES ASSUME IInv, OpenSession PROVE IInv'
  OBVIOUS
<1>1. /\ pc = "boot" /\ saving = None /\ UNCHANGED <<flash, saving, image, keys, torn, resets, fault>>
      /\ imported' = FALSE /\ generate' = FALSE /\ found' = "ok"
      /\ \/ result' = "error" /\ pc' = "run" /\ UNCHANGED <<then, todo>>
         \/ result' = "ok" /\ image.cert # None /\ image.key /\ pc' = "destroy"
            /\ then' = "certificate" /\ todo' = <<"cert", "code", "private", "public">>
         \/ result' = "ok" /\ ~(image.cert # None /\ image.key) /\ pc' = "certificate"
            /\ UNCHANGED <<then, todo>>
  BY DEF OpenSession, At, token, world
<1>2. Typed'
  <2>1. keys' <= resets' + (IF pc' \in {"private", "run"} THEN 1 ELSE 0)
    BY <1>1, BoundsAssumption DEF IInv, Typed
  <2> QED  BY <1>1, <2>1 DEF IInv, Typed, Before, After
<1>3. Stored'
  BY <1>1, ImagesAssumption, ObjectFacts DEF IInv, Stored
<1>4. Saved'
  BY <1>1, ImagesAssumption, ObjectFacts DEF IInv, Saved
<1>5. Decided'
  BY <1>1, ImagesAssumption, ObjectFacts DEF IInv, Decided, Before, Tails
<1>6. CertificateKept'
  BY <1>1, ImagesAssumption, ObjectFacts DEF IInv, CertificateKept, After
<1>7. KeyKept'
  BY <1>1, ImagesAssumption, ObjectFacts DEF IInv, KeyKept, After
<1>8. Gone'
  BY <1>1, ImagesAssumption DEF IInv, Typed, Gone, Cleared
<1>9. PublicWhole'
  BY <1>1, ImagesAssumption, ObjectFacts DEF IInv, PublicWhole
<1>10. Paired'
  BY <1>1, ImagesAssumption, ObjectFacts DEF IInv, Paired
<1>11. FoundBoth'
  BY <1>1, ImagesAssumption, ObjectFacts DEF IInv, FoundBoth
<1>12. Made'
  BY <1>1, ImagesAssumption, ObjectFacts DEF IInv, Made
<1> QED  BY <1>2, <1>3, <1>4, <1>5, <1>6, <1>7, <1>8, <1>9, <1>10, <1>11, <1>12 DEF IInv

(* A read that runs beyond the object stops everything.                    *)
LEMMA NothingMoves ==
  ASSUME IInv, UNCHANGED <<token, flow, image, keys, torn, resets>>, fault' \in {"none", "overrun"}
  PROVE  IInv'
<1>1. /\ UNCHANGED <<flash, saving, pc, then, todo, found, result, imported, generate>>
      /\ UNCHANGED <<image, keys, torn, resets>>
  BY DEF token, flow
<1>2. Typed'
  BY <1>1 DEF IInv, Typed, Before, After
<1>3. Stored'
  BY <1>1 DEF IInv, Stored
<1>4. Saved'
  BY <1>1 DEF IInv, Saved
<1>5. Decided'
  BY <1>1 DEF IInv, Decided, Before, Tails
<1>6. CertificateKept'
  BY <1>1 DEF IInv, CertificateKept, Before, After
<1>7. KeyKept'
  BY <1>1 DEF IInv, KeyKept, Before, After
<1>8. Gone'
  BY <1>1 DEF IInv, Gone, Cleared
<1>9. PublicWhole'
  BY <1>1 DEF IInv, PublicWhole
<1>10. Paired'
  BY <1>1 DEF IInv, Paired
<1>11. FoundBoth'
  BY <1>1 DEF IInv, FoundBoth, Present
<1>12. Made'
  BY <1>1 DEF IInv, Made
<1> QED  BY <1>2, <1>3, <1>4, <1>5, <1>6, <1>7, <1>8, <1>9, <1>10, <1>11, <1>12 DEF IInv

LEMMA SearchFacts ==
  ASSUME Typed, NEW o \in Objects, NEW r \in Search(o)
  PROVE  /\ r = "absent" => flash[o].words = 0 \/ flash[o].thing = Zeros
         /\ r = "found" => Present(o)
<1>1. flash[o].words \in 0..Whole
  BY DEF Typed, Contents
<1>2. CASE flash[o].words = 0
  BY <1>2 DEF Search, FindObject
<1>3. CASE flash[o].words \in 1..2
  BY <1>3 DEF Search, FindObject, GetObjectValue
<1>4. CASE flash[o].words \in 3..4
  BY <1>4 DEF Search, FindObject, GetObjectValue, Whole
<1>5. CASE flash[o].words = Whole
  BY <1>5 DEF Search, FindObject, GetObjectValue, Whole, Is, Present
<1> QED  BY <1>1, <1>2, <1>3, <1>4, <1>5 DEF Whole

LEMMA DestroyLabelInv == IInv /\ DestroyLabel => IInv'
<1> SUFFICES ASSUME IInv, DestroyLabel PROVE IInv'
  OBVIOUS
<1>1. /\ pc = "destroy" /\ saving = None /\ todo # <<>> /\ Typed
  BY DEF DestroyLabel, At, IInv
<1>2. /\ Head(todo) \in Objects
      /\ then = "certificate" => Tail(todo) \in Tails /\ (Tail(todo) = <<>> => Head(todo) = "public")
      /\ then = "create" => Tail(todo) = <<>>
  <2>1. CASE then = "create"
    <3>1. todo = <<"cert">>
      BY <1>1, <2>1 DEF IInv, Decided
    <3> QED  BY <2>1, <3>1, ObjectFacts
  <2>2. CASE then = "certificate"
    <3>1. todo \in Tails
      BY <1>1, <2>2 DEF IInv, Decided
    <3>2. CASE todo = <<"cert", "code", "private", "public">>
      BY <2>2, <3>2, ObjectFacts DEF Tails
    <3>3. CASE todo = <<"code", "private", "public">>
      BY <2>2, <3>3, ObjectFacts DEF Tails
    <3>4. CASE todo = <<"private", "public">>
      BY <2>2, <3>4, ObjectFacts DEF Tails
    <3>5. CASE todo = <<"public">>
      BY <2>2, <3>5, ObjectFacts DEF Tails
    <3> QED  BY <1>1, <3>1, <3>2, <3>3, <3>4, <3>5 DEF Tails
  <2> QED  BY <1>1, <2>1, <2>2 DEF Typed
<1>3. PICK r \in Search(Head(todo)) :
        \/ r = "overrun" /\ Overrun
        \/ /\ r = "found"
           /\ \/ DestroyObject(Head(todo)) /\ UNCHANGED <<todo, found>>
              \/ todo' = Tail(todo) /\ found' = "error" /\ UNCHANGED token
           /\ UNCHANGED <<world, pc, then, result, imported, generate>>
        \/ /\ r \in {"absent", "failed", "memory"}
           /\ todo' = Tail(todo) /\ found' = IF r = "absent" THEN "ok" ELSE "error"
           /\ UNCHANGED <<token, world, pc, then, result, imported, generate>>
  BY DEF DestroyLabel
<1>4. CASE Overrun
  BY <1>4, NothingMoves DEF Overrun
<1>5. CASE /\ DestroyObject(Head(todo)) /\ UNCHANGED <<todo, found>>
           /\ UNCHANGED <<world, pc, then, result, imported, generate>>
  <2> DEFINE o == Head(todo)
  <2>1. /\ flash' \in [Objects -> Contents] /\ saving' \in Objects \cup {None}
        /\ \A x \in Objects : x # o => flash'[x] = flash[x]
        /\ saving' = saving \/ saving' = o
        /\ \/ flash'[o] = flash[o]
           \/ /\ flash'[o].thing = Zeros /\ flash'[o].size = flash[o].size
              /\ flash'[o].words = 0
    <3>1. flash[o].size \in Sizes \cup {"fits"} /\ Zeros \in Nothing..MaxKeys
      BY <1>1, <1>2, BoundsAssumption DEF Typed, Contents, Zeros, Nothing
    <3> QED  BY <1>1, <1>2, <1>5, <3>1, SaveBegins DEF DestroyObject
  <2>2. /\ UNCHANGED <<image, keys, torn, fault, resets, pc, then, result, imported, generate,
                       todo, found>>
        /\ saving' # None => saving' = o /\ flash'[o].thing = Zeros /\ flash'[o].words = 0
    <3>1. saving' # None => flash'[o].thing = Zeros /\ flash'[o].words = 0
      <4>1. flash[o].size \in Sizes \cup {"fits"} /\ Zeros \in Nothing..MaxKeys
        BY <1>1, <1>2, BoundsAssumption DEF Typed, Contents, Zeros, Nothing
      <4> QED  BY <1>1, <1>2, <1>5, <4>1, SaveBegins DEF DestroyObject
    <3> QED  BY <1>1, <1>5, <2>1, <3>1 DEF world
  <2> HIDE DEF o
  <2>3. Typed'
    BY <1>1, <1>2, <2>1, <2>2, ObjectFacts DEF IInv, Typed, Before, After
  <2>4. Stored'
    BY <1>1, <1>2, <2>1, <2>2, ObjectFacts DEF IInv, Stored, Zeros, Nothing, Certificate, Whole
  <2>5. Saved'
    BY <1>1, <1>2, <2>1, <2>2, ObjectFacts DEF IInv, Saved
  <2>6. Decided'
    BY <1>1, <1>2, <2>1, <2>2, ObjectFacts DEF IInv, Decided, Before, Tails
  <2>7. CertificateKept'
    BY <1>1, <1>2, <2>1, <2>2, ObjectFacts DEF IInv, CertificateKept, Before, After
  <2>8. KeyKept'
    BY <1>1, <1>2, <2>1, <2>2, ObjectFacts DEF IInv, KeyKept, Before, After
  <2>9. Gone'
    BY <1>1, <1>2, <2>1, <2>2, ObjectFacts DEF IInv, Gone, Cleared
  <2>10. PublicWhole'
    BY <1>1, <1>2, <2>1, <2>2, ObjectFacts DEF IInv, PublicWhole, Zeros, Nothing, Certificate
  <2>11. Paired'
    BY <1>1, <1>2, <2>1, <2>2, ObjectFacts DEF IInv, Paired, Zeros, Nothing, Certificate
  <2>12. FoundBoth'
    BY <1>1, <1>2, <2>1, <2>2, ObjectFacts DEF IInv, FoundBoth, Present
  <2>13. Made'
    BY <1>1, <1>2, <2>1, <2>2, ObjectFacts DEF IInv, Made
  <2> QED  BY <2>3, <2>4, <2>5, <2>6, <2>7, <2>8, <2>9, <2>10, <2>11, <2>12, <2>13 DEF IInv
<1>6. CASE /\ todo' = Tail(todo) /\ UNCHANGED token
           /\ UNCHANGED <<world, pc, then, result, imported, generate>>
           /\ \/ found' = "error"
              \/ found' = "ok" /\ r = "absent"
  <2>1. UNCHANGED <<flash, saving, image, keys, torn, fault, resets, pc, then, result, imported,
                    generate>>
    BY <1>6 DEF token, world
  <2>2. found' = "ok" => flash[Head(todo)].words = 0 \/ flash[Head(todo)].thing = Zeros
    BY <1>1, <1>2, <1>6, SearchFacts
  <2>3. Typed'
    BY <1>1, <1>2, <1>6, <2>1, <2>2, ObjectFacts DEF IInv, Typed, Before, After
  <2>4. Stored'
    BY <1>1, <1>2, <1>6, <2>1, <2>2, ObjectFacts DEF IInv, Stored
  <2>5. Saved'
    BY <1>1, <1>2, <1>6, <2>1, <2>2, ObjectFacts DEF IInv, Saved
  <2>6. Decided'
    BY <1>1, <1>2, <1>6, <2>1, <2>2, ObjectFacts DEF IInv, Decided, Before, Tails
  <2>7. CertificateKept'
    BY <1>1, <1>2, <1>6, <2>1, <2>2, ObjectFacts DEF IInv, CertificateKept, Before, After
  <2>8. KeyKept'
    BY <1>1, <1>2, <1>6, <2>1, <2>2, ObjectFacts DEF IInv, KeyKept, Before, After
  <2>9. Gone'
    <3>1. ~torn /\ flash["public"].words = 0 => flash["public"].thing \in {Nothing, Zeros}
      <4>1. flash["public"].thing \in Nothing..MaxKeys
        BY <1>1, ObjectFacts DEF Typed, Contents
      <4> QED  BY <1>1, <4>1, BoundsAssumption
               DEF IInv, Stored, PublicWhole, Whole, Nothing, Zeros, Certificate
    <3> QED  BY <1>1, <1>2, <1>6, <2>1, <2>2, <3>1, ObjectFacts DEF IInv, Gone, Cleared, Decided
  <2>10. PublicWhole'
    BY <1>1, <1>2, <1>6, <2>1, <2>2, ObjectFacts DEF IInv, PublicWhole
  <2>11. Paired'
    BY <1>1, <1>2, <1>6, <2>1, <2>2, ObjectFacts DEF IInv, Paired
  <2>12. FoundBoth'
    BY <1>1, <1>2, <1>6, <2>1, <2>2, ObjectFacts DEF IInv, FoundBoth, Present
  <2>13. Made'
    BY <1>1, <1>2, <1>6, <2>1, <2>2, ObjectFacts DEF IInv, Made
  <2> QED  BY <2>3, <2>4, <2>5, <2>6, <2>7, <2>8, <2>9, <2>10, <2>11, <2>12, <2>13 DEF IInv
<1> QED  BY <1>3, <1>4, <1>5, <1>6

LEMMA DestroyLabelsDoneInv == IInv /\ DestroyLabelsDone => IInv'
<1> SUFFICES ASSUME IInv, DestroyLabelsDone PROVE IInv'
  OBVIOUS
<1>1. /\ pc = "destroy" /\ todo = <<>> /\ saving = None /\ pc' = then
      /\ result' = (IF then = "certificate" THEN found ELSE result)
      /\ UNCHANGED <<flash, saving, image, keys, torn, fault, resets>>
      /\ UNCHANGED <<then, todo, found, imported, generate>> /\ then \in {"certificate", "create"}
  BY DEF DestroyLabelsDone, At, token, world, IInv, Typed
<1>2. Typed'
  BY <1>1 DEF IInv, Typed, Before, After, Decided
<1>3. Stored'
  BY <1>1 DEF IInv, Stored
<1>4. Saved'
  BY <1>1 DEF IInv, Saved, None
<1>5. Decided'
  BY <1>1 DEF IInv, Decided, Before, Tails
<1>6. CertificateKept'
  BY <1>1 DEF IInv, CertificateKept, Before, After
<1>7. KeyKept'
  BY <1>1 DEF IInv, KeyKept, Before, After
<1>8. Gone'
  BY <1>1 DEF IInv, Gone, Cleared, Typed, Decided
<1>9. PublicWhole'
  BY <1>1 DEF IInv, PublicWhole
<1>10. Paired'
  BY <1>1 DEF IInv, Paired
<1>11. FoundBoth'
  BY <1>1 DEF IInv, FoundBoth, Present
<1>12. Made'
  BY <1>1 DEF IInv, Made
<1> QED  BY <1>2, <1>3, <1>4, <1>5, <1>6, <1>7, <1>8, <1>9, <1>10, <1>11, <1>12 DEF IInv

LEMMA ProvisionCertificateInv == IInv /\ ProvisionCertificate => IInv'
<1> SUFFICES ASSUME IInv, ProvisionCertificate PROVE IInv'
  OBVIOUS
<1>1. /\ pc = "certificate" /\ saving = None
      /\ UNCHANGED <<flash, saving, image, keys, torn, fault, resets, found, imported, generate>>
      /\ \/ ~(result = "ok" /\ image.cert # None) /\ pc' = "privateKey" /\ UNCHANGED <<result, then, todo>>
         \/ result' = "error" /\ pc' = "privateKey" /\ UNCHANGED <<then, todo>>
         \/ /\ result = "ok" /\ result' = result /\ image.cert # None
            /\ pc' = "destroy" /\ then' = "create" /\ todo' = <<"cert">>
  BY DEF ProvisionCertificate, Skip, At, token, world
<1>2. Typed'
  BY <1>1 DEF IInv, Typed, Before, After
<1>3. Stored'
  BY <1>1 DEF IInv, Stored
<1>4. Saved'
  BY <1>1 DEF IInv, Saved
<1>5. Decided'
  BY <1>1 DEF IInv, Decided, Before, Tails
<1>6. CertificateKept'
  BY <1>1 DEF IInv, CertificateKept, Before, After
<1>7. KeyKept'
  BY <1>1 DEF IInv, KeyKept, Before, After
<1>8. Gone'
  BY <1>1 DEF IInv, Gone, Cleared
<1>9. PublicWhole'
  BY <1>1 DEF IInv, PublicWhole
<1>10. Paired'
  BY <1>1 DEF IInv, Paired
<1>11. FoundBoth'
  BY <1>1 DEF IInv, FoundBoth, Present
<1>12. Made'
  BY <1>1 DEF IInv, Made
<1> QED  BY <1>2, <1>3, <1>4, <1>5, <1>6, <1>7, <1>8, <1>9, <1>10, <1>11, <1>12 DEF IInv

LEMMA CreateCertificateInv == IInv /\ CreateCertificate => IInv'
<1> SUFFICES ASSUME IInv, CreateCertificate PROVE IInv'
  OBVIOUS
<1>1. /\ pc = "create" /\ saving = None /\ pc' = "privateKey"
      /\ UNCHANGED <<image, keys, torn, fault, resets, then, todo, found, imported, generate>>
      /\ \/ SaveObject("cert", [thing |-> Certificate, size |-> image.cert]) /\ UNCHANGED result
         \/ result' = "error" /\ UNCHANGED <<flash, saving>>
  BY DEF CreateCertificate, At, token, world
<1>2. CASE result' = "error" /\ UNCHANGED <<flash, saving>>
  <2>1. Typed'
    BY <1>1, <1>2 DEF IInv, Typed, Before, After
  <2>2. Stored'
    BY <1>1, <1>2 DEF IInv, Stored
  <2>3. Saved'
    BY <1>1, <1>2 DEF IInv, Saved
  <2>4. Decided'
    BY <1>1, <1>2 DEF IInv, Decided, Before, Tails
  <2>5. CertificateKept'
    BY <1>1, <1>2 DEF IInv, CertificateKept, Before, After
  <2>6. KeyKept'
    BY <1>1, <1>2 DEF IInv, KeyKept, Before, After
  <2>7. Gone'
    BY <1>1, <1>2 DEF IInv, Gone, Cleared
  <2>8. PublicWhole'
    BY <1>1, <1>2 DEF IInv, PublicWhole
  <2>9. Paired'
    BY <1>1, <1>2 DEF IInv, Paired
  <2>10. FoundBoth'
    BY <1>1, <1>2 DEF IInv, FoundBoth, Present
  <2>11. Made'
    BY <1>1, <1>2 DEF IInv, Made
  <2> QED  BY <2>1, <2>2, <2>3, <2>4, <2>5, <2>6, <2>7, <2>8, <2>9, <2>10, <2>11 DEF IInv
<1>3. CASE /\ UNCHANGED result
           /\ SaveObject("cert", [thing |-> Certificate, size |-> image.cert])
  <2>1. image.cert \in Sizes /\ (image.cert = "large" \/ image.cert # "large") /\ "cert" \in Objects
    BY <1>1, ImagesAssumption, ObjectFacts DEF IInv, Typed, Decided
  <2>2. /\ flash' \in [Objects -> Contents] /\ saving' \in Objects \cup {None}
        /\ \A x \in Objects : x # "cert" => flash'[x] = flash[x]
        /\ image.cert = "large" => flash' = flash /\ saving' = saving
        /\ image.cert # "large" =>
             /\ saving' = "cert" /\ flash'["cert"].thing = Certificate
             /\ flash'["cert"].size = image.cert /\ flash'["cert"].words = 0
    <3>1. Certificate \in Nothing..MaxKeys
      BY BoundsAssumption DEF Certificate, Nothing
    <3> QED  BY <1>1, <1>3, <2>1, <3>1, SaveBegins DEF IInv
  <2>3. Typed'
    BY <1>1, <1>3, <2>1, <2>2, ObjectFacts DEF IInv, Typed, Before, After
  <2>4. Stored'
    BY <1>1, <1>3, <2>1, <2>2, ObjectFacts DEF IInv, Stored, Certificate, Nothing, Whole
  <2>5. Saved'
    BY <1>1, <1>3, <2>1, <2>2, ObjectFacts DEF IInv, Saved
  <2>6. Decided'
    BY <1>1, <1>3, <2>1, <2>2, ObjectFacts DEF IInv, Decided, Before, Tails
  <2>7. CertificateKept'
    BY <1>1, <1>3, <2>1, <2>2, ObjectFacts DEF IInv, CertificateKept, Before, After
  <2>8. KeyKept'
    BY <1>1, <1>3, <2>1, <2>2, ObjectFacts DEF IInv, KeyKept, Before, After
  <2>9. Gone'
    BY <1>1, <1>3, <2>1, <2>2, ObjectFacts DEF IInv, Gone, Cleared
  <2>10. PublicWhole'
    BY <1>1, <1>3, <2>1, <2>2, ObjectFacts DEF IInv, PublicWhole
  <2>11. Paired'
    BY <1>1, <1>3, <2>1, <2>2, ObjectFacts DEF IInv, Paired
  <2>12. FoundBoth'
    BY <1>1, <1>3, <2>1, <2>2, ObjectFacts DEF IInv, FoundBoth, Present
  <2>13. Made'
    BY <1>1, <1>3, <2>1, <2>2, ObjectFacts DEF IInv, Made
  <2> QED  BY <2>3, <2>4, <2>5, <2>6, <2>7, <2>8, <2>9, <2>10, <2>11, <2>12, <2>13 DEF IInv
<1> QED  BY <1>1, <1>2, <1>3

LEMMA ProvisionPrivateKeyInv == IInv /\ ProvisionPrivateKey => IInv'
<1> SUFFICES ASSUME IInv, ProvisionPrivateKey PROVE IInv'
  OBVIOUS
<1>1. /\ pc = "privateKey" /\ saving = None /\ pc' = "jitp"
      /\ UNCHANGED <<image, keys, torn, fault, resets, then, todo, found, generate>>
      /\ \/ UNCHANGED <<flash, saving, imported, result>>
         \/ result' = "error" /\ UNCHANGED <<flash, saving, imported>>
         \/ /\ SaveObject("private", [thing |-> 0, size |-> "fits"])
            /\ imported' = TRUE /\ result' = result /\ result = "ok" /\ image.key
  BY DEF ProvisionPrivateKey, CreatePrivateKey, Skip, At, token, world
<1>2. CASE UNCHANGED <<flash, saving, imported>> /\ result' \in {result, "error"}
  <2>1. Typed'
    BY <1>1, <1>2 DEF IInv, Typed, Before, After
  <2>2. Stored'
    BY <1>1, <1>2 DEF IInv, Stored
  <2>3. Saved'
    BY <1>1, <1>2 DEF IInv, Saved, None
  <2>4. Decided'
    BY <1>1, <1>2 DEF IInv, Decided, Before, Tails
  <2>5. CertificateKept'
    BY <1>1, <1>2 DEF IInv, CertificateKept, Before, After
  <2>6. KeyKept'
    BY <1>1, <1>2 DEF IInv, KeyKept, Before, After, Decided
  <2>7. Gone'
    BY <1>1, <1>2 DEF IInv, Gone, Cleared
  <2>8. PublicWhole'
    BY <1>1, <1>2 DEF IInv, PublicWhole
  <2>9. Paired'
    BY <1>1, <1>2 DEF IInv, Paired
  <2>10. FoundBoth'
    BY <1>1, <1>2 DEF IInv, FoundBoth, Present
  <2>11. Made'
    BY <1>1, <1>2 DEF IInv, Made
  <2> QED  BY <2>1, <2>2, <2>3, <2>4, <2>5, <2>6, <2>7, <2>8, <2>9, <2>10, <2>11 DEF IInv
<1>3. CASE /\ SaveObject("private", [thing |-> 0, size |-> "fits"])
           /\ imported' = TRUE /\ result' = result /\ result = "ok" /\ image.key
  <2>1. "private" \in Objects /\ 0 \in Nothing..MaxKeys
    BY <1>1, BoundsAssumption, ObjectFacts DEF Nothing, IInv, Typed
  <2>2. /\ flash' \in [Objects -> Contents] /\ saving' = "private"
        /\ \A x \in Objects : x # "private" => flash'[x] = flash[x]
        /\ flash'["private"].thing = 0 /\ flash'["private"].size = "fits"
        /\ flash'["private"].words = 0
    BY <1>3, <2>1, SaveBegins DEF IInv
  <2>3. Typed'
    BY <1>1, <1>3, <2>1, <2>2, ObjectFacts DEF IInv, Typed, Before, After
  <2>4. Stored'
    BY <1>1, <1>3, <2>1, <2>2, ObjectFacts DEF IInv, Stored, Certificate, Nothing, Whole
  <2>5. Saved'
    BY <1>1, <1>3, <2>1, <2>2, ObjectFacts DEF IInv, Saved
  <2>6. Decided'
    BY <1>1, <1>3, <2>1, <2>2, ObjectFacts DEF IInv, Decided, Before, Tails
  <2>7. CertificateKept'
    BY <1>1, <1>3, <2>1, <2>2, ObjectFacts DEF IInv, CertificateKept, Before, After
  <2>8. KeyKept'
    BY <1>1, <1>3, <2>1, <2>2, ObjectFacts DEF IInv, KeyKept, Before, After
  <2>9. Gone'
    BY <1>1, <1>3, <2>1, <2>2, ObjectFacts DEF IInv, Gone, Cleared
  <2>10. PublicWhole'
    BY <1>1, <1>3, <2>1, <2>2, ObjectFacts DEF IInv, PublicWhole
  <2>11. Paired'
    BY <1>1, <1>3, <2>1, <2>2, ObjectFacts DEF IInv, Paired, Gone, Cleared, Zeros, Nothing
  <2>12. FoundBoth'
    BY <1>1, <1>3, <2>1, <2>2, ObjectFacts DEF IInv, FoundBoth, Present
  <2>13. Made'
    BY <1>1, <1>3, <2>1, <2>2, ObjectFacts DEF IInv, Made
  <2> QED  BY <2>3, <2>4, <2>5, <2>6, <2>7, <2>8, <2>9, <2>10, <2>11, <2>12, <2>13 DEF IInv
<1> QED  BY <1>1, <1>2, <1>3

LEMMA ProvisionJitpInv == IInv /\ ProvisionJitp => IInv'
<1> SUFFICES ASSUME IInv, ProvisionJitp PROVE IInv'
  OBVIOUS
<1>1. /\ pc = "jitp" /\ saving = None /\ pc' = "state" /\ result' \in {"ok", "error"}
      /\ result # "ok" => result' = result
      /\ UNCHANGED <<flash, saving, image, keys, torn, fault, resets>>
      /\ UNCHANGED <<then, todo, found, imported, generate>>
  BY DEF ProvisionJitp, Skip, At, token, world, IInv, Typed
<1>2. Typed'
  BY <1>1 DEF IInv, Typed, Before, After
<1>3. Stored'
  BY <1>1 DEF IInv, Stored
<1>4. Saved'
  BY <1>1 DEF IInv, Saved, None
<1>5. Decided'
  BY <1>1 DEF IInv, Decided, Before, Tails
<1>6. CertificateKept'
  BY <1>1 DEF IInv, CertificateKept, Before, After
<1>7. KeyKept'
  BY <1>1 DEF IInv, KeyKept, Before, After
<1>8. Gone'
  BY <1>1 DEF IInv, Gone, Cleared
<1>9. PublicWhole'
  BY <1>1 DEF IInv, PublicWhole
<1>10. Paired'
  BY <1>1 DEF IInv, Paired
<1>11. FoundBoth'
  BY <1>1 DEF IInv, FoundBoth, Present
<1>12. Made'
  BY <1>1 DEF IInv, Made
<1> QED  BY <1>2, <1>3, <1>4, <1>5, <1>6, <1>7, <1>8, <1>9, <1>10, <1>11, <1>12 DEF IInv

LEMMA GetProvisionedStateInv == IInv /\ GetProvisionedState => IInv'
<1> SUFFICES ASSUME IInv, GetProvisionedState PROVE IInv'
  OBVIOUS
<1>1. /\ pc = "state" /\ saving = None
      /\ UNCHANGED <<flash, saving, image, keys, torn, resets>>
      /\ UNCHANGED <<then, todo, found, result, imported>>
      /\ \/ Overrun
         \/ /\ pc' = "generate" /\ generate' \in BOOLEAN /\ fault' = fault
            /\ ~generate' => result # "ok" \/ imported \/ (Present("private") /\ Present("public"))
  <2>1. /\ "private" \in Objects /\ "public" \in Objects /\ Typed
        /\ \A i \in Images : i.force \in BOOLEAN
    BY ObjectFacts, ImagesAssumption DEF IInv
  <2>2. \A o \in Objects : \A r \in Search(o) : r = "found" => Present(o)
    BY <2>1, SearchFacts
  <2>3. CASE ~(result = "ok" /\ ~imported)
    BY <2>1, <2>3 DEF GetProvisionedState, At, token, world, Typed
  <2>4. CASE result = "ok" /\ ~imported
    <3>1. PICK r \in Search("private"), p \in Search("public") :
            \/ Overrun
            \/ /\ \E exported \in ExportPublicKey :
                    generate' = (image.force \/ ~(r = "found" /\ p = "found" /\ exported))
               /\ pc' = "generate"
               /\ UNCHANGED <<token, world, then, todo, found, result, imported>>
      BY <2>4 DEF GetProvisionedState
    <3>2. pc = "state" /\ saving = None
      BY DEF GetProvisionedState, At
    <3>3. CASE Overrun
      BY <3>2, <3>3 DEF Overrun, token, flow
    <3>4. CASE /\ \E exported \in ExportPublicKey :
                    generate' = (image.force \/ ~(r = "found" /\ p = "found" /\ exported))
               /\ pc' = "generate"
               /\ UNCHANGED <<token, world, then, todo, found, result, imported>>
      <4>1. generate' \in BOOLEAN /\ (~generate' => r = "found" /\ p = "found")
        BY <2>1, <3>4 DEF Typed, ExportPublicKey
      <4>2. ~generate' => Present("private") /\ Present("public")
        BY <2>1, <2>2, <4>1
      <4> QED  BY <3>2, <3>4, <4>1, <4>2 DEF token, world
    <3> QED  BY <3>1, <3>3, <3>4
  <2> QED  BY <2>3, <2>4
<1>2. CASE Overrun
  BY <1>2, NothingMoves DEF Overrun
<1>3. CASE /\ pc' = "generate" /\ generate' \in BOOLEAN /\ fault' = fault
           /\ ~generate' => result # "ok" \/ imported \/ (Present("private") /\ Present("public"))
  <2>1. Typed'
    BY <1>1, <1>3 DEF IInv, Typed, Before, After
  <2>2. Stored'
    BY <1>1, <1>3 DEF IInv, Stored
  <2>3. Saved'
    BY <1>1, <1>3 DEF IInv, Saved, None
  <2>4. Decided'
    BY <1>1, <1>3 DEF IInv, Decided, Before, Tails
  <2>5. CertificateKept'
    BY <1>1, <1>3 DEF IInv, CertificateKept, Before, After
  <2>6. KeyKept'
    BY <1>1, <1>3 DEF IInv, KeyKept, Before, After, Decided
  <2>7. Gone'
    BY <1>1, <1>3 DEF IInv, Gone, Cleared
  <2>8. PublicWhole'
    BY <1>1, <1>3 DEF IInv, PublicWhole
  <2>9. Paired'
    BY <1>1, <1>3 DEF IInv, Paired
  <2>10. FoundBoth'
    BY <1>1, <1>3 DEF IInv, FoundBoth, Present
  <2>11. Made'
    BY <1>1, <1>3 DEF IInv, Made
  <2> QED  BY <2>1, <2>2, <2>3, <2>4, <2>5, <2>6, <2>7, <2>8, <2>9, <2>10, <2>11 DEF IInv
<1> QED  BY <1>1, <1>2, <1>3

LEMMA GenerateKeyPairInv == IInv /\ GenerateKeyPair => IInv'
<1> SUFFICES ASSUME IInv, GenerateKeyPair PROVE IInv'
  OBVIOUS
<1>1. /\ pc = "generate" /\ saving = None
      /\ UNCHANGED <<image, torn, fault, resets, then, todo, found, imported, generate>>
      /\ \/ /\ result' = result /\ (result # "ok" \/ ~generate) /\ pc' = "run"
            /\ UNCHANGED <<flash, saving, keys>>
         \/ result' = "error" /\ pc' = "run" /\ UNCHANGED <<flash, saving, keys>>
         \/ /\ result = "ok" /\ result' = result /\ generate /\ pc' = "private" /\ keys' = keys + 1
            /\ SaveObject("public", [thing |-> keys + 1, size |-> "fits"])
  BY DEF GenerateKeyPair, Skip, At, token, world
<1>2. CASE /\ UNCHANGED <<flash, saving, keys>> /\ pc' = "run"
           /\ \/ result' = "error"
              \/ result' = result /\ (result # "ok" \/ ~generate)
  <2>1. Typed'
    BY <1>1, <1>2 DEF IInv, Typed, Before, After
  <2>2. Stored'
    BY <1>1, <1>2 DEF IInv, Stored
  <2>3. Saved'
    BY <1>1, <1>2 DEF IInv, Saved, None
  <2>4. Decided'
    BY <1>1, <1>2 DEF IInv, Decided, Before, Tails
  <2>5. CertificateKept'
    BY <1>1, <1>2 DEF IInv, CertificateKept, Before, After
  <2>6. KeyKept'
    BY <1>1, <1>2 DEF IInv, KeyKept, Before, After
  <2>7. Gone'
    BY <1>1, <1>2 DEF IInv, Gone, Cleared
  <2>8. PublicWhole'
    BY <1>1, <1>2 DEF IInv, PublicWhole
  <2>9. Paired'
    BY <1>1, <1>2 DEF IInv, Paired
  <2>10. FoundBoth'
    BY <1>1, <1>2 DEF IInv, FoundBoth, Present
  <2>11. Made'
    BY <1>1, <1>2 DEF IInv, Made
  <2> QED  BY <2>1, <2>2, <2>3, <2>4, <2>5, <2>6, <2>7, <2>8, <2>9, <2>10, <2>11 DEF IInv
<1>3. CASE /\ result = "ok" /\ result' = result /\ generate /\ pc' = "private" /\ keys' = keys + 1
           /\ SaveObject("public", [thing |-> keys + 1, size |-> "fits"])
  <2>1. "public" \in Objects /\ keys + 1 \in Nothing..MaxKeys
    BY <1>1, BoundsAssumption, ObjectFacts DEF Nothing, IInv, Typed
  <2>2. /\ flash' \in [Objects -> Contents] /\ saving' = "public"
        /\ \A x \in Objects : x # "public" => flash'[x] = flash[x]
        /\ flash'["public"].thing = keys + 1 /\ flash'["public"].size = "fits"
        /\ flash'["public"].words = 0
    BY <1>3, <2>1, SaveBegins DEF IInv
  <2>3. Typed'
    BY <1>1, <1>3, <2>1, <2>2, ObjectFacts DEF IInv, Typed, Before, After
  <2>4. Stored'
    BY <1>1, <1>3, <2>1, <2>2, ObjectFacts DEF IInv, Stored, Typed, Certificate, Nothing, Whole
  <2>5. Saved'
    BY <1>1, <1>3, <2>1, <2>2, ObjectFacts DEF IInv, Saved
  <2>6. Decided'
    BY <1>1, <1>3, <2>1, <2>2, ObjectFacts DEF IInv, Decided, Before, Tails
  <2>7. CertificateKept'
    BY <1>1, <1>3, <2>1, <2>2, ObjectFacts DEF IInv, CertificateKept, Before, After
  <2>8. KeyKept'
    BY <1>1, <1>3, <2>1, <2>2, ObjectFacts DEF IInv, KeyKept, Before, After
  <2>9. Gone'
    BY <1>1, <1>3, <2>1, <2>2, ObjectFacts DEF IInv, Gone, Cleared
  <2>10. PublicWhole'
    BY <1>1, <1>3, <2>1, <2>2, ObjectFacts DEF IInv, PublicWhole
  <2>11. Paired'
    BY <1>1, <1>3, <2>1, <2>2, ObjectFacts DEF IInv, Paired
  <2>12. FoundBoth'
    BY <1>1, <1>3, <2>1, <2>2, ObjectFacts DEF IInv, FoundBoth, Present
  <2>13. Made'
    BY <1>1, <1>3, <2>1, <2>2, ObjectFacts DEF IInv, Made, Typed
  <2> QED  BY <2>3, <2>4, <2>5, <2>6, <2>7, <2>8, <2>9, <2>10, <2>11, <2>12, <2>13 DEF IInv
<1> QED  BY <1>1, <1>2, <1>3

LEMMA SavePrivateKeyInv == IInv /\ SavePrivateKey => IInv'
<1> SUFFICES ASSUME IInv, SavePrivateKey PROVE IInv'
  OBVIOUS
<1>1. /\ pc = "private" /\ saving = None /\ pc' = "run" /\ torn' = FALSE
      /\ UNCHANGED <<image, keys, fault, resets, then, todo, found, result, imported, generate>>
      /\ SaveObject("private", [thing |-> keys, size |-> "fits"])
  BY DEF SavePrivateKey, At
<1>2. "private" \in Objects /\ keys \in Nothing..MaxKeys
  BY <1>1, BoundsAssumption, ObjectFacts DEF Nothing, IInv, Typed
<1>3. /\ flash' \in [Objects -> Contents] /\ saving' = "private"
      /\ \A x \in Objects : x # "private" => flash'[x] = flash[x]
      /\ flash'["private"].thing = keys /\ flash'["private"].size = "fits"
      /\ flash'["private"].words = 0
  BY <1>1, <1>2, SaveBegins DEF IInv
<1>4. Typed'
  BY <1>1, <1>2, <1>3, ObjectFacts DEF IInv, Typed, Before, After
<1>5. Stored'
  BY <1>1, <1>2, <1>3, ObjectFacts DEF IInv, Stored, Typed, Certificate, Nothing, Whole
<1>6. Saved'
  BY <1>1, <1>2, <1>3, ObjectFacts DEF IInv, Saved, Decided
<1>7. Decided'
  BY <1>1, <1>2, <1>3, ObjectFacts DEF IInv, Decided, Before, Tails
<1>8. CertificateKept'
  BY <1>1, <1>2, <1>3, ObjectFacts DEF IInv, CertificateKept, Before, After
<1>9. KeyKept'
  BY <1>1, <1>2, <1>3, ObjectFacts DEF IInv, KeyKept, Before, After, Decided
<1>10. Gone'
  BY <1>1, <1>2, <1>3, ObjectFacts DEF IInv, Gone, Cleared
<1>11. PublicWhole'
  BY <1>1, <1>2, <1>3, ObjectFacts DEF IInv, PublicWhole, Made, None
<1>12. Paired'
  BY <1>1, <1>2, <1>3, ObjectFacts DEF IInv, Paired, Made
<1>13. FoundBoth'
  BY <1>1, <1>2, <1>3, ObjectFacts DEF IInv, FoundBoth, Present, Decided
<1>14. Made'
  BY <1>1, <1>2, <1>3, ObjectFacts DEF IInv, Made, Decided
<1> QED  BY <1>4, <1>5, <1>6, <1>7, <1>8, <1>9, <1>10, <1>11, <1>12, <1>13, <1>14 DEF IInv

(* One word more. Only a certificate that fills its sector erases what is  *)
(* behind it, which is before the private key is looked at.                *)
LEMMA WriteWordInv == IInv /\ WriteWord => IInv'
<1> SUFFICES ASSUME IInv, WriteWord PROVE IInv'
  OBVIOUS
<1> DEFINE n == flash[saving].words + 1
           over == n = Whole /\ flash[saving].size = "edge"
<1>1. /\ saving \in Objects
      /\ UNCHANGED <<image, keys, torn, fault, resets>>
      /\ UNCHANGED <<pc, then, todo, found, result, imported, generate>>
      /\ saving' = IF n = Whole THEN None ELSE saving
      /\ flash' = [o \in Objects |->
                     IF o = saving THEN [flash[o] EXCEPT !.words = n]
                     ELSE IF over /\ o \in NextSector(saving) THEN Erased ELSE flash[o]]
  BY DEF WriteWord, flow, world, IInv, Typed
<1>2. flash \in [Objects -> Contents] /\ n \in 1..Whole /\ Erased \in Contents
  <2>1. Erased \in Contents
    BY BoundsAssumption DEF Erased, Contents, Nothing, Whole
  <2>2. flash[saving].words \in 0..Whole /\ flash[saving].words < Whole
    BY <1>1, ObjectFacts DEF IInv, Typed, Stored, Contents
  <2> QED  BY <2>1, <2>2 DEF IInv, Typed, Whole
<1>3. over => saving = "cert" /\ pc \in {"destroy", "privateKey"} /\ NextSector(saving) = {"private"}
  BY <1>1, ObjectFacts DEF IInv, Stored, Saved
<1>4. /\ flash' \in [Objects -> Contents] /\ saving' \in {saving, None}
      /\ saving' = None => n = Whole
      /\ saving' # None => n < Whole
  BY <1>1, <1>2, ObjectFacts DEF Contents, Whole
<1>5. /\ flash'[saving].thing = flash[saving].thing /\ flash'[saving].size = flash[saving].size
      /\ flash'[saving].words = n
  BY <1>1, <1>2 DEF Contents
<1>6. \A x \in Objects : x # saving =>
        \/ flash'[x] = flash[x]
        \/ /\ x = "private" /\ saving = "cert" /\ pc \in {"destroy", "privateKey"}
           /\ flash'[x].thing = Nothing /\ flash'[x].size = "fits" /\ flash'[x].words = 0
  BY <1>1, <1>3 DEF Erased
<1> HIDE DEF n, over
<1>7. Typed'
  BY <1>1, <1>2, <1>4, <1>5, <1>6, ObjectFacts DEF IInv, Typed, Before, After
<1>8. Stored'
  BY <1>1, <1>2, <1>4, <1>5, <1>6, ObjectFacts DEF IInv, Stored, Nothing, Certificate, Whole
<1>9. Saved'
  BY <1>1, <1>2, <1>4, <1>5, <1>6, ObjectFacts DEF IInv, Saved, Zeros
<1>10. Decided'
  BY <1>1, <1>2, <1>4, <1>5, <1>6, ObjectFacts DEF IInv, Decided, Before, Tails
<1>11. CertificateKept'
  BY <1>1, <1>2, <1>4, <1>5, <1>6, ObjectFacts DEF IInv, CertificateKept, Before, After
<1>12. KeyKept'
  BY <1>1, <1>2, <1>4, <1>5, <1>6, ObjectFacts DEF IInv, KeyKept, Before, After
<1>13. Gone'
  BY <1>1, <1>2, <1>4, <1>5, <1>6, ObjectFacts DEF IInv, Gone, Cleared
<1>14. PublicWhole'
  <2>1. CASE saving = "public"
    <3>1. flash["public"].words # Whole
      BY <1>1, <1>2, <2>1, ObjectFacts DEF IInv, Stored, Contents, Whole
    <3>2. UNCHANGED torn /\ flash'["public"].thing = flash["public"].thing
      BY <1>1, <1>5, <2>1
    <3>3. flash'["public"].words = Whole \/ saving' = "public"
      BY <1>4, <1>5, <2>1, ObjectFacts
    <3> QED  BY <1>1, <3>1, <3>2, <3>3 DEF IInv, PublicWhole
  <2>2. CASE saving # "public"
    BY <1>1, <1>6, <2>2, ObjectFacts DEF IInv, PublicWhole
  <2> QED  BY <2>1, <2>2
<1>15. Paired'
  BY <1>1, <1>2, <1>4, <1>5, <1>6, ObjectFacts DEF IInv, Paired, Nothing
<1>16. FoundBoth'
  BY <1>1, <1>2, <1>4, <1>5, <1>6, ObjectFacts DEF IInv, FoundBoth, Present, Saved
<1>17. Made'
  BY <1>1, <1>2, <1>4, <1>5, <1>6, ObjectFacts DEF IInv, Made, Stored, Saved
<1> QED  BY <1>7, <1>8, <1>9, <1>10, <1>11, <1>12, <1>13, <1>14, <1>15, <1>16, <1>17 DEF IInv

LEMMA ResetInv == IInv /\ Reset => IInv'
<1> SUFFICES ASSUME IInv, Reset PROVE IInv'
  OBVIOUS
<1>1. /\ resets < MaxResets /\ resets' = resets + 1 /\ image' \in Images
      /\ torn' = (torn \/ pc = "private" \/ (pc = "run" /\ saving = "private" /\ generate))
      /\ pc' = "boot" /\ saving' = None /\ fault' = "none" /\ todo' = <<>>
      /\ UNCHANGED <<flash, then, found, result, imported, generate, keys>>
  BY DEF Reset
<1>2. Typed'
  BY <1>1, BoundsAssumption DEF IInv, Typed, Before, After
<1>3. Stored'
  BY <1>1, ObjectFacts DEF IInv, Stored
<1>4. Saved'
  BY <1>1, ObjectFacts DEF IInv, Saved
<1>5. Decided'
  BY <1>1, ObjectFacts DEF IInv, Decided, Before, Tails
<1>6. CertificateKept'
  BY <1>1, ObjectFacts DEF IInv, CertificateKept, Before, After
<1>7. KeyKept'
  BY <1>1, ObjectFacts DEF IInv, KeyKept, Before, After
<1>8. Gone'
  BY <1>1, ObjectFacts DEF IInv, Gone, Cleared
<1>9. PublicWhole'
  BY <1>1, ObjectFacts DEF IInv, PublicWhole
<1>10. Paired'
  BY <1>1, ObjectFacts DEF IInv, Paired
<1>11. FoundBoth'
  BY <1>1, ObjectFacts DEF IInv, FoundBoth, Present
<1>12. Made'
  BY <1>1, ObjectFacts DEF IInv, Made
<1> QED  BY <1>2, <1>3, <1>4, <1>5, <1>6, <1>7, <1>8, <1>9, <1>10, <1>11, <1>12 DEF IInv

LEMMA InvStep == IInv /\ [Next]_vars => IInv'
<1> SUFFICES ASSUME IInv, [Next]_vars PROVE IInv'
  OBVIOUS
<1>1. CASE OpenSession
  BY <1>1, OpenSessionInv
<1>2. CASE DestroyLabel
  BY <1>2, DestroyLabelInv
<1>3. CASE DestroyLabelsDone
  BY <1>3, DestroyLabelsDoneInv
<1>4. CASE ProvisionCertificate
  BY <1>4, ProvisionCertificateInv
<1>5. CASE CreateCertificate
  BY <1>5, CreateCertificateInv
<1>6. CASE ProvisionPrivateKey
  BY <1>6, ProvisionPrivateKeyInv
<1>7. CASE ProvisionJitp
  BY <1>7, ProvisionJitpInv
<1>8. CASE GetProvisionedState
  BY <1>8, GetProvisionedStateInv
<1>9. CASE GenerateKeyPair
  BY <1>9, GenerateKeyPairInv
<1>10. CASE SavePrivateKey
  BY <1>10, SavePrivateKeyInv
<1>11. CASE WriteWord
  BY <1>11, WriteWordInv
<1>12. CASE Reset
  BY <1>12, ResetInv
<1>13. CASE UNCHANGED vars
  <2>1. fault' \in {"none", "overrun"}
    BY <1>13 DEF vars, world, IInv, Typed
  <2>2. UNCHANGED <<token, flow, image, keys, torn, resets>>
    BY <1>13 DEF vars, world
  <2> QED  BY <2>1, <2>2, NothingMoves
<1> QED
  BY <1>1, <1>2, <1>3, <1>4, <1>5, <1>6, <1>7, <1>8, <1>9, <1>10, <1>11, <1>12, <1>13
     DEF Next, Task

LEMMA Inductive == Spec => []IInv
<1> QED  BY InvInit, InvStep, PTL DEF Spec

-----------------------------------------------------------------------------
(* The theorems.                                                           *)

LEMMA TypedIsOK == IInv => TypeOK
<1> SUFFICES ASSUME IInv PROVE TypeOK
  OBVIOUS
<1>1. keys \in Keys
  BY BoundsAssumption DEF IInv, Typed, Keys
<1>2. todo \in Seq(Objects)
  <2>1. todo \in Tails \cup {<<"cert">>}
    BY DEF IInv, Decided, Tails
  <2> QED
    <3>1. <<>> \in Seq(Objects) /\ <<"cert">> \in Seq(Objects) /\ <<"public">> \in Seq(Objects)
      BY ObjectFacts
    <3>2. <<"private", "public">> \in Seq(Objects)
      BY ObjectFacts
    <3>3. <<"code", "private", "public">> \in Seq(Objects)
      BY ObjectFacts
    <3>4. <<"cert", "code", "private", "public">> \in Seq(Objects)
      BY ObjectFacts
    <3> QED  BY <2>1, <3>1, <3>2, <3>3, <3>4 DEF Tails
<1> QED  BY <1>1, <1>2 DEF IInv, Typed, TypeOK, Before, After

\* Every variable of provisioning and of the sectors keeps its type: as a start generates
\* at most one pair, the starts bound the pairs.
THEOREM ProvisioningTyped == Spec => []TypeOK
<1> QED  BY Inductive, TypedIsOK, PTL

LEMMA ProvidedWhole == IInv => ProvidedStored
<1> SUFFICES ASSUME IInv, Provisioned PROVE
      /\ image.cert \notin {None, "large"} =>
           Is("cert", Certificate) /\ flash["cert"].size = image.cert
      /\ imported /\ ~generate => Is("private", 0)
  BY DEF ProvidedStored
<1> QED  BY ObjectFacts DEF Provisioned, IInv, CertificateKept, KeyKept, After, Is

(* What xProvisionDevice reports as success is in flash, whole: the        *)
(* certificate of the image that runs, unless too large for its sector,    *)
(* and its private key, unless a pair was generated over it, whatever      *)
(* earlier starts left behind.                                             *)
THEOREM ProvidedIsStored == Spec => []ProvidedStored
<1> QED  BY Inductive, ProvidedWhole, PTL

LEMMA PairedWhole == IInv => PairMatches
<1> SUFFICES ASSUME IInv, Provisioned, ~imported, ~torn
             PROVE  \E k \in Keys \ {0} : Is("private", k) /\ Is("public", k)
  BY DEF PairMatches
<1>1. /\ pc = "run" /\ saving = None /\ result = "ok" /\ generate \in BOOLEAN
      /\ flash["private"] \in Contents /\ flash["public"] \in Contents
  BY ObjectFacts DEF Provisioned, IInv, Typed
<1>2. CASE generate
  <2>1. Is("private", keys) /\ Is("public", keys) /\ keys > 0
    BY <1>1, <1>2, ObjectFacts DEF IInv, Made, Is
  <2>2. keys \in Keys
    BY BoundsAssumption DEF IInv, Typed, Keys
  <2> QED  BY <2>1, <2>2
<1>3. CASE ~generate
  <2>1. Present("private") /\ Present("public")
    BY <1>1, <1>3 DEF IInv, FoundBoth
  <2>2. /\ flash["public"].thing \in 1..MaxKeys
        /\ flash["private"].thing \in 0..MaxKeys
    BY <1>1, <2>1, BoundsAssumption, ObjectFacts
       DEF IInv, Stored, Contents, Present, Whole, Nothing, Zeros, Certificate
  <2>3. flash["private"].thing = flash["public"].thing
    BY <1>1, <2>2, BoundsAssumption DEF IInv, Paired
  <2> QED  BY <2>1, <2>2, <2>3, BoundsAssumption DEF Present, Is, Keys
<1> QED  BY <1>1, <1>2, <1>3

(* A device that made its own key has both halves of one pair whenever     *)
(* provisioning reports success, unless power was lost between the halves  *)
(* and none was made since.                                                *)
THEOREM PairsMatch == Spec => []PairMatches
<1> QED  BY Inductive, PairedWhole, PTL
=============================================================================
