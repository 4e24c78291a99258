---------------------------- MODULE Provisioning ----------------------------
(***************************************************************************)
(* The credentials of the device: aws_dev_mode_key_provisioning.c, which   *)
(* runs once after every start and brings those of the image, or a key     *)
(* pair of its own, into the PKCS #11 token; and core_pkcs11_pal.c, which  *)
(* keeps each object in a sector of flash, word by word. Power may be lost *)
(* between any two of them, and another image be flashed.                  *)
(*                                                                         *)
(* corePKCS11 between the two is external: it looks an object up by its    *)
(* label, takes one of zeros for none, and saves the public key of a pair  *)
(* before the private one.                                                 *)
(***************************************************************************)
EXTENDS Integers, Sequences

CONSTANTS
  Images,     \* what may be flashed, and what aws_clientcredential_keys.h gives it
  Sizes,      \* of a certificate: "fits", "edge", "large"
  MaxKeys,    \* bound: key pairs generated
  MaxResets   \* bound: losses of power

None == "none"

ASSUME ImagesAssumption ==
  /\ Sizes \subseteq {"fits", "edge", "large"}
  /\ \A i \in Images :
       /\ i.cert \in Sizes \cup {None} /\ {i.key, i.jitp, i.force} \subseteq BOOLEAN
       /\ i.key => i.cert # None
ASSUME BoundsAssumption == MaxKeys \in Nat /\ MaxResets \in 0..(MaxKeys - 1)

VARIABLES
  flash,      \* [Objects -> the object last saved, and how many words of it are there]
  saving,     \* the object being saved, or None
  image,      \* the image that runs
  pc, then,   \* the step of provisioning, and that which follows a destruction
  todo,       \* labels still to be destroyed
  found,      \* result of the last label destroyed
  result,     \* xResult
  imported,   \* xImportedPrivateKey
  generate,   \* xKeyPairGenerationMode
  keys,       \* key pairs generated so far
  torn,       \* a reset came between the two halves of a pair
  fault,      \* a read ran beyond the object
  resets

token == <<flash, saving>>
flow  == <<pc, then, todo, found, result, imported, generate>>
world == <<image, keys, torn, fault, resets>>
vars  == <<token, flow, world>>

\* The sectors, in the order they have in flash.
Sectors == <<"cert", "private", "public", "code">>
Objects == {Sectors[i] : i \in 1..4}

\* mark, checksum, length, the first half of the data, all of it.
Whole == 5

\* What a sector may hold, of some size: a key, 0 being that of the image, or another thing.
Nothing     == -3
Zeros       == -2
Certificate == -1
Keys     == 0..MaxKeys
Contents == [thing : Nothing..MaxKeys, size : Sizes \cup {"fits"}, words : 0..Whole]
Erased   == [thing |-> Nothing, size |-> "fits", words |-> 0]

Is(o, thing) == flash[o].thing = thing /\ flash[o].words = Whole

\* PKCS11_PAL_FindObject: the mark is there.
FindObject(o) == o \in Objects /\ flash[o].words > 0

GetWithoutChecksum(o) ==
  CASE flash[o].words < 3     -> {"overrun", "failed"}
    [] OTHER                  -> {"ok", "memory"}

\* PKCS11_PAL_GetObjectValue of an object that was found: an unwritten length makes the
\* checksum run through all of memory, and an unwritten byte does not match it.
GetObjectValue(o) ==
  CASE flash[o].words < 3             -> {"overrun", "failed"}
    [] flash[o].words \in 3..Whole - 1 -> {"failed", "memory"}
    [] OTHER                          -> {"ok", "memory"}

\* What corePKCS11 makes of it for xFindObjectWithLabelAndClass.
Search(o) ==
  IF ~FindObject(o) THEN {"absent"}
  ELSE {IF r = "ok" THEN IF Is(o, Zeros) THEN "absent" ELSE "found" ELSE r
          : r \in GetObjectValue(o)}

----------------------------------------------------------------------------
SaveShort(o, v) ==
  IF v.size # "fits"
    THEN UNCHANGED token
    ELSE /\ saving' = o
         /\ flash' = [flash EXCEPT ![o] = [thing |-> v.thing, size |-> v.size, words |-> 0]]

(* PKCS11_PAL_SaveObject. Its handle is that of the label, even when the   *)
(* data is too large for the sector and nothing is written.                *)
SaveObject(o, v) ==
  IF v.size = "large"
    THEN UNCHANGED token
    ELSE /\ saving' = o
         /\ flash' = [flash EXCEPT ![o] = [thing |-> v.thing, size |-> v.size, words |-> 0]]

\* One more word. The terminator behind data that fills the sector is the next one's mark.
NextSector(o) == {Sectors[i + 1] : i \in {j \in 1..3 : Sectors[j] = o}}
WriteWord ==
  /\ saving # None
  /\ LET n == flash[saving].words + 1
         over == n = Whole /\ flash[saving].size = "edge"
     IN  /\ flash' = [o \in Objects |->
                        IF o = saving THEN [flash[o] EXCEPT !.words = n]
                        ELSE IF over /\ o \in NextSector(saving) THEN Erased ELSE flash[o]]
         /\ saving' = IF n = Whole THEN None ELSE saving
  /\ UNCHANGED <<flow, world>>

DestroyKeepsData(o) == SaveObject(o, [thing |-> flash[o].thing, size |-> flash[o].size])

\* PKCS11_PAL_DestroyObject: zeros over the object.
DestroyObject(o) == SaveObject(o, [thing |-> Zeros, size |-> flash[o].size])

At(step) == pc = step /\ saving = None /\ fault = "none"

\* A step of xProvisionDevice that is skipped once another has failed.
Skip(step, cond, next) ==
  /\ At(step) /\ ~cond /\ pc' = next
  /\ UNCHANGED <<token, world, then, todo, found, result, imported, generate>>

Overrun ==
  fault' = "overrun" /\ UNCHANGED <<token, flow, image, keys, torn, resets>>

----------------------------------------------------------------------------
(* vDevModeKeyProvisioning, vAlternateKeyProvisioning: the session, then   *)
(* xProvisionDevice, which destroys what is there if the image has both a  *)
(* certificate and a key to replace it.                                    *)
OpenSession ==
  /\ At("boot")
  /\ imported' = FALSE /\ generate' = FALSE /\ found' = "ok"
  /\ \/ result' = "error" /\ pc' = "run" /\ UNCHANGED <<then, todo>>
     \/ /\ result' = "ok"
        /\ IF image.cert # None /\ image.key
             THEN pc' = "destroy" /\ then' = "certificate"
                  /\ todo' = <<"cert", "code", "private", "public">>
             ELSE pc' = "certificate" /\ UNCHANGED <<then, todo>>
  /\ UNCHANGED <<token, world>>

(* xDestroyProvidedObjects: a label is looked for and destroyed until it   *)
(* is no longer found, or until that fails. The result is that of the last *)
(* label.                                                                  *)
DestroyLabel ==
  /\ At("destroy") /\ todo # <<>>
  /\ \E r \in Search(Head(todo)) :
       \/ r = "overrun" /\ Overrun
       \/ /\ r = "found"
          /\ \/ DestroyObject(Head(todo)) /\ UNCHANGED <<todo, found>>
             \/ todo' = Tail(todo) /\ found' = "error" /\ UNCHANGED token
          /\ UNCHANGED <<world, pc, then, result, imported, generate>>
       \/ /\ r \in {"absent", "failed", "memory"}
          /\ todo' = Tail(todo) /\ found' = IF r = "absent" THEN "ok" ELSE "error"
          /\ UNCHANGED <<token, world, pc, then, result, imported, generate>>

DestroyLabelsDone ==
  /\ At("destroy") /\ todo = <<>>
  /\ pc' = then
  /\ result' = IF then = "certificate" THEN found ELSE result
  /\ UNCHANGED <<token, world, then, todo, found, imported, generate>>

(* xProvisionCertificate: converted, what has its label destroyed whatever *)
(* the result, and created.                                                *)
ProvisionCertificate ==
  LET goes == result = "ok" /\ image.cert # None IN
  \/ Skip("certificate", goes, "privateKey")
  \/ /\ At("certificate") /\ goes
     /\ \/ result' = "error" /\ pc' = "privateKey" /\ UNCHANGED <<then, todo>>
        \/ pc' = "destroy" /\ then' = "create" /\ todo' = <<"cert">> /\ UNCHANGED result
     /\ UNCHANGED <<token, world, found, imported, generate>>

CreateCertificate ==
  /\ At("create")
  /\ pc' = "privateKey"
  /\ \/ SaveObject("cert", [thing |-> Certificate, size |-> image.cert]) /\ UNCHANGED result
     \/ result' = "error" /\ UNCHANGED token
  /\ UNCHANGED <<world, then, todo, found, imported, generate>>

\* An RSA or an EC key of the image is created; either may be refused.
CreatePrivateKey ==
  /\ SaveObject("private", [thing |-> 0, size |-> "fits"])
  /\ imported' = TRUE /\ UNCHANGED result

(* xProvisionPrivateKey: parsed, and created according to its kind.        *)
ProvisionPrivateKey ==
  LET goes == result = "ok" /\ image.key IN
  \/ Skip("privateKey", goes, "jitp")
  \/ /\ At("privateKey") /\ goes
     /\ pc' = "jitp"
     /\ \/ CreatePrivateKey
        \/ result' = "error" /\ UNCHANGED <<token, imported>>
     /\ UNCHANGED <<world, then, todo, found, generate>>

\* The JITP certificate has no sector: CKR_DEVICE_MEMORY is taken for success.
ProvisionJitp ==
  LET goes == result = "ok" /\ image.jitp IN
  \/ Skip("jitp", goes, "state")
  \/ /\ At("jitp") /\ goes
     /\ pc' = "state" /\ result' \in {"ok", "error"}
     /\ UNCHANGED <<token, world, then, todo, found, imported, generate>>

\* Whether the public key can be read back, for want of memory or of its attributes.
ExportPublicKey == BOOLEAN

(* prvGetProvisionedState: a pair is generated if one of its keys is not   *)
(* found or the public one cannot be exported; errors are ignored.         *)
GetProvisionedState ==
  LET goes == result = "ok" /\ ~imported IN
  \/ /\ At("state") /\ ~goes
     /\ generate' = image.force /\ pc' = "generate"
     /\ UNCHANGED <<token, world, then, todo, found, result, imported>>
  \/ /\ At("state") /\ goes
     /\ \E r \in Search("private"), p \in Search("public") :
          \/ "overrun" \in {r, IF r = "found" THEN p ELSE r} /\ Overrun
          \/ /\ "overrun" \notin {r, IF r = "found" THEN p ELSE r}
             /\ \E exported \in ExportPublicKey :
                  generate' = (image.force \/ ~(r = "found" /\ p = "found" /\ exported))
             /\ pc' = "generate"
             /\ UNCHANGED <<token, world, then, todo, found, result, imported>>

(* xProvisionGenerateKeyPairEC, after the delay: the public half, then the *)
(* private one.                                                            *)
GenerateKeyPair ==
  LET goes == result = "ok" /\ generate IN
  \/ Skip("generate", goes, "run")
  \/ /\ At("generate") /\ goes
     /\ \/ /\ keys' = keys + 1 /\ SaveObject("public", [thing |-> keys + 1, size |-> "fits"])
           /\ pc' = "private" /\ UNCHANGED result
        \/ result' = "error" /\ pc' = "run" /\ UNCHANGED <<token, keys>>
     /\ UNCHANGED <<image, torn, fault, resets, then, todo, found, imported, generate>>

SavePrivateKey ==
  /\ At("private")
  /\ SaveObject("private", [thing |-> keys, size |-> "fits"])
  /\ torn' = FALSE /\ pc' = "run"
  /\ UNCHANGED <<image, keys, fault, resets, then, todo, found, result, imported, generate>>

(* Power is lost, at any moment, and the device starts again, with another *)
(* image or the same.                                                      *)
Reset ==
  /\ resets < MaxResets /\ resets' = resets + 1
  /\ image' \in Images
  /\ torn' = (torn \/ pc = "private" \/ (pc = "run" /\ saving = "private" /\ generate))
  /\ pc' = "boot" /\ saving' = None /\ fault' = "none" /\ todo' = <<>>
  /\ UNCHANGED <<flash, then, found, result, imported, generate, keys>>

Init ==
  /\ flash = [o \in Objects |-> Erased] /\ saving = None
  /\ image \in Images
  /\ pc = "boot" /\ then = "certificate" /\ todo = <<>> /\ found = "ok"
  /\ result = "ok" /\ imported = FALSE /\ generate = FALSE
  /\ keys = 0 /\ torn = FALSE /\ fault = "none" /\ resets = 0

Task ==
  \/ OpenSession \/ DestroyLabel \/ DestroyLabelsDone
  \/ ProvisionCertificate \/ CreateCertificate \/ ProvisionPrivateKey \/ ProvisionJitp
  \/ GetProvisionedState \/ GenerateKeyPair \/ SavePrivateKey \/ WriteWord

Next == Task \/ Reset

Spec     == Init /\ [][Next]_vars
FairSpec == Spec /\ WF_vars(Task)

----------------------------------------------------------------------------
\* Every variable stays in its type.
TypeOK ==
  /\ flash \in [Objects -> Contents] /\ saving \in Objects \cup {None}
  /\ image \in Images
  /\ pc \in {"boot", "destroy", "certificate", "create", "privateKey", "jitp", "state",
             "generate", "private", "run"}
  /\ then \in {"certificate", "create"}
  /\ todo \in Seq(Objects) /\ found \in {"ok", "error"} /\ result \in {"ok", "error"}
  /\ imported \in BOOLEAN /\ generate \in BOOLEAN
  /\ keys \in Keys /\ torn \in BOOLEAN /\ fault \in {"none", "overrun"}
  /\ resets \in 0..MaxResets

Provisioned == pc = "run" /\ saving = None /\ result = "ok" /\ fault = "none"

(* When provisioning reports success, the token holds what the image       *)
(* brought, whole, whatever was torn before: the certificate, unless it is *)
(* too large, and the private key, unless a pair was generated over it.    *)
ProvidedStored ==
  Provisioned =>
    /\ image.cert \notin {None, "large"} => Is("cert", Certificate) /\ flash["cert"].size = image.cert
    /\ imported /\ ~generate => Is("private", 0)

(* A device that did not bring its key has the two halves of one pair,     *)
(* unless power was lost between them and nothing was generated since.     *)
PairMatches ==
  Provisioned /\ ~imported /\ ~torn =>
    \E k \in Keys \ {0} : Is("private", k) /\ Is("public", k)

(* Provisioning ends: in particular, what is destroyed is not found again. *)
ProvisioningEnds ==
  (pc = "boot") ~> (pc = "run" \/ fault # "none")
=============================================================================
