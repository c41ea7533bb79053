-------------------------------- MODULE X3DH --------------------------------
(***************************************************************************)
(* The X3DH key agreement, client/crypto/x3dh.py.  The session key is the  *)
(* KDF of the concatenated Diffie-Hellman outputs; the KDF being one-way   *)
(* and collision free, the term that stands for the key is the record of   *)
(* its inputs, with the empty set for the fourth when no one-time prekey   *)
(* takes part.  The relay hands out genuine bundles, so the check of the   *)
(* signature over the signed prekey passes and is left out.                *)
(***************************************************************************)
EXTENDS Keys

SecretKey == [dh1 : SUBSET Key, dh2 : SUBSET Key,
              dh3 : SUBSET Key, dh4 : SUBSET Key]

X3dhHeader == [ik : Key, ek : Key, opk_id : Nat \cup {None}]

(* A header that is attached is there. *)
ASSUME NoneIsNoHeader == None \notin X3dhHeader

(* The prekey the initiator uses: the first the bundle offers, if any. *)
ChosenOpk(bundle) == IF bundle.opks = {} THEN None ELSE FirstOpk(bundle.opks)

(* The prekey itself belongs to the identity of the bundle.                *)
BundleOpk(bundle) ==
    OPK(bundle.spk.owner, bundle.spk.gen, ChosenOpk(bundle))

(* x3dh_send: the user of identity key ik runs X3DH against a bundle.      *)
X3dhSecretSend(ik, bundle, ek) ==
    [dh1 |-> DH(ik, bundle.spk),
     dh2 |-> DH(ek, bundle.ik),
     dh3 |-> DH(ek, bundle.spk),
     dh4 |-> IF ChosenOpk(bundle) = None THEN {}
             ELSE DH(ek, BundleOpk(bundle))]

X3dhHeaderSend(ik, bundle, ek) ==
    [ik |-> ik, ek |-> ek, opk_id |-> ChosenOpk(bundle)]

(* x3dh_receive raises when the header names a prekey that is not held. *)
OpkHeld(opks, header) == header.opk_id = None \/ header.opk_id \in opks

(* The responder takes DH2 with its signed prekey. *)
MutX3dhSecretReceive(b, g, header) ==
    [dh1 |-> DH(SPK(b, g), header.ik),
     dh2 |-> DH(SPK(b, g), header.ek),
     dh3 |-> DH(SPK(b, g), header.ek),
     dh4 |-> IF header.opk_id = None THEN {}
             ELSE DH(OPK(b, g, header.opk_id), header.ek)]

(* x3dh_receive: user b, of identity g, mirrors the four steps from the    *)
(* header.  The header does not say which identity it was made for.        *)
X3dhSecretReceive(b, g, header) ==
    [dh1 |-> DH(SPK(b, g), header.ik),
     dh2 |-> DH(IK(b, g), header.ek),
     dh3 |-> DH(SPK(b, g), header.ek),
     dh4 |-> IF header.opk_id = None THEN {}
             ELSE DH(OPK(b, g, header.opk_id), header.ek)]
=============================================================================
