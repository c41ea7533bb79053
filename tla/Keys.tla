-------------------------------- MODULE Keys --------------------------------
(***************************************************************************)
(* Key material of the messenger, client/crypto/keys.py, as symbolic       *)
(* terms.  A key pair is named by its public key, a record that says whose *)
(* it is, what it is for, to which identity of its owner it belongs (if it *)
(* does) and which one of its kind it is; generating a key pair means      *)
(* taking a name nobody has used.  Encodings (base64, raw bytes, JSON) are *)
(* injective and are left out.                                             *)
(***************************************************************************)
EXTENDS Integers

CONSTANTS User,     \* usernames
          None      \* Python's None

Kind == {"ik", "spk", "opk", "ek", "dh"}

Key == [kind : Kind, owner : User, gen : Nat, id : Nat]

(* None is no key, no id and no structured value of the program. *)
ASSUME NoneAssumption ==
    /\ None \notin Key
    /\ None \notin Nat

(* The identity key and the signed prekey of u's identity g; an identity   *)
(* has one of each, LocalIdentity.generate sets spk_id to 0.               *)
IK(u, g)  == [kind |-> "ik",  owner |-> u, gen |-> g, id |-> 0]
SPK(u, g) == [kind |-> "spk", owner |-> u, gen |-> g, id |-> 0]

(* The ids of the one-time prekeys are the same in every identity.         *)
OPK(u, g, i) == [kind |-> "opk", owner |-> u, gen |-> g, id |-> i]

(* The ephemeral key of an X3DH run, a ratchet key pair. *)
EK(u, i)         == [kind |-> "ek", owner |-> u, gen |-> 0, id |-> i]
RatchetKey(u, i) == [kind |-> "dh", owner |-> u, gen |-> 0, id |-> i]

(* X25519: both sides of a pair of key pairs compute the same secret, and  *)
(* no other pair of key pairs gives it.                                    *)
DH(a, b) == {a, b}

(* The ids of the one-time prekeys of a new identity. *)
GeneratedOpks(num_opks) == 0 .. (num_opks - 1)

(* A prekey that is never removed. *)
MutPopOpk(opks, opk_id) == opks

(* The local prekeys once opk_id is taken out; a missing id takes nothing. *)
PopOpk(opks, opk_id) == opks \ {opk_id}

(* The lists of prekeys are in the order of their ids from generation on,  *)
(* and only ever lose members: their first element is the least id.        *)
FirstOpk(opks) == CHOOSE i \in opks : \A j \in opks : i <= j

(* public_bundle of u's identity g, the list of prekeys being opks. *)
PublicBundle(u, g, opks) == [ik |-> IK(u, g), spk |-> SPK(u, g), opks |-> opks]
=============================================================================
