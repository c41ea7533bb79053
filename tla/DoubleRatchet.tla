--------------------------- MODULE DoubleRatchet ---------------------------
(***************************************************************************)
(* The Double Ratchet of client/crypto/double_ratchet.py as operators on   *)
(* ratchet states.                                                         *)
(*                                                                         *)
(* A root key is the X3DH session key followed by the Diffie-Hellman       *)
(* outputs mixed into it; a chain key is the root key it was derived with  *)
(* and the number of chain steps taken since; the message key a chain step *)
(* gives is named by the chain key the step started from.  The KDFs are    *)
(* one-way and collision free, AES-GCM opens a ciphertext with the key     *)
(* that sealed it and with no other.  The header, authenticated as         *)
(* associated data, is never altered on its way and plays no other part.   *)
(***************************************************************************)
EXTENDS Sequences, X3DH

CONSTANT MAX_SKIP     \* how far one call may skip ahead in a receive chain

ASSUME MaxSkipAssumption == MAX_SKIP \in Nat

RootKey    == [sk : SecretKey, dhs : Seq(SUBSET Key)]
ChainKey   == [root : RootKey, n : Nat]
MessageKey == ChainKey

(* A chain that is there is not None. *)
ASSUME NoneIsNoChainKey == None \notin ChainKey

Header     == [dh_pub : Key, pn : Nat, n : Nat]

(* An entry of the skipped-key dictionary, (dh_pub, n) |-> key. *)
SkippedKey == [dh : Key, n : Nat, key : MessageKey]

RatchetState ==
    [dh_self : Key, dh_remote : Key \cup {None},
     root_key : RootKey,
     send_ck : ChainKey \cup {None}, recv_ck : ChainKey \cup {None},
     send_n : Nat, recv_n : Nat, prev_send_n : Nat,
     skipped : SUBSET SkippedKey]

(* Nor is a state. *)
ASSUME NoneIsNoState == None \notin RatchetState

-----------------------------------------------------------------------------
(* The KDFs. *)

(* _kdf_rk: the new root key; the chain key derived with it starts at 0. *)
KdfRk(root, dh) == [root EXCEPT !.dhs = Append(@, dh)]
FirstChainKey(root) == [root |-> root, n |-> 0]

(* The chain does not advance: its next message key is the same again. *)
MutKdfCk(ck) == ck

(* _kdf_ck: the next chain key; the message key is named by ck itself. *)
KdfCk(ck) == [ck EXCEPT !.n = @ + 1]

(* The chain key i steps after ck. *)
ChainKeyAfter(ck, i) == [ck EXCEPT !.n = @ + i]

-----------------------------------------------------------------------------
(* The first state of a session, on either side. *)

InitSender(sk, remote, fresh) ==
    LET root == KdfRk([sk |-> sk, dhs |-> << >>], DH(fresh, remote)) IN
    [dh_self |-> fresh, dh_remote |-> remote, root_key |-> root,
     send_ck |-> FirstChainKey(root), recv_ck |-> None,
     send_n |-> 0, recv_n |-> 0, prev_send_n |-> 0, skipped |-> {}]

InitReceiver(sk, local_spk) ==
    [dh_self |-> local_spk, dh_remote |-> None,
     root_key |-> [sk |-> sk, dhs |-> << >>],
     send_ck |-> None, recv_ck |-> None,
     send_n |-> 0, recv_n |-> 0, prev_send_n |-> 0, skipped |-> {}]

-----------------------------------------------------------------------------
(* encrypt_message: the key that seals the message, its header, and the    *)
(* state that is left.  The assertion is CanEncrypt.                       *)

CanEncrypt(st) == st.send_ck # None

SealingKey(st) == st.send_ck

SealedHeader(st) ==
    [dh_pub |-> st.dh_self, pn |-> st.prev_send_n, n |-> st.send_n]

AfterEncrypt(st) ==
    [st EXCEPT !.send_ck = KdfCk(@), !.send_n = @ + 1]

-----------------------------------------------------------------------------
(* _skip_message_keys. *)

(* The limit itself is too many. *)
MutTooManySkipped(st, until) ==
    st.recv_ck # None /\ until - st.recv_n >= MAX_SKIP

(* It raises beyond MAX_SKIP ... *)
TooManySkipped(st, until) ==
    st.recv_ck # None /\ until - st.recv_n > MAX_SKIP

(* ... and else caches the keys of the receive chain up to number until.   *)
KeysUpTo(st, until) ==
    {[dh |-> st.dh_remote, n |-> i,
      key |-> ChainKeyAfter(st.recv_ck, i - st.recv_n)] :
        i \in st.recv_n .. (until - 1)}

(* The chain moves on and the keys it passes are not kept. *)
MutSkipMessageKeys(st, until) ==
    IF st.recv_ck = None \/ until <= st.recv_n THEN st
    ELSE [st EXCEPT !.recv_ck = ChainKeyAfter(@, until - st.recv_n),
                    !.recv_n = until]

SkipMessageKeys(st, until) ==
    IF st.recv_ck = None \/ until <= st.recv_n THEN st
    ELSE [st EXCEPT
            !.skipped = {e \in @ : \A f \in KeysUpTo(st, until) :
                                      <<e.dh, e.n>> # <<f.dh, f.n>>}
                        \cup KeysUpTo(st, until),
            !.recv_ck = ChainKeyAfter(@, until - st.recv_n),
            !.recv_n = until]

(* prev_send_n is the number of the last message, not their count. *)
MutDhRatchet(st, remote, fresh) ==
    LET recv_root == KdfRk(st.root_key, DH(st.dh_self, remote))
        send_root == KdfRk(recv_root, DH(fresh, remote))
    IN  [dh_self |-> fresh, dh_remote |-> remote, root_key |-> send_root,
         send_ck |-> FirstChainKey(send_root),
         recv_ck |-> FirstChainKey(recv_root),
         send_n |-> 0, recv_n |-> 0, prev_send_n |-> st.send_n - 1,
         skipped |-> st.skipped]

(* _dh_ratchet: a receive chain from the key pair in use, then a send      *)
(* chain from a fresh one.                                                 *)
DhRatchet(st, remote, fresh) ==
    LET recv_root == KdfRk(st.root_key, DH(st.dh_self, remote))
        send_root == KdfRk(recv_root, DH(fresh, remote))
    IN  [dh_self |-> fresh, dh_remote |-> remote, root_key |-> send_root,
         send_ck |-> FirstChainKey(send_root),
         recv_ck |-> FirstChainKey(recv_root),
         send_n |-> 0, recv_n |-> 0, prev_send_n |-> st.send_n,
         skipped |-> st.skipped]

-----------------------------------------------------------------------------
(* decrypt_message.  A cached key is used and dropped; otherwise a new     *)
(* remote key steps the DH ratchet, the chain is moved to the message's    *)
(* number, and its next key is taken.                                      *)

CacheHits(st, hdr) == {e \in st.skipped : e.dh = hdr.dh_pub /\ e.n = hdr.n}

NeedsRatchet(st, hdr) == st.dh_remote # hdr.dh_pub

(* The previous receive chain is left without caching what is missing. *)
MutRatcheted(st, hdr, fresh) ==
    IF NeedsRatchet(st, hdr) THEN DhRatchet(st, hdr.dh_pub, fresh) ELSE st

Ratcheted(st, hdr, fresh) ==
    IF NeedsRatchet(st, hdr)
    THEN DhRatchet(SkipMessageKeys(st, hdr.pn), hdr.dh_pub, fresh)
    ELSE st

CaughtUp(st, hdr, fresh) ==
    SkipMessageKeys(Ratcheted(st, hdr, fresh), hdr.n)

(* ValueError of _skip_message_keys, AssertionError on a missing chain. *)
Raises(st, hdr, fresh) ==
    /\ CacheHits(st, hdr) = {}
    /\ \/ NeedsRatchet(st, hdr) /\ TooManySkipped(st, hdr.pn)
       \/ TooManySkipped(Ratcheted(st, hdr, fresh), hdr.n)
       \/ CaughtUp(st, hdr, fresh).recv_ck = None

OpeningKey(st, hdr, fresh) ==
    IF CacheHits(st, hdr) # {}
    THEN (CHOOSE e \in CacheHits(st, hdr) : TRUE).key
    ELSE CaughtUp(st, hdr, fresh).recv_ck

(* A cached key stays in the cache after its use. *)
MutAfterDecrypt(st, hdr, fresh) ==
    IF CacheHits(st, hdr) # {} THEN st
    ELSE [CaughtUp(st, hdr, fresh) EXCEPT !.recv_ck = KdfCk(@),
                                          !.recv_n = @ + 1]

AfterDecrypt(st, hdr, fresh) ==
    IF CacheHits(st, hdr) # {}
    THEN [st EXCEPT !.skipped = @ \ CacheHits(st, hdr)]
    ELSE [CaughtUp(st, hdr, fresh) EXCEPT !.recv_ck = KdfCk(@),
                                          !.recv_n = @ + 1]

(* decrypt_message returns the plaintext sealed with key. *)
Opens(st, hdr, key, fresh) ==
    /\ ~ Raises(st, hdr, fresh)
    /\ OpeningKey(st, hdr, fresh) = key
=============================================================================
