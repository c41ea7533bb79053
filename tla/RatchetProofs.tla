--------------------------- MODULE RatchetProofs ---------------------------
(***************************************************************************)
(* Lemmas about the operators of Keys, X3DH and DoubleRatchet.             *)
(***************************************************************************)
EXTENDS DoubleRatchet, WellFoundedInduction, TLAPS

(* A ratchet state of the right type whose receive chain, if it has one,   *)
(* has a remote key to file skipped keys under.                            *)
WellFormed(st) ==
    /\ st \in RatchetState
    /\ st.recv_ck # None => st.dh_remote # None

-----------------------------------------------------------------------------
(* FirstOpk takes a member: the ids are natural numbers, which have a      *)
(* least one.                                                              *)
LEMMA FirstOpkIsMember ==
    ASSUME NEW S \in SUBSET Nat, S # {}
    PROVE  FirstOpk(S) \in S
<1>1. \E i \in S : \A j \in S : ~ (<<j, i>> \in OpToRel(<, Nat))
  BY NatLessThanWellFounded, WFMin
<1>2. PICK i \in S : \A j \in S : ~ (<<j, i>> \in OpToRel(<, Nat))
  BY <1>1
<1>3. ASSUME NEW j \in S
      PROVE  i <= j
  <2>1. i \in Nat /\ j \in Nat
    OBVIOUS
  <2>2. ~ (j < i)
    BY <1>2, <2>1 DEF OpToRel
  <2> QED
    BY <2>1, <2>2
<1> QED
  BY <1>3 DEF FirstOpk

(* A root key stays one when a Diffie-Hellman output is mixed in. *)
LEMMA KdfRkType ==
    ASSUME NEW root \in RootKey, NEW dh \in SUBSET Key
    PROVE  /\ KdfRk(root, dh) \in RootKey
           /\ KdfRk(root, dh).sk = root.sk
           /\ KdfRk(root, dh).dhs = Append(root.dhs, dh)
BY DEF KdfRk, RootKey

LEMMA FirstChainKeyType ==
    ASSUME NEW root \in RootKey
    PROVE  FirstChainKey(root) \in ChainKey
BY DEF FirstChainKey, ChainKey

LEMMA InitSenderType ==
    ASSUME NEW sk \in SecretKey, NEW remote \in Key, NEW fresh \in Key
    PROVE  WellFormed(InitSender(sk, remote, fresh))
<1> DEFINE root0 == [sk |-> sk, dhs |-> << >>]
           root  == KdfRk(root0, DH(fresh, remote))
<1>1. root0 \in RootKey
  BY DEF RootKey
<1>2. root \in RootKey /\ FirstChainKey(root) \in ChainKey
  BY <1>1, KdfRkType, FirstChainKeyType DEF DH
<1> HIDE DEF root
<1> QED
  BY <1>2 DEF InitSender, root, WellFormed, RatchetState

LEMMA InitReceiverType ==
    ASSUME NEW sk \in SecretKey, NEW local_spk \in Key
    PROVE  WellFormed(InitReceiver(sk, local_spk))
BY DEF InitReceiver, WellFormed, RatchetState, RootKey

(* A state with other values in some of its fields. *)
WithSendChain(st, ck, n) == [st EXCEPT !.send_ck = ck, !.send_n = n]
WithRecvChain(st, ck, n) == [st EXCEPT !.recv_ck = ck, !.recv_n = n]
WithSkipped(st, sk)      == [st EXCEPT !.skipped = sk]

(* Setting the send chain and its counter. *)
LEMMA SetSendChain ==
    ASSUME NEW st \in RatchetState, NEW ck \in ChainKey, NEW n \in Nat
    PROVE  LET new == WithSendChain(st, ck, n) IN
           /\ new \in RatchetState
           /\ new.send_ck = ck /\ new.send_n = n
           /\ new.dh_self = st.dh_self /\ new.dh_remote = st.dh_remote
           /\ new.root_key = st.root_key /\ new.recv_ck = st.recv_ck
<1> DEFINE s1 == [st EXCEPT !.send_ck = ck]
           s2 == [s1 EXCEPT !.send_n = n]
<1>1. /\ s1 \in RatchetState /\ s1.send_ck = ck
      /\ s1.dh_self = st.dh_self /\ s1.dh_remote = st.dh_remote
      /\ s1.root_key = st.root_key /\ s1.recv_ck = st.recv_ck
  BY DEF RatchetState
<1>2. WithSendChain(st, ck, n) = s2
  BY DEF WithSendChain
<1> HIDE DEF s1
<1>3. /\ s2 \in RatchetState /\ s2.send_ck = s1.send_ck /\ s2.send_n = n
      /\ s2.dh_self = s1.dh_self /\ s2.dh_remote = s1.dh_remote
      /\ s2.root_key = s1.root_key /\ s2.recv_ck = s1.recv_ck
  BY <1>1 DEF RatchetState
<1> QED
  BY <1>1, <1>2, <1>3

(* Setting the receive chain and its counter. *)
LEMMA SetRecvChain ==
    ASSUME NEW st \in RatchetState, NEW ck \in ChainKey, NEW n \in Nat
    PROVE  LET new == WithRecvChain(st, ck, n) IN
           /\ new \in RatchetState
           /\ new.recv_ck = ck /\ new.recv_n = n
           /\ new.dh_self = st.dh_self /\ new.dh_remote = st.dh_remote
           /\ new.root_key = st.root_key /\ new.send_ck = st.send_ck
           /\ new.send_n = st.send_n /\ new.skipped = st.skipped
<1> DEFINE s1 == [st EXCEPT !.recv_ck = ck]
           s2 == [s1 EXCEPT !.recv_n = n]
<1>1. /\ s1 \in RatchetState /\ s1.recv_ck = ck
      /\ s1.dh_self = st.dh_self /\ s1.dh_remote = st.dh_remote
      /\ s1.root_key = st.root_key /\ s1.send_ck = st.send_ck
      /\ s1.send_n = st.send_n /\ s1.skipped = st.skipped
  BY DEF RatchetState
<1>2. WithRecvChain(st, ck, n) = s2
  BY DEF WithRecvChain
<1> HIDE DEF s1
<1>3. /\ s2 \in RatchetState /\ s2.recv_ck = s1.recv_ck /\ s2.recv_n = n
      /\ s2.dh_self = s1.dh_self /\ s2.dh_remote = s1.dh_remote
      /\ s2.root_key = s1.root_key /\ s2.send_ck = s1.send_ck
      /\ s2.send_n = s1.send_n /\ s2.skipped = s1.skipped
  BY <1>1 DEF RatchetState
<1> QED
  BY <1>1, <1>2, <1>3

(* Setting the skipped keys. *)
LEMMA SetSkipped ==
    ASSUME NEW st \in RatchetState, NEW sk \in SUBSET SkippedKey
    PROVE  LET new == WithSkipped(st, sk) IN
           /\ new \in RatchetState /\ new.skipped = sk
           /\ new.dh_self = st.dh_self /\ new.dh_remote = st.dh_remote
           /\ new.root_key = st.root_key
           /\ new.send_ck = st.send_ck /\ new.recv_ck = st.recv_ck
           /\ new.send_n = st.send_n /\ new.recv_n = st.recv_n
BY DEF RatchetState, WithSkipped

-----------------------------------------------------------------------------
(* encrypt_message takes a well-formed state to one, and touches nothing   *)
(* but the send chain.                                                     *)
LEMMA AfterEncryptType ==
    ASSUME NEW st, WellFormed(st), CanEncrypt(st)
    PROVE  LET new == AfterEncrypt(st) IN
           /\ WellFormed(new)
           /\ SealingKey(st) \in MessageKey
           /\ SealedHeader(st) \in Header
           /\ new.send_ck = KdfCk(st.send_ck)
           /\ new.dh_self = st.dh_self /\ new.dh_remote = st.dh_remote
           /\ new.root_key = st.root_key
<1>1. st \in RatchetState /\ st.send_ck \in ChainKey
  BY DEF WellFormed, CanEncrypt, RatchetState
<1>2. KdfCk(st.send_ck) \in ChainKey
  BY <1>1 DEF KdfCk, ChainKey
<1>3. st.send_n + 1 \in Nat
  BY <1>1 DEF RatchetState
<1>4. AfterEncrypt(st) =
        WithSendChain(st, KdfCk(st.send_ck), st.send_n + 1)
  BY DEF AfterEncrypt, WithSendChain
<1>5. SealingKey(st) \in MessageKey /\ SealedHeader(st) \in Header
  BY <1>1 DEF SealingKey, SealedHeader, RatchetState, MessageKey, Header
<1> DEFINE new == AfterEncrypt(st)
<1>6. /\ new \in RatchetState
      /\ new.send_ck = KdfCk(st.send_ck)
      /\ new.dh_self = st.dh_self /\ new.dh_remote = st.dh_remote
      /\ new.root_key = st.root_key /\ new.recv_ck = st.recv_ck
  <2> DEFINE ck == KdfCk(st.send_ck)
             n  == st.send_n + 1
  <2>1. ck \in ChainKey /\ n \in Nat /\ new = WithSendChain(st, ck, n)
    BY <1>2, <1>3, <1>4
  <2> HIDE DEF ck, n, new
  <2>2. /\ new \in RatchetState
        /\ new.send_ck = ck
        /\ new.dh_self = st.dh_self /\ new.dh_remote = st.dh_remote
        /\ new.root_key = st.root_key /\ new.recv_ck = st.recv_ck
    BY <1>1, <2>1, SetSendChain
  <2> QED
    BY <2>2 DEF ck
<1> QED
  BY <1>5, <1>6 DEF WellFormed

(* _skip_message_keys touches the receive chain and the skipped keys.      *)
LEMMA SkipMessageKeysType ==
    ASSUME NEW st, WellFormed(st), NEW until \in Nat
    PROVE  LET new == SkipMessageKeys(st, until) IN
           /\ WellFormed(new)
           /\ new.dh_self = st.dh_self /\ new.dh_remote = st.dh_remote
           /\ new.root_key = st.root_key /\ new.send_ck = st.send_ck
<1>1. CASE st.recv_ck = None \/ until <= st.recv_n
  BY <1>1 DEF SkipMessageKeys
<1>2. CASE ~ (st.recv_ck = None \/ until <= st.recv_n)
  <2>1. /\ st \in RatchetState
        /\ st.recv_ck \in ChainKey /\ st.dh_remote \in Key
        /\ st.recv_n \in Nat /\ until > st.recv_n
    BY <1>2 DEF WellFormed, RatchetState
  <2>2. \A i \in Nat : ChainKeyAfter(st.recv_ck, i) \in ChainKey
    BY <2>1 DEF ChainKeyAfter, ChainKey
  <2>3. KeysUpTo(st, until) \subseteq SkippedKey
    BY <2>1, <2>2 DEF KeysUpTo, SkippedKey, MessageKey
  <2>4. until - st.recv_n \in Nat
    BY <2>1
  <2> DEFINE sk == {e \in st.skipped : \A f \in KeysUpTo(st, until) :
                                     <<e.dh, e.n>> # <<f.dh, f.n>>}
                   \cup KeysUpTo(st, until)
             ck == ChainKeyAfter(st.recv_ck, until - st.recv_n)
             s1 == WithSkipped(st, sk)
  <2>5. sk \in SUBSET SkippedKey /\ ck \in ChainKey
    BY <2>1, <2>2, <2>3, <2>4 DEF RatchetState
  <2>6. SkipMessageKeys(st, until) =
          [st EXCEPT !.skipped = sk, !.recv_ck = ck, !.recv_n = until]
    BY <1>2 DEF SkipMessageKeys
  <2>7. SkipMessageKeys(st, until) =
          WithRecvChain(s1, ck, until)
    BY <2>6 DEF WithSkipped, WithRecvChain
  <2> HIDE DEF sk, ck
  <2>8. /\ s1 \in RatchetState
        /\ s1.dh_self = st.dh_self /\ s1.dh_remote = st.dh_remote
        /\ s1.root_key = st.root_key /\ s1.send_ck = st.send_ck
    BY <2>1, <2>5, SetSkipped
  <2> HIDE DEF s1
  <2> DEFINE s2 == WithRecvChain(s1, ck, until)
  <2>9. /\ s2 \in RatchetState
        /\ s2.dh_self = s1.dh_self /\ s2.dh_remote = s1.dh_remote
        /\ s2.root_key = s1.root_key /\ s2.send_ck = s1.send_ck
    BY <2>1, <2>5, <2>8, SetRecvChain
  <2>10. st.dh_remote # None
    BY <2>1, NoneAssumption
  <2> QED
    BY <2>7, <2>8, <2>9, <2>10 DEF WellFormed
<1> QED
  BY <1>1, <1>2

(* _dh_ratchet sets up both chains from the fresh key pair. *)
LEMMA DhRatchetType ==
    ASSUME NEW st, WellFormed(st), NEW remote \in Key, NEW fresh \in Key
    PROVE  LET new       == DhRatchet(st, remote, fresh)
               recv_root == KdfRk(st.root_key, DH(st.dh_self, remote))
               send_root == KdfRk(recv_root, DH(fresh, remote))
           IN  /\ WellFormed(new)
               /\ new.dh_self = fresh /\ new.dh_remote = remote
               /\ recv_root \in RootKey /\ send_root \in RootKey
               /\ new.root_key = send_root
               /\ new.send_ck = FirstChainKey(send_root)
               /\ new.recv_ck = FirstChainKey(recv_root)
<1> DEFINE recv_root == KdfRk(st.root_key, DH(st.dh_self, remote))
           send_root == KdfRk(recv_root, DH(fresh, remote))
<1>1. recv_root \in RootKey
  BY KdfRkType DEF WellFormed, RatchetState, DH
<1>2. send_root \in RootKey
  BY <1>1, KdfRkType DEF DH
<1>3. FirstChainKey(recv_root) \in ChainKey /\ FirstChainKey(send_root) \in ChainKey
  BY <1>1, <1>2, FirstChainKeyType
<1>4. DhRatchet(st, remote, fresh) =
        [dh_self |-> fresh, dh_remote |-> remote, root_key |-> send_root,
         send_ck |-> FirstChainKey(send_root),
         recv_ck |-> FirstChainKey(recv_root),
         send_n |-> 0, recv_n |-> 0, prev_send_n |-> st.send_n,
         skipped |-> st.skipped]
  BY DEF DhRatchet
<1>5. remote # None
  BY NoneAssumption
<1> HIDE DEF recv_root, send_root
<1>6. WellFormed(DhRatchet(st, remote, fresh))
  BY <1>2, <1>3, <1>4, <1>5 DEF WellFormed, RatchetState
<1> QED
  BY <1>1, <1>2, <1>4, <1>6 DEF recv_root, send_root

LEMMA CaughtUpType ==
    ASSUME NEW st, WellFormed(st), NEW hdr \in Header, NEW fresh \in Key
    PROVE  /\ WellFormed(Ratcheted(st, hdr, fresh))
           /\ WellFormed(CaughtUp(st, hdr, fresh))
<1>1. hdr.pn \in Nat /\ hdr.n \in Nat /\ hdr.dh_pub \in Key
  BY DEF Header
<1>2. WellFormed(Ratcheted(st, hdr, fresh))
  BY <1>1, SkipMessageKeysType, DhRatchetType DEF Ratcheted
<1> QED
  BY <1>1, <1>2, SkipMessageKeysType DEF CaughtUp

(* What decrypt_message leaves: either the chains it found, or those that  *)
(* a step of the DH ratchet with the fresh key pair made.                  *)
LEMMA AfterDecryptType ==
    ASSUME NEW st, WellFormed(st), NEW hdr \in Header, NEW fresh \in Key,
           ~ Raises(st, hdr, fresh)
    PROVE  LET new       == AfterDecrypt(st, hdr, fresh)
               recv_root == KdfRk(st.root_key, DH(st.dh_self, hdr.dh_pub))
               send_root == KdfRk(recv_root, DH(fresh, hdr.dh_pub))
           IN  /\ WellFormed(new)
               /\ \/ /\ new.dh_self = st.dh_self
                     /\ new.dh_remote = st.dh_remote
                     /\ new.root_key = st.root_key
                     /\ new.send_ck = st.send_ck
                  \/ /\ new.dh_self = fresh
                     /\ new.dh_remote = hdr.dh_pub
                     /\ new.root_key = send_root
                     /\ new.send_ck = FirstChainKey(send_root)
<1>1. hdr.pn \in Nat /\ hdr.n \in Nat /\ hdr.dh_pub \in Key
  BY DEF Header
<1>2. CASE CacheHits(st, hdr) # {}
  <2>1. st \in RatchetState /\ st.skipped \ CacheHits(st, hdr) \in SUBSET SkippedKey
    BY DEF WellFormed, RatchetState
  <2>2. AfterDecrypt(st, hdr, fresh) =
          WithSkipped(st, st.skipped \ CacheHits(st, hdr))
    BY <1>2 DEF AfterDecrypt, WithSkipped
  <2> QED
    BY <2>1, <2>2, SetSkipped DEF WellFormed
<1>3. CASE CacheHits(st, hdr) = {}
  <2> DEFINE r   == Ratcheted(st, hdr, fresh)
             s   == CaughtUp(st, hdr, fresh)
             new == AfterDecrypt(st, hdr, fresh)
             recv_root == KdfRk(st.root_key, DH(st.dh_self, hdr.dh_pub))
             send_root == KdfRk(recv_root, DH(fresh, hdr.dh_pub))
  <2>1. WellFormed(r) /\ WellFormed(s) /\ s.recv_ck # None
    BY <1>3, CaughtUpType DEF Raises
  <2>2. /\ s.dh_self = r.dh_self /\ s.dh_remote = r.dh_remote
        /\ s.root_key = r.root_key /\ s.send_ck = r.send_ck
    BY <1>1, <2>1, SkipMessageKeysType DEF CaughtUp
  <2>3. \/ r = st
        \/ /\ r.dh_self = fresh /\ r.dh_remote = hdr.dh_pub
           /\ r.root_key = send_root
           /\ r.send_ck = FirstChainKey(send_root)
    <3> DEFINE k == SkipMessageKeys(st, hdr.pn)
    <3>1. WellFormed(k) /\ k.dh_self = st.dh_self /\ k.root_key = st.root_key
      BY <1>1, SkipMessageKeysType
    <3>2. r = st \/ r = DhRatchet(k, hdr.dh_pub, fresh)
      BY DEF Ratcheted
    <3> HIDE DEF k
    <3> QED
      BY <1>1, <3>1, <3>2, DhRatchetType
  <2>4. /\ s \in RatchetState /\ s.recv_ck \in ChainKey
        /\ KdfCk(s.recv_ck) \in ChainKey /\ s.recv_n + 1 \in Nat
    BY <2>1 DEF WellFormed, RatchetState, KdfCk, ChainKey
  <2>5. new = WithRecvChain(s, KdfCk(s.recv_ck), s.recv_n + 1)
    BY <1>3 DEF AfterDecrypt, WithRecvChain
  <2> HIDE DEF r, s, recv_root, send_root
  <2>6. /\ new \in RatchetState
        /\ new.dh_self = s.dh_self /\ new.dh_remote = s.dh_remote
        /\ new.root_key = s.root_key /\ new.send_ck = s.send_ck
    <3> DEFINE ck == KdfCk(s.recv_ck)
               n  == s.recv_n + 1
    <3>1. ck \in ChainKey /\ n \in Nat /\ new = WithRecvChain(s, ck, n)
      BY <2>4, <2>5
    <3> HIDE DEF ck, n, new
    <3> QED
      BY <2>4, <3>1, SetRecvChain
  <2>7. WellFormed(new)
    BY <2>1, <2>6 DEF WellFormed
  <2> HIDE DEF new
  <2>8. \/ /\ new.dh_self = st.dh_self /\ new.dh_remote = st.dh_remote
           /\ new.root_key = st.root_key /\ new.send_ck = st.send_ck
        \/ /\ new.dh_self = fresh /\ new.dh_remote = hdr.dh_pub
           /\ new.root_key = send_root
           /\ new.send_ck = FirstChainKey(send_root)
    BY <2>2, <2>3, <2>6
  <2> QED
    BY <2>7, <2>8 DEF new, recv_root, send_root
<1> QED
  BY <1>2, <1>3
=============================================================================
