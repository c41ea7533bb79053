--------------------------- MODULE SecrecyProofs ---------------------------
(***************************************************************************)
(* Theorems about Session that follow from what a stored ratchet state     *)
(* gives away: forward secrecy, that sessions only advance, and that the   *)
(* messenger keeps the promise of SecureChannel.                           *)
(***************************************************************************)
EXTENDS SessionProofs

-----------------------------------------------------------------------------
(* Root keys of one session come one after the other: each is the one      *)
(* before with a Diffie-Hellman output mixed in.                           *)

(* A prefix agrees place by place. *)
LEMMA PrefixByPlaces ==
    ASSUME NEW S, NEW s \in Seq(S), NEW t \in Seq(S)
    PROVE  IsPrefix(s, t) <=> /\ Len(s) <= Len(t)
                              /\ \A i \in 1 .. Len(s) : s[i] = t[i]
<1>1. Len(s) \in Nat /\ Len(t) \in Nat
  BY LenProperties
<1>2. SUFFICES ASSUME Len(s) <= Len(t)
               PROVE  SubSeq(s, 1, Len(s)) = SubSeq(t, 1, Len(s))
                        <=> \A i \in 1 .. Len(s) : s[i] = t[i]
  BY <1>1, Zenon DEF IsPrefix
<1>3. SubSeq(s, 1, Len(s)) = s
  BY SubSeqFull
<1> DEFINE u == SubSeq(t, 1, Len(s))
<1>4. \A i \in 1 .. Len(s) : t[i] \in S
  BY <1>1, <1>2
<1>5. /\ u \in Seq(S)
      /\ Len(u) = IF 1 <= Len(s) THEN Len(s) - 1 + 1 ELSE 0
      /\ \A i \in 1 .. Len(s) - 1 + 1 : u[i] = t[1 + i - 1]
  BY <1>1, <1>4, SubSeqProperties
<1> HIDE DEF u
<1>6. Len(u) = Len(s) /\ \A i \in 1 .. Len(s) : u[i] = t[i]
  <2>1. Len(u) = Len(s)
    BY <1>1, <1>5
  <2>2. ASSUME NEW i \in 1 .. Len(s) PROVE u[i] = t[i]
    <3>1. i \in 1 .. Len(s) - 1 + 1 /\ 1 + i - 1 = i
      BY <1>1
    <3> QED
      BY <1>5, <3>1
  <2> QED
    BY <2>1, <2>2
<1>7. ASSUME \A i \in 1 .. Len(s) : s[i] = t[i] PROVE s = u
  BY <1>5, <1>6, <1>7, SeqEqual
<1>8. ASSUME s = u PROVE \A i \in 1 .. Len(s) : s[i] = t[i]
  BY <1>6, <1>8
<1> QED
  BY <1>3, <1>7, <1>8 DEF u

(* r was the root key before root, or one before that. *)
Behind(r, root) == r.sk = root.sk /\ IsStrictPrefix(r.dhs, root.dhs)

(* No root key lies before itself. *)
LEMMA NotBehindItself ==
    ASSUME NEW root PROVE ~ Behind(root, root)
BY DEF Behind, IsStrictPrefix

(* A root key before one before a third lies before the third. *)
LEMMA BehindTransitive ==
    ASSUME NEW r \in RootKey, NEW s \in RootKey, NEW t \in RootKey,
           Behind(r, s), Behind(s, t)
    PROVE  Behind(r, t)
<1>1. r.dhs \in Seq(SUBSET Key) /\ s.dhs \in Seq(SUBSET Key) /\ t.dhs \in Seq(SUBSET Key)
  BY DEF RootKey
<1>2. Len(r.dhs) \in Nat /\ Len(s.dhs) \in Nat /\ Len(t.dhs) \in Nat
  BY <1>1, LenProperties
<1>3. /\ Len(r.dhs) <= Len(s.dhs) /\ \A i \in 1 .. Len(r.dhs) : r.dhs[i] = s.dhs[i]
      /\ Len(s.dhs) <= Len(t.dhs) /\ \A i \in 1 .. Len(s.dhs) : s.dhs[i] = t.dhs[i]
  BY <1>1, PrefixByPlaces DEF Behind, IsStrictPrefix
<1>4. Len(r.dhs) <= Len(t.dhs) /\ \A i \in 1 .. Len(r.dhs) : r.dhs[i] = t.dhs[i]
  BY <1>2, <1>3
<1>5. r.dhs # t.dhs
  <2>1. SUFFICES ASSUME r.dhs = t.dhs PROVE FALSE
    OBVIOUS
  <2>2. Len(r.dhs) = Len(s.dhs)
    BY <1>2, <1>3, <2>1
  <2>3. r.dhs = s.dhs
    BY <1>1, <1>3, <2>2, SeqEqual
  <2> QED
    BY <2>3 DEF Behind, IsStrictPrefix
<1>6. IsPrefix(r.dhs, t.dhs)
  BY <1>1, <1>4, PrefixByPlaces
<1> QED
  BY <1>5, <1>6 DEF Behind, IsStrictPrefix

(* Mixing an output in puts a root key behind the new one. *)
LEMMA BehindNext ==
    ASSUME NEW root \in RootKey, NEW dh \in SUBSET Key
    PROVE  KdfRk(root, dh) \in RootKey /\ Behind(root, KdfRk(root, dh))
<1> DEFINE s == root.dhs
           t == Append(s, dh)
<1>1. s \in Seq(SUBSET Key)
  BY DEF RootKey
<1>2. /\ t \in Seq(SUBSET Key) /\ Len(s) \in Nat /\ Len(t) = Len(s) + 1
      /\ \A i \in 1 .. Len(s) : t[i] = s[i]
  BY <1>1
<1> HIDE DEF s, t
<1>3. IsPrefix(s, t)
  BY <1>1, <1>2, PrefixByPlaces
<1>4. s # t
  BY <1>2
<1>5. /\ KdfRk(root, dh) \in RootKey
      /\ KdfRk(root, dh).sk = root.sk /\ KdfRk(root, dh).dhs = t
  BY KdfRkType DEF s, t
<1> QED
  BY <1>3, <1>4, <1>5 DEF Behind, IsStrictPrefix, s

-----------------------------------------------------------------------------
(* What a ratchet state gives away. *)

(* All keys of st hang on its root key and on those behind it; the skipped *)
(* ones are filed under their number and the remote key of their chain,    *)
(* and those of the present receive chain are behind its head.             *)
InOrder(st) ==
    /\ st.send_ck # None => st.send_ck.root = st.root_key
    /\ st.recv_ck # None => /\ Behind(st.recv_ck.root, st.root_key)
                            /\ st.recv_ck.n = st.recv_n
    /\ \A e \in st.skipped :
          /\ Behind(e.key.root, st.root_key)
          /\ e.key.n = e.n
          /\ (st.recv_ck # None /\ e.key.root = st.recv_ck.root) =>
                e.dh = st.dh_remote /\ e.n < st.recv_n
    /\ \A e, f \in st.skipped : e.key.root = f.key.root => e.dh = f.dh

(* Nothing can be had from new that could not be had from st. *)
GivesNoMore(st, new) ==
    \A k \in MessageKey : Derivable(new, k) => Derivable(st, k)

-----------------------------------------------------------------------------
(* The steps of the ratchet give away nothing new, and keep the order.     *)

(* Derivable, with its second case taken apart. *)
LEMMA DerivableCases ==
    ASSUME NEW st, NEW k
    PROVE  Derivable(st, k) <=>
             \/ \E e \in st.skipped : e.key = k
             \/ /\ st.send_ck # None
                /\ k.root = st.send_ck.root /\ k.n >= st.send_ck.n
             \/ /\ st.recv_ck # None
                /\ k.root = st.recv_ck.root /\ k.n >= st.recv_ck.n
             \/ Behind(st.root_key, k.root)
BY DEF Derivable, Behind

(* What a state gives away descends from its secret. *)
LEMMA DerivableSecret ==
    ASSUME NEW st, InOrder(st), NEW k, Derivable(st, k)
    PROVE  k.root.sk = st.root_key.sk
BY DerivableCases DEF InOrder, Behind

(* Giving away no more than a state that gives no more than a third. *)
LEMMA GivesNoMoreTransitive ==
    ASSUME NEW s, NEW t, NEW u, GivesNoMore(s, t), GivesNoMore(t, u)
    PROVE  GivesNoMore(s, u)
BY DEF GivesNoMore

(* _skip_message_keys in terms of the fields it touches. *)
LEMMA SkipFields ==
    ASSUME NEW st, WellFormed(st), NEW until \in Nat,
           st.recv_ck # None, st.recv_n < until
    PROVE  LET new == SkipMessageKeys(st, until) IN
           /\ new.skipped = {e \in st.skipped : \A f \in KeysUpTo(st, until) :
                                <<e.dh, e.n>> # <<f.dh, f.n>>}
                            \cup KeysUpTo(st, until)
           /\ new.recv_ck = ChainKeyAfter(st.recv_ck, until - st.recv_n)
           /\ new.recv_n = until
           /\ new.send_n = st.send_n
<1>1. /\ st \in RatchetState /\ st.recv_n \in Nat
      /\ ~ (st.recv_ck = None \/ until <= st.recv_n)
  BY DEF WellFormed, RatchetState
<1> DEFINE sk == {e \in st.skipped : \A f \in KeysUpTo(st, until) :
                                        <<e.dh, e.n>> # <<f.dh, f.n>>}
                 \cup KeysUpTo(st, until)
           ck == ChainKeyAfter(st.recv_ck, until - st.recv_n)
<1>2. SkipMessageKeys(st, until) =
        [st EXCEPT !.skipped = sk, !.recv_ck = ck, !.recv_n = until]
  BY <1>1 DEF SkipMessageKeys
<1> HIDE DEF sk, ck
<1>3. /\ SkipMessageKeys(st, until).skipped = sk
      /\ SkipMessageKeys(st, until).recv_ck = ck
      /\ SkipMessageKeys(st, until).recv_n = until
      /\ SkipMessageKeys(st, until).send_n = st.send_n
  BY <1>1, <1>2 DEF RatchetState
<1> QED
  BY <1>3 DEF sk, ck

(* The keys it caches are those of the receive chain up to until. *)
LEMMA KeysUpToAre ==
    ASSUME NEW st, WellFormed(st), NEW until \in Nat,
           st.recv_ck # None, st.recv_ck.n = st.recv_n
    PROVE  \A f \in KeysUpTo(st, until) :
             /\ f.dh = st.dh_remote
             /\ f.n \in Nat /\ st.recv_n <= f.n /\ f.n < until
             /\ f.key.root = st.recv_ck.root /\ f.key.n = f.n
<1>1. /\ st.recv_ck \in ChainKey /\ st.recv_n \in Nat
  BY DEF WellFormed, RatchetState
<1>2. TAKE f \in KeysUpTo(st, until)
<1>3. PICK i \in st.recv_n .. (until - 1) :
        f = [dh |-> st.dh_remote, n |-> i,
             key |-> ChainKeyAfter(st.recv_ck, i - st.recv_n)]
  BY DEF KeysUpTo
<1>4. /\ i \in Nat /\ st.recv_n <= i /\ i < until
  BY <1>1, <1>3
<1>5. /\ ChainKeyAfter(st.recv_ck, i - st.recv_n).root = st.recv_ck.root
      /\ ChainKeyAfter(st.recv_ck, i - st.recv_n).n = i
  BY <1>1, <1>4 DEF ChainKeyAfter, ChainKey
<1> QED
  BY <1>3, <1>4, <1>5

(* Skipping moves keys from a chain to the cache, and gives no more away. *)
LEMMA SkipInOrder ==
    ASSUME NEW st, WellFormed(st), InOrder(st), NEW until \in Nat
    PROVE  LET new == SkipMessageKeys(st, until) IN
           /\ InOrder(new) /\ GivesNoMore(st, new)
           /\ new.root_key = st.root_key /\ new.send_n = st.send_n
           /\ st.recv_n <= new.recv_n
<1> DEFINE new == SkipMessageKeys(st, until)
<1>0. st.recv_n \in Nat
  BY DEF WellFormed, RatchetState
<1>1. CASE st.recv_ck = None \/ until <= st.recv_n
  <2>1. new = st
    BY <1>1 DEF SkipMessageKeys
  <2> HIDE DEF new
  <2> QED
    BY <1>0, <2>1 DEF GivesNoMore, new
<1>2. CASE st.recv_ck # None /\ st.recv_n < until
  <2> DEFINE K == KeysUpTo(st, until)
  <2>1. /\ st.recv_ck \in ChainKey /\ st.recv_ck.n = st.recv_n
        /\ st.dh_remote \in Key
    BY <1>2 DEF WellFormed, RatchetState, InOrder
  <2>2. /\ new.dh_remote = st.dh_remote
        /\ new.root_key = st.root_key /\ new.send_ck = st.send_ck
        /\ WellFormed(new)
    BY SkipMessageKeysType
  <2>3. /\ new.skipped \subseteq st.skipped \cup K
        /\ new.recv_ck = ChainKeyAfter(st.recv_ck, until - st.recv_n)
        /\ new.recv_n = until /\ new.send_n = st.send_n
    BY <1>2, SkipFields
  <2>4. new.recv_ck.root = st.recv_ck.root /\ new.recv_ck.n = until
    BY <1>0, <1>2, <2>1, <2>3 DEF ChainKeyAfter, ChainKey
  <2>5. \A f \in K : /\ f.dh = st.dh_remote
                     /\ f.n \in Nat /\ st.recv_n <= f.n /\ f.n < until
                     /\ f.key.root = st.recv_ck.root /\ f.key.n = f.n
    BY <1>2, <2>1, KeysUpToAre
  <2>6. \A e \in st.skipped : e.n \in Nat
    BY DEF WellFormed, RatchetState, SkippedKey
  <2> HIDE DEF new, K
  <2>7. Behind(st.recv_ck.root, st.root_key)
    BY <1>2 DEF InOrder
  <2>8. ASSUME NEW e \in new.skipped
        PROVE  /\ Behind(e.key.root, new.root_key)
               /\ e.key.n = e.n
               /\ e.key.root = new.recv_ck.root =>
                    e.dh = new.dh_remote /\ e.n < new.recv_n
    <3>1. CASE e \in st.skipped
      <4>1. /\ Behind(e.key.root, st.root_key) /\ e.key.n = e.n
            /\ e.key.root = st.recv_ck.root => e.dh = st.dh_remote /\ e.n < st.recv_n
        BY <1>2, <3>1 DEF InOrder
      <4> QED
        BY <1>0, <1>2, <2>2, <2>3, <2>4, <2>6, <3>1, <4>1
    <3>2. CASE e \in K
      BY <2>2, <2>3, <2>4, <2>5, <2>7, <3>2
    <3> QED
      BY <2>3, <2>8, <3>1, <3>2
  <2>9. ASSUME NEW e \in new.skipped, NEW f \in new.skipped, e.key.root = f.key.root
        PROVE  e.dh = f.dh
    <3>1. \A g \in st.skipped : g.key.root = st.recv_ck.root => g.dh = st.dh_remote
      BY <1>2 DEF InOrder
    <3>2. \A g, h \in st.skipped : g.key.root = h.key.root => g.dh = h.dh
      BY DEF InOrder
    <3> QED
      BY <2>3, <2>5, <2>9, <3>1, <3>2
  <2>10. new.recv_ck # None
    BY <2>1, <2>3, NoneIsNoChainKey DEF ChainKeyAfter, ChainKey
  <2>11. InOrder(new)
    <3>1. new.send_ck # None => new.send_ck.root = new.root_key
      BY <2>2 DEF InOrder
    <3>2. Behind(new.recv_ck.root, new.root_key) /\ new.recv_ck.n = new.recv_n
      BY <2>2, <2>3, <2>4, <2>7
    <3> QED
      BY <2>8, <2>9, <3>1, <3>2 DEF InOrder
  <2>12. ASSUME NEW k \in MessageKey, Derivable(new, k) PROVE Derivable(st, k)
    <3>1. CASE \E e \in new.skipped : e.key = k
      <4>1. PICK e \in new.skipped : e.key = k
        BY <3>1
      <4>2. CASE e \in st.skipped
        BY <4>1, <4>2, DerivableCases
      <4>3. CASE e \in K
        BY <1>2, <2>1, <2>5, <4>1, <4>3, DerivableCases
      <4> QED
        BY <2>3, <4>2, <4>3
    <3>2. CASE k.root = new.recv_ck.root /\ k.n >= new.recv_ck.n
      <4>1. k.n \in Nat
        BY DEF MessageKey, ChainKey
      <4>2. k.root = st.recv_ck.root /\ k.n >= st.recv_ck.n
        BY <1>0, <1>2, <2>1, <2>4, <3>2, <4>1
      <4> QED
        BY <1>2, <4>2, DerivableCases
    <3>3. CASE \/ /\ new.send_ck # None
                  /\ k.root = new.send_ck.root /\ k.n >= new.send_ck.n
               \/ Behind(new.root_key, k.root)
      BY <2>2, <3>3, DerivableCases
    <3> QED
      BY <2>12, <3>1, <3>2, <3>3, DerivableCases
  <2>13. GivesNoMore(st, new)
    BY <2>12 DEF GivesNoMore
  <2> QED
    BY <1>0, <1>2, <2>2, <2>3, <2>11, <2>13 DEF new
<1>3. CASE ~ (st.recv_ck = None \/ until <= st.recv_n)
  BY <1>0, <1>2, <1>3
<1> QED
  BY <1>1, <1>3

(* A step of the DH ratchet: both new chains hang on root keys the old one *)
(* is behind.                                                              *)
LEMMA DhRatchetInOrder ==
    ASSUME NEW st, WellFormed(st), InOrder(st),
           NEW remote \in Key, NEW fresh \in Key
    PROVE  LET new == DhRatchet(st, remote, fresh) IN
           /\ InOrder(new) /\ GivesNoMore(st, new)
           /\ Behind(st.root_key, new.root_key)
           /\ new.recv_n = 0
<1> DEFINE new       == DhRatchet(st, remote, fresh)
           recv_root == KdfRk(st.root_key, DH(st.dh_self, remote))
           send_root == KdfRk(recv_root, DH(fresh, remote))
<1>1. /\ st.root_key \in RootKey /\ st.dh_self \in Key
      /\ \A e \in st.skipped : e.key.root \in RootKey
  BY DEF WellFormed, RatchetState, SkippedKey, MessageKey, ChainKey
<1>2. DH(st.dh_self, remote) \in SUBSET Key /\ DH(fresh, remote) \in SUBSET Key
  BY <1>1 DEF DH
<1>3. recv_root \in RootKey /\ Behind(st.root_key, recv_root)
  BY <1>1, <1>2, BehindNext
<1> HIDE DEF recv_root
<1>4. send_root \in RootKey /\ Behind(recv_root, send_root)
  BY <1>2, <1>3, BehindNext
<1> HIDE DEF send_root
<1>5. Behind(st.root_key, send_root)
  BY <1>1, <1>3, <1>4, BehindTransitive
<1>6. /\ new.root_key = send_root
      /\ new.send_ck = [root |-> send_root, n |-> 0]
      /\ new.recv_ck = [root |-> recv_root, n |-> 0]
      /\ new.recv_n = 0 /\ new.skipped = st.skipped
  BY DEF DhRatchet, FirstChainKey, send_root, recv_root
<1> HIDE DEF new
<1>7. ASSUME NEW e \in st.skipped
      PROVE  /\ Behind(e.key.root, send_root)
             /\ e.key.root # recv_root
             /\ e.key.n = e.n
  <2>1. Behind(e.key.root, st.root_key) /\ e.key.n = e.n
    BY DEF InOrder
  <2>2. Behind(e.key.root, send_root) /\ Behind(e.key.root, recv_root)
    BY <1>1, <1>3, <1>4, <1>5, <2>1, BehindTransitive
  <2> QED
    BY <2>1, <2>2, NotBehindItself
<1>8. InOrder(new)
  <2>1. \A e, f \in st.skipped : e.key.root = f.key.root => e.dh = f.dh
    BY DEF InOrder
  <2> QED
    BY <1>4, <1>6, <1>7, <2>1 DEF InOrder
<1>9. ASSUME NEW k \in MessageKey, Derivable(new, k) PROVE Derivable(st, k)
  <2>1. k.root \in RootKey
    BY DEF MessageKey, ChainKey
  <2>2. CASE \E e \in st.skipped : e.key = k
    BY <2>2, DerivableCases
  <2>3. CASE k.root = recv_root \/ k.root = send_root \/ Behind(send_root, k.root)
    <3>1. Behind(st.root_key, k.root)
      BY <1>1, <1>3, <1>4, <1>5, <2>1, <2>3, BehindTransitive
    <3> QED
      BY <3>1, DerivableCases
  <2> QED
    BY <1>6, <1>9, <2>2, <2>3, DerivableCases
<1>10. GivesNoMore(st, new)
  BY <1>9 DEF GivesNoMore
<1> QED
  BY <1>5, <1>6, <1>8, <1>10 DEF new

(* encrypt_message seals with a key the state gives away, and the state it *)
(* leaves does not.                                                        *)
LEMMA EncryptInOrder ==
    ASSUME NEW st, WellFormed(st), InOrder(st), CanEncrypt(st)
    PROVE  LET new == AfterEncrypt(st) IN
           /\ InOrder(new) /\ GivesNoMore(st, new)
           /\ new.root_key = st.root_key
           /\ new.send_n = st.send_n + 1 /\ new.recv_n = st.recv_n
           /\ SealingKey(st).root.sk = st.root_key.sk
           /\ ~ Derivable(new, SealingKey(st))
<1> DEFINE new == AfterEncrypt(st)
           ck  == st.send_ck
<1>1. /\ st \in RatchetState /\ ck \in ChainKey /\ ck # None
      /\ ck.n \in Nat /\ ck.root = st.root_key /\ st.root_key \in RootKey
  BY DEF WellFormed, RatchetState, CanEncrypt, ChainKey, InOrder
<1>2. /\ new.send_ck = KdfCk(ck) /\ new.dh_remote = st.dh_remote
      /\ new.root_key = st.root_key
      /\ new.recv_ck = st.recv_ck /\ new.skipped = st.skipped
      /\ new.recv_n = st.recv_n /\ new.send_n = st.send_n + 1
  BY <1>1 DEF AfterEncrypt, RatchetState
<1>3. KdfCk(ck).root = ck.root /\ KdfCk(ck).n = ck.n + 1
  BY <1>1 DEF KdfCk, ChainKey
<1> HIDE DEF new
<1>4. InOrder(new)
  BY <1>1, <1>2, <1>3 DEF InOrder
<1>5. ASSUME NEW k \in MessageKey, Derivable(new, k) PROVE Derivable(st, k)
  <2>1. k.n \in Nat
    BY DEF MessageKey, ChainKey
  <2>2. CASE k.root = KdfCk(ck).root /\ k.n >= KdfCk(ck).n
    <3>1. k.root = ck.root /\ k.n >= ck.n
      BY <1>1, <1>3, <2>1, <2>2
    <3> QED
      BY <1>1, <3>1, DerivableCases
  <2> QED
    BY <1>2, <1>5, <2>2, DerivableCases
<1>6. ~ Derivable(new, ck)
  <2>1. \A e \in st.skipped : e.key # ck
    BY <1>1, NotBehindItself DEF InOrder
  <2>2. ~ (ck.n >= KdfCk(ck).n)
    BY <1>1, <1>3
  <2>3. st.recv_ck # None => ck.root # st.recv_ck.root
    BY <1>1, NotBehindItself DEF InOrder
  <2>4. ~ Behind(st.root_key, ck.root)
    BY <1>1, NotBehindItself
  <2> QED
    BY <1>2, <2>1, <2>2, <2>3, <2>4, DerivableCases
<1>7. GivesNoMore(st, new)
  BY <1>5 DEF GivesNoMore
<1> QED
  BY <1>1, <1>2, <1>4, <1>6, <1>7 DEF new, SealingKey

(* The new remote key, when it is new, starts a later root key. *)
LEMMA RatchetedInOrder ==
    ASSUME NEW st, WellFormed(st), InOrder(st),
           NEW hdr \in Header, NEW fresh \in Key
    PROVE  LET new == Ratcheted(st, hdr, fresh) IN
           /\ WellFormed(new) /\ InOrder(new) /\ GivesNoMore(st, new)
           /\ \/ new = st
              \/ Behind(st.root_key, new.root_key)
<1>1. hdr.pn \in Nat /\ hdr.dh_pub \in Key
  BY DEF Header
<1>2. WellFormed(Ratcheted(st, hdr, fresh))
  BY CaughtUpType
<1>3. CASE ~ NeedsRatchet(st, hdr)
  BY <1>2, <1>3 DEF Ratcheted, GivesNoMore
<1>4. CASE NeedsRatchet(st, hdr)
  <2> DEFINE s   == SkipMessageKeys(st, hdr.pn)
             new == DhRatchet(s, hdr.dh_pub, fresh)
  <2>1. /\ WellFormed(s) /\ InOrder(s) /\ GivesNoMore(st, s)
        /\ s.root_key = st.root_key
    BY <1>1, SkipInOrder, SkipMessageKeysType
  <2> HIDE DEF s
  <2>2. /\ InOrder(new) /\ GivesNoMore(s, new)
        /\ Behind(s.root_key, new.root_key)
    BY <1>1, <2>1, DhRatchetInOrder
  <2>3. Ratcheted(st, hdr, fresh) = new
    BY <1>4 DEF Ratcheted, s
  <2> HIDE DEF new
  <2>4. GivesNoMore(st, new)
    BY <2>1, <2>2, GivesNoMoreTransitive
  <2> QED
    BY <1>2, <2>1, <2>2, <2>3, <2>4
<1> QED
  BY <1>3, <1>4

(* decrypt_message opens with a key the state gives away, and the state it *)
(* leaves does not; the state stays under its root key, with counters that *)
(* do not go back, or goes on to a later one.                              *)
LEMMA DecryptInOrder ==
    ASSUME NEW st, WellFormed(st), InOrder(st),
           NEW hdr \in Header, NEW fresh \in Key, ~ Raises(st, hdr, fresh)
    PROVE  LET new == AfterDecrypt(st, hdr, fresh)
               k   == OpeningKey(st, hdr, fresh)
           IN  /\ InOrder(new) /\ GivesNoMore(st, new)
               /\ \/ /\ new.root_key = st.root_key
                     /\ new.send_n = st.send_n /\ st.recv_n <= new.recv_n
                  \/ Behind(st.root_key, new.root_key)
               /\ k \in MessageKey
               /\ Derivable(st, k) /\ ~ Derivable(new, k)
<1> DEFINE new == AfterDecrypt(st, hdr, fresh)
           k   == OpeningKey(st, hdr, fresh)
<1>1. hdr.n \in Nat /\ st \in RatchetState /\ st.recv_n \in Nat
  BY DEF Header, WellFormed, RatchetState
<1>2. CASE CacheHits(st, hdr) # {}
  <2>1. PICK e \in CacheHits(st, hdr) : k = e.key
    BY <1>2 DEF OpeningKey
  <2>2. e \in st.skipped /\ e.dh = hdr.dh_pub /\ e.n = hdr.n
    BY <2>1 DEF CacheHits
  <2>3. k \in MessageKey
    BY <1>1, <2>1, <2>2 DEF RatchetState, SkippedKey
  <2> DEFINE sk == st.skipped \ CacheHits(st, hdr)
  <2>4. /\ new.skipped = sk /\ new.root_key = st.root_key
        /\ new.send_ck = st.send_ck /\ new.recv_ck = st.recv_ck
        /\ new.send_n = st.send_n /\ new.recv_n = st.recv_n
        /\ new.dh_remote = st.dh_remote
    BY <1>1, <1>2 DEF AfterDecrypt, RatchetState
  <2>5. sk \subseteq st.skipped
    OBVIOUS
  <2>6. \A f \in sk : f.dh # e.dh \/ f.n # e.n
    BY <2>2 DEF CacheHits
  <2> HIDE DEF sk, new, k
  <2>7. InOrder(new)
    BY <2>4, <2>5 DEF InOrder
  <2>8. GivesNoMore(st, new)
    BY <2>4, <2>5, DerivableCases DEF GivesNoMore
  <2>9. Derivable(st, k)
    BY <2>1, <2>2, DerivableCases
  <2>10. ~ Derivable(new, k)
    <3>1. /\ Behind(k.root, st.root_key) /\ k.n = e.n
          /\ (st.recv_ck # None /\ k.root = st.recv_ck.root) => e.n < st.recv_n
      BY <2>1, <2>2 DEF InOrder
    <3>2. \A f \in sk : f.key # k
      <4>1. ASSUME NEW f \in sk, f.key = k PROVE FALSE
        <5>1. f.n = e.n /\ f.dh = e.dh
          BY <2>1, <2>2, <2>5, <3>1, <4>1 DEF InOrder
        <5> QED
          BY <2>6, <5>1
      <4> QED
        BY <4>1
    <3>3. k.root # st.root_key
      BY <3>1, NotBehindItself
    <3>4. st.send_ck # None => st.send_ck.root # k.root
      BY <3>3 DEF InOrder
    <3>5. ~ (st.recv_ck # None /\ k.root = st.recv_ck.root /\ k.n >= st.recv_ck.n)
      <4>1. st.recv_ck # None => st.recv_ck.n = st.recv_n
        BY DEF InOrder
      <4>2. e.n \in Nat
        BY <1>1, <2>2 DEF RatchetState, SkippedKey
      <4> QED
        BY <1>1, <3>1, <4>1, <4>2
    <3>6. ~ Behind(st.root_key, k.root)
      <4>1. k.root \in RootKey /\ st.root_key \in RootKey
        BY <1>1, <2>3 DEF MessageKey, ChainKey, RatchetState
      <4> QED
        BY <3>1, <4>1, BehindTransitive, NotBehindItself
    <3> QED
      BY <2>4, <3>2, <3>4, <3>5, <3>6, DerivableCases
  <2> QED
    BY <1>1, <2>3, <2>4, <2>7, <2>8, <2>9, <2>10 DEF new, k
<1>3. CASE CacheHits(st, hdr) = {}
  <2> DEFINE r == Ratcheted(st, hdr, fresh)
             s == CaughtUp(st, hdr, fresh)
  <2>1. /\ WellFormed(r) /\ InOrder(r) /\ GivesNoMore(st, r)
        /\ r = st \/ Behind(st.root_key, r.root_key)
    BY RatchetedInOrder
  <2>2. s = SkipMessageKeys(r, hdr.n) /\ WellFormed(s)
    BY CaughtUpType DEF CaughtUp
  <2>3. s.recv_ck # None
    BY <1>3 DEF Raises
  <2>4. /\ k = s.recv_ck
        /\ new = [s EXCEPT !.recv_ck = KdfCk(@), !.recv_n = @ + 1]
    BY <1>3 DEF OpeningKey, AfterDecrypt
  <2> HIDE DEF r, s, new, k
  <2>5. /\ InOrder(s) /\ GivesNoMore(r, s) /\ s.root_key = r.root_key
        /\ s.send_n = r.send_n /\ r.recv_n <= s.recv_n
    BY <1>1, <2>1, <2>2, SkipInOrder
  <2>6. GivesNoMore(st, s)
    BY <2>1, <2>5, GivesNoMoreTransitive
  <2>7. /\ s \in RatchetState /\ k \in ChainKey /\ s.recv_n \in Nat
        /\ k.root \in RootKey /\ k.n \in Nat /\ k.n = s.recv_n
        /\ s.root_key \in RootKey /\ Behind(k.root, s.root_key)
    BY <2>2, <2>3, <2>4, <2>5 DEF WellFormed, RatchetState, ChainKey, InOrder
  <2>8. /\ KdfCk(k).root = k.root /\ KdfCk(k).n = k.n + 1 /\ KdfCk(k) \in ChainKey
    BY <2>7 DEF KdfCk, ChainKey
  <2>9. /\ new.skipped = s.skipped /\ new.root_key = s.root_key
        /\ new.send_ck = s.send_ck /\ new.recv_ck = KdfCk(k)
        /\ new.send_n = s.send_n /\ new.recv_n = s.recv_n + 1
        /\ new.dh_remote = s.dh_remote
    BY <2>4, <2>7 DEF RatchetState
  <2>10. \A e \in s.skipped : e.n \in Nat
    BY <2>7 DEF RatchetState, SkippedKey
  <2>11. InOrder(new)
    <3>1. new.recv_ck # None
      BY <2>8, <2>9, NoneIsNoChainKey
    <3>2. /\ new.send_ck # None => new.send_ck.root = new.root_key
          /\ Behind(new.recv_ck.root, new.root_key) /\ new.recv_ck.n = new.recv_n
      BY <2>5, <2>7, <2>8, <2>9 DEF InOrder
    <3>3. ASSUME NEW e \in new.skipped
          PROVE  /\ Behind(e.key.root, new.root_key) /\ e.key.n = e.n
                 /\ e.key.root = new.recv_ck.root =>
                      e.dh = new.dh_remote /\ e.n < new.recv_n
      <4>1. /\ e \in s.skipped /\ Behind(e.key.root, s.root_key) /\ e.key.n = e.n
            /\ e.key.root = k.root => e.dh = s.dh_remote /\ e.n < s.recv_n
        BY <2>3, <2>4, <2>5, <2>9, <3>3 DEF InOrder
      <4> QED
        BY <2>7, <2>8, <2>9, <2>10, <4>1
    <3>4. \A e, f \in new.skipped : e.key.root = f.key.root => e.dh = f.dh
      BY <2>5, <2>9 DEF InOrder
    <3> QED
      BY <3>2, <3>3, <3>4 DEF InOrder
  <2>12. GivesNoMore(s, new)
    <3>1. ASSUME NEW l \in MessageKey, Derivable(new, l) PROVE Derivable(s, l)
      <4>1. l.n \in Nat
        BY DEF MessageKey, ChainKey
      <4>2. CASE l.root = KdfCk(k).root /\ l.n >= KdfCk(k).n
        <5>1. l.root = s.recv_ck.root /\ l.n >= s.recv_ck.n
          BY <2>4, <2>7, <2>8, <4>1, <4>2
        <5> QED
          BY <2>3, <5>1, DerivableCases
      <4> QED
        BY <2>9, <3>1, <4>2, DerivableCases
    <3> QED
      BY <3>1 DEF GivesNoMore
  <2>13. GivesNoMore(st, new)
    BY <2>6, <2>12, GivesNoMoreTransitive
  <2>14. k \in MessageKey
    BY <2>7 DEF MessageKey
  <2>15. Derivable(st, k)
    <3>1. Derivable(s, k)
      BY <2>3, <2>4, <2>7, DerivableCases
    <3> QED
      BY <2>6, <2>14, <3>1 DEF GivesNoMore
  <2>16. ~ Derivable(new, k)
    <3>1. \A e \in s.skipped : e.key # k
      <4>1. ASSUME NEW e \in s.skipped, e.key = k PROVE FALSE
        <5>1. e.n < s.recv_n /\ k.n = e.n
          BY <2>3, <2>4, <2>5, <4>1 DEF InOrder
        <5> QED
          BY <2>7, <2>10, <5>1
      <4> QED
        BY <4>1
    <3>2. k.root # s.root_key /\ ~ Behind(s.root_key, k.root)
      BY <2>7, BehindTransitive, NotBehindItself
    <3>3. s.send_ck # None => s.send_ck.root # k.root
      BY <2>5, <3>2 DEF InOrder
    <3>4. ~ (k.n >= KdfCk(k).n)
      BY <2>7, <2>8
    <3> QED
      BY <2>9, <3>1, <3>2, <3>3, <3>4, DerivableCases
  <2>17. \/ /\ new.root_key = st.root_key
            /\ new.send_n = st.send_n /\ st.recv_n <= new.recv_n
         \/ Behind(st.root_key, new.root_key)
    <3>1. CASE r = st
      BY <1>1, <2>5, <2>7, <2>9, <3>1
    <3>2. CASE Behind(st.root_key, r.root_key)
      BY <2>5, <2>9, <3>2
    <3> QED
      BY <2>1, <3>1, <3>2
  <2> QED
    BY <2>11, <2>13, <2>14, <2>15, <2>16, <2>17 DEF new, k
<1> QED
  BY <1>2, <1>3

-----------------------------------------------------------------------------
(* The secrets a user knows. *)

(* The keys p has sealed or opened a text with. *)
Used(p) == opened[p] \cup {s.key : s \in {t \in sealed : t.text.from = p}}

(* p has a session, or has used a key, that descends from sk. *)
Knows(p, sk) ==
    \/ \E q \in User : session[p][q] # None /\ session[p][q].root_key.sk = sk
    \/ \E k \in Used(p) : k.root.sk = sk

(* The ephemeral keys in sk are none that are yet to be generated. *)
SecretIn(kg, sk) == \A k \in sk.dh2 : k.kind = "ek" => k.id < kg[k.owner]

(* Of the one-time prekeys of p, whose identity is g and who holds those   *)
(* of ids, sk has none p still holds.                                      *)
GoneFrom(p, g, ids, sk) ==
    \A k \in sk.dh4 : (k.kind = "opk" /\ k.owner = p) =>
        /\ k.gen <= g
        /\ k.gen = g => k.id \notin ids

PrekeyGone(p, sk) == GoneFrom(p, identity[p], opks[p], sk)

(* The relay serves bundles as their owners made them. *)
BundlesGenuine ==
    \A p \in User : awaiting[p] # None =>
        /\ awaiting[p].peer # p
        /\ \E g \in Nat, S \in SUBSET Nat :
              awaiting[p].bundle = PublicBundle(awaiting[p].peer, g, S)

(* m is the first payload of a session its author set up, in identity g,   *)
(* against a bundle of its addressee, with the i-th key pairs.             *)
FirstPayload(m, b, g, i) ==
    LET st == InitSender(X3dhSecretSend(IK(m.from, g), b, EK(m.from, i)),
                         b.spk, RatchetKey(m.from, i))
    IN  /\ m.x3dh = X3dhHeaderSend(IK(m.from, g), b, EK(m.from, i))
        /\ m.hdr = SealedHeader(st)
        /\ m.key = SealingKey(st)

HeaderGenuine(kg, m) ==
    m.x3dh # None =>
        \E g, h, i \in Nat, S \in SUBSET Nat :
            /\ i < kg[m.from]
            /\ FirstPayload(m, PublicBundle(m.to, h, S), g, i)

(* Every X3DH header comes from such a payload. *)
HeadersGenuine ==
    /\ \A p \in User : outbox[p] # None => HeaderGenuine(keygen, outbox[p])
    /\ \A m \in net : HeaderGenuine(keygen, m)

(* No secret a user knows has a key yet to be generated, or a prekey the   *)
(* user still holds.                                                       *)
SecretsOld ==
    \A p \in User, sk \in SecretKey :
        Knows(p, sk) => SecretIn(keygen, sk) /\ PrekeyGone(p, sk)

(* No two sessions of a user descend from one secret with a prekey. *)
SecretsApart ==
    \A p, q, v \in User :
        (/\ session[p][q] # None /\ session[p][v] # None
         /\ session[p][q].root_key.sk = session[p][v].root_key.sk
         /\ session[p][q].root_key.sk.dh4 # {})
        => q = v

SessionsInOrder ==
    \A p, q \in User : session[p][q] # None => InOrder(session[p][q])

SecrecyInv ==
    /\ KeyInv
    /\ BundlesGenuine
    /\ HeadersGenuine
    /\ SessionsInOrder
    /\ SecretsOld
    /\ SecretsApart
    /\ ForwardSecrecy
-----------------------------------------------------------------------------
(* The secrets of new sessions. *)

(* The types and the well-formed sessions, as the proofs below use them. *)
LEMMA SecrecyTypes ==
    ASSUME SecrecyInv
    PROVE  /\ TypeInv
           /\ session \in [User -> [User -> RatchetState \cup {None}]]
           /\ identity \in [User -> Nat] /\ opks \in [User -> SUBSET Nat]
           /\ keygen \in [User -> Nat]
           /\ awaiting \in [User -> [peer : User, bundle : Bundle] \cup {None}]
           /\ outbox \in [User -> Payload \cup {None}]
           /\ net \in SUBSET Payload
           /\ \A p \in User : Used(p) \subseteq MessageKey
           /\ \A p, q \in User : session[p][q] # None => WellFormed(session[p][q])
BY DEF SecrecyInv, KeyInv, TypeInv, TypeOK, Used, SessionsWellFormed

(* An initiator's secret has a key nobody has seen, and no prekey of its   *)
(* own.                                                                    *)
LEMMA InitiatorSecret ==
    ASSUME SecrecyInv, NEW p \in User, awaiting[p] # None
    PROVE  LET sk == X3dhSecretSend(IK(p, identity[p]), awaiting[p].bundle,
                                    EK(p, keygen[p]))
               kh == [keygen EXCEPT ![p] = @ + 1]
           IN  /\ sk \in SecretKey
               /\ ~ SecretIn(keygen, sk) /\ SecretIn(kh, sk)
               /\ \A k \in sk.dh4 : k.kind = "opk" => k.owner # p
<1> DEFINE b  == awaiting[p].bundle
           q  == awaiting[p].peer
           ek == EK(p, keygen[p])
           sk == X3dhSecretSend(IK(p, identity[p]), b, ek)
           kh == [keygen EXCEPT ![p] = @ + 1]
<1>1. /\ keygen \in [User -> Nat] /\ identity[p] \in Nat
      /\ b \in Bundle /\ q \in User
  BY SecrecyTypes
<1>2. q # p /\ \E g \in Nat, S \in SUBSET Nat : b = PublicBundle(q, g, S)
  BY DEF SecrecyInv, BundlesGenuine
<1>3. PICK g \in Nat, S \in SUBSET Nat : b = PublicBundle(q, g, S)
  BY <1>2
<1>4. b.ik = IK(q, g) /\ b.spk = SPK(q, g)
  BY <1>3 DEF PublicBundle
<1>5. /\ ek.kind = "ek" /\ ek.owner = p /\ ek.id = keygen[p]
      /\ b.ik.kind = "ik" /\ b.spk.owner = q
  BY <1>4 DEF EK, IK, SPK
<1>6. sk \in SecretKey
  BY <1>1, InitiatorType
<1>7. /\ sk.dh2 = {ek, b.ik}
      /\ \A k \in sk.dh4 : k = ek \/ k = BundleOpk(b)
  BY DEF X3dhSecretSend, DH
<1>8. BundleOpk(b).owner = q
  BY <1>5 DEF BundleOpk, OPK
<1> HIDE DEF b, q, ek, sk
<1>9. ~ SecretIn(keygen, sk)
  BY <1>1, <1>5, <1>7 DEF SecretIn
<1>10. SecretIn(kh, sk)
  BY <1>1, <1>5, <1>7 DEF SecretIn
<1>11. \A k \in sk.dh4 : k.kind = "opk" => k.owner # p
  BY <1>2, <1>5, <1>7, <1>8
<1> QED
  BY <1>6, <1>9, <1>10, <1>11 DEF sk, b, ek

(* A responder's secret has generated keys, and a prekey the responder     *)
(* held until now: it knows no other such secret.                          *)
LEMMA ResponderSecret ==
    ASSUME SecrecyInv, NEW p \in User, NEW m \in net, m.x3dh # None,
           Accepts(p, m)
    PROVE  LET sk == X3dhSecretReceive(p, identity[p], m.x3dh) IN
           /\ sk \in SecretKey
           /\ SecretIn(keygen, sk)
           /\ GoneFrom(p, identity[p], OpksAfter(p, m), sk)
           /\ sk.dh4 # {} => ~ Knows(p, sk)
<1> DEFINE h   == m.x3dh
           sk  == X3dhSecretReceive(p, identity[p], h)
           opk == OPK(p, identity[p], h.opk_id)
<1>1. /\ keygen \in [User -> Nat] /\ identity[p] \in Nat
      /\ opks \in [User -> SUBSET Nat]
      /\ m.from \in User /\ h \in X3dhHeader
  BY SecrecyTypes DEF Payload
<1>2. PICK i \in Nat : i < keygen[m.from] /\ h.ek = EK(m.from, i)
  <2>1. HeaderGenuine(keygen, m)
    BY DEF SecrecyInv, HeadersGenuine
  <2>2. PICK g, f, i \in Nat, S \in SUBSET Nat :
          /\ i < keygen[m.from]
          /\ FirstPayload(m, PublicBundle(m.to, f, S), g, i)
    BY <2>1 DEF HeaderGenuine
  <2>3. h = X3dhHeaderSend(IK(m.from, g), PublicBundle(m.to, f, S), EK(m.from, i))
    BY <2>2 DEF FirstPayload
  <2>4. h.ek = EK(m.from, i)
    BY <2>3 DEF X3dhHeaderSend
  <2> QED
    BY <2>2, <2>4
<1>3. h.ek.kind = "ek" /\ h.ek.owner = m.from /\ h.ek.id = i
  BY <1>2 DEF EK
<1>4. IK(p, identity[p]) \in Key /\ SPK(p, identity[p]) \in Key
  BY <1>1 DEF IK, SPK, Key, Kind
<1>5. h.opk_id # None => opk \in Key
  BY <1>1 DEF OPK, Key, Kind, X3dhHeader
<1>6. sk \in SecretKey
  BY <1>1, <1>4, <1>5 DEF X3dhSecretReceive, SecretKey, DH, X3dhHeader
<1>7. /\ sk.dh2 = {IK(p, identity[p]), h.ek}
      /\ h.opk_id = None => sk.dh4 = {}
      /\ h.opk_id # None => sk.dh4 = {opk, h.ek}
  BY DEF X3dhSecretReceive, DH
<1>8. IK(p, identity[p]).kind = "ik"
  BY DEF IK
<1>9. /\ opk.kind = "opk" /\ opk.owner = p /\ opk.gen = identity[p]
      /\ opk.id = h.opk_id
  BY DEF OPK
<1>10. /\ h.opk_id # None => h.opk_id \in opks[p]
       /\ OpksAfter(p, m) = opks[p] \ {h.opk_id}
  BY <1>1 DEF Accepts, OpkHeld, OpksAfter, PopOpk
<1> HIDE DEF h, sk, opk
<1>11. SecretIn(keygen, sk)
  BY <1>2, <1>3, <1>7, <1>8 DEF SecretIn
<1>12. GoneFrom(p, identity[p], OpksAfter(p, m), sk)
  BY <1>1, <1>3, <1>7, <1>9, <1>10 DEF GoneFrom
<1>13. ASSUME sk.dh4 # {}, Knows(p, sk) PROVE FALSE
  <2>1. PrekeyGone(p, sk)
    BY <1>6, <1>13 DEF SecrecyInv, SecretsOld
  <2> QED
    BY <1>7, <1>9, <1>10, <1>13, <2>1 DEF PrekeyGone, GoneFrom
<1> QED
  BY <1>6, <1>11, <1>12, <1>13 DEF sk, h

(* The first states of a session are in order. *)
LEMMA FirstStatesInOrder ==
    ASSUME NEW sk
    PROVE  /\ \A remote, fresh : InOrder(InitSender(sk, remote, fresh))
           /\ \A remote, fresh : InitSender(sk, remote, fresh).root_key.sk = sk
           /\ \A spk : InOrder(InitReceiver(sk, spk))
           /\ \A spk : InitReceiver(sk, spk).root_key.sk = sk
BY DEF InitSender, InitReceiver, InOrder, FirstChainKey, KdfRk

-----------------------------------------------------------------------------
(* How the parts of the invariant are kept. *)

(* Generating keys takes none back. *)
LEMMA SecretStaysIn ==
    ASSUME NEW kg \in [User -> Nat], NEW kh \in [User -> Nat],
           \A u \in User : kg[u] <= kh[u],
           NEW sk \in SecretKey, SecretIn(kg, sk)
    PROVE  SecretIn(kh, sk)
<1>1. ASSUME NEW k \in sk.dh2, k.kind = "ek" PROVE k.id < kh[k.owner]
  <2>1. k \in Key
    BY DEF SecretKey
  <2>2. k.owner \in User /\ k.id \in Nat
    BY <2>1 DEF Key
  <2>3. k.id < kg[k.owner]
    BY <1>1 DEF SecretIn
  <2>4. kg[k.owner] \in Nat /\ kh[k.owner] \in Nat /\ kg[k.owner] <= kh[k.owner]
    BY <2>2
  <2> QED
    BY <2>2, <2>3, <2>4
<1> QED
  BY <1>1 DEF SecretIn

(* Key pairs generated later make no header less genuine. *)
LEMMA HeaderStaysGenuine ==
    ASSUME NEW kg \in [User -> Nat], NEW kh \in [User -> Nat],
           \A u \in User : kg[u] <= kh[u],
           NEW m \in Payload, HeaderGenuine(kg, m)
    PROVE  HeaderGenuine(kh, m)
<1>1. m.from \in User
  BY DEF Payload
<1>2. kg[m.from] \in Nat /\ kh[m.from] \in Nat /\ kg[m.from] <= kh[m.from]
  BY <1>1
<1>3. \A i \in Nat : i < kg[m.from] => i < kh[m.from]
  BY <1>2
<1> QED
  BY <1>3 DEF HeaderGenuine

(* A prekey that is gone does not come back: a new identity has others.    *)
LEMMA PrekeyStaysGone ==
    ASSUME NEW p \in User, NEW sk \in SecretKey, PrekeyGone(p, sk),
           identity[p] \in Nat,
           \/ identity'[p] = identity[p] /\ opks'[p] \subseteq opks[p]
           \/ identity'[p] = identity[p] + 1
    PROVE  PrekeyGone(p, sk)'
<1>1. SUFFICES ASSUME NEW k \in sk.dh4, k.kind = "opk", k.owner = p
               PROVE  /\ k.gen <= identity'[p]
                      /\ k.gen = identity'[p] => k.id \notin opks'[p]
  BY DEF PrekeyGone, GoneFrom
<1>2. k \in Key
  BY DEF SecretKey
<1>3. k.gen \in Nat
  BY <1>2 DEF Key
<1>4. k.gen <= identity[p] /\ (k.gen = identity[p] => k.id \notin opks[p])
  BY <1>1 DEF PrekeyGone, GoneFrom
<1> QED
  BY <1>3, <1>4

(* Headers stay genuine if the payloads a step adds are. *)
LEMMA HeadersGenuineStep ==
    ASSUME SecrecyInv, keygen' \in [User -> Nat],
           \A u \in User : keygen[u] <= keygen'[u],
           \A u \in User : \/ outbox'[u] \in {outbox[u], None}
                           \/ HeaderGenuine(keygen', outbox'[u]),
           \A m \in net' : m \in net \/ HeaderGenuine(keygen', m)
    PROVE  HeadersGenuine'
<1>1. /\ keygen \in [User -> Nat] /\ outbox \in [User -> Payload \cup {None}]
      /\ net \in SUBSET Payload /\ HeadersGenuine
  BY SecrecyTypes DEF SecrecyInv
<1>2. \A m \in Payload : HeaderGenuine(keygen, m) => HeaderGenuine(keygen', m)
  BY <1>1, HeaderStaysGenuine
<1>3. ASSUME NEW u \in User, outbox'[u] # None
      PROVE  HeaderGenuine(keygen', outbox'[u])
  BY <1>1, <1>2, <1>3 DEF HeadersGenuine
<1>4. ASSUME NEW m \in net' PROVE HeaderGenuine(keygen', m)
  BY <1>1, <1>2 DEF HeadersGenuine
<1> QED
  BY <1>3, <1>4 DEF HeadersGenuine

(* Secrets stay old if those a step adds are. *)
LEMMA SecretsOldStep ==
    ASSUME SecrecyInv, keygen' \in [User -> Nat],
           \A u \in User : keygen[u] <= keygen'[u],
           \A u \in User : \/ identity'[u] = identity[u] /\ opks'[u] \subseteq opks[u]
                           \/ identity'[u] = identity[u] + 1,
           \A u \in User, sk \in SecretKey :
              Knows(u, sk)' => \/ Knows(u, sk)
                               \/ SecretIn(keygen', sk) /\ PrekeyGone(u, sk)'
    PROVE  SecretsOld'
<1>1. /\ keygen \in [User -> Nat] /\ identity \in [User -> Nat]
      /\ SecretsOld
  BY SecrecyTypes DEF SecrecyInv
<1>2. ASSUME NEW u \in User, NEW sk \in SecretKey, Knows(u, sk)'
      PROVE  SecretIn(keygen', sk) /\ PrekeyGone(u, sk)'
  <2>1. CASE Knows(u, sk)
    <3>1. SecretIn(keygen, sk) /\ PrekeyGone(u, sk)
      BY <1>1, <2>1 DEF SecretsOld
    <3> QED
      BY <1>1, <3>1, SecretStaysIn, PrekeyStaysGone
  <2>2. CASE SecretIn(keygen', sk) /\ PrekeyGone(u, sk)'
    BY <2>2
  <2> QED
    BY <1>2, <2>1, <2>2
<1> QED
  BY <1>2 DEF SecretsOld
(* new is st moved on: under the same root key, with counters that do not  *)
(* go back, or under a later one.                                          *)
MovesOn(st, new) ==
    \/ /\ new.root_key = st.root_key
       /\ st.send_n <= new.send_n /\ st.recv_n <= new.recv_n
    \/ Behind(st.root_key, new.root_key)

(* The state new continues the session of p with q. *)
Continues(p, q, new) ==
    /\ session[p][q] # None
    /\ new.root_key.sk = session[p][q].root_key.sk
    /\ GivesNoMore(session[p][q], new)
    /\ MovesOn(session[p][q], new)

(* Or it descends from a secret that is new to p, or has no prekey. *)
Begins(p, new) ==
    new.root_key.sk.dh4 # {} => ~ Knows(p, new.root_key.sk)

(* The session with q is stored in state new, and of the keys p used since *)
(* none can be had from it: no used key can be had from any session.       *)
LEMMA StoreSecret ==
    ASSUME SecrecyInv, NEW p \in User, NEW q \in User,
           NEW new, WellFormed(new), InOrder(new),
           Continues(p, q, new) \/ Begins(p, new),
           session' = [session EXCEPT ![p][q] = new],
           \A k \in Used(p)' : \/ k \in Used(p)
                               \/ /\ k.root.sk = new.root_key.sk
                                  /\ ~ Derivable(new, k),
           \A u \in User \ {p} : Used(u)' = Used(u)
    PROVE  SessionsInOrder' /\ SecretsApart' /\ ForwardSecrecy'
<1>1. /\ session \in [User -> [User -> RatchetState \cup {None}]]
      /\ \A u \in User : Used(u) \subseteq MessageKey
  BY SecrecyTypes
<1>2. /\ session'[p][q] = new
      /\ \A u, v \in User : <<u, v>> # <<p, q>> => session'[u][v] = session[u][v]
  BY <1>1
<1>3. /\ \A u, v \in User : session[u][v] # None => InOrder(session[u][v])
      /\ SecretsApart
      /\ \A u, v \in User : session[u][v] # None =>
            \A k \in Used(u) : WithOpk(k) => ~ Derivable(session[u][v], k)
  BY DEF SecrecyInv, SessionsInOrder, ForwardSecrecy, Used
<1>4. SessionsInOrder'
  BY <1>2, <1>3 DEF SessionsInOrder
<1>5. ASSUME NEW v \in User, v # q, session[p][v] # None,
             session[p][v].root_key.sk = new.root_key.sk,
             new.root_key.sk.dh4 # {}
      PROVE  FALSE
  <2>1. CASE Continues(p, q, new)
    BY <1>3, <1>5, <2>1 DEF Continues, SecretsApart
  <2>2. CASE Begins(p, new)
    BY <1>5, <2>2 DEF Begins, Knows
  <2> QED
    BY <2>1, <2>2
<1>6. SecretsApart'
  BY <1>2, <1>3, <1>5 DEF SecretsApart
<1>7. ASSUME NEW u \in User, NEW v \in User, session'[u][v] # None,
             NEW k \in Used(u)', WithOpk(k), Derivable(session'[u][v], k)
      PROVE  FALSE
  <2>1. CASE u # p
    BY <1>2, <1>3, <1>7, <2>1
  <2>2. CASE u = p /\ v # q /\ k \in Used(p)
    BY <1>2, <1>3, <1>7, <2>2
  <2>3. CASE u = p /\ v # q /\ k.root.sk = new.root_key.sk
    <3>1. session'[p][v] = session[p][v] /\ session[p][v] # None
      BY <1>2, <1>7, <2>3
    <3>2. k.root.sk = session[p][v].root_key.sk
      BY <1>3, <1>7, <2>3, <3>1, DerivableSecret
    <3> QED
      BY <1>5, <1>7, <2>3, <3>1, <3>2 DEF WithOpk
  <2>4. CASE u = p /\ v = q /\ k \in Used(p)
    <3>1. Derivable(new, k) /\ k \in MessageKey
      BY <1>1, <1>2, <1>7, <2>4
    <3>2. CASE Continues(p, q, new)
      BY <1>3, <1>7, <2>4, <3>1, <3>2 DEF Continues, GivesNoMore
    <3>3. CASE Begins(p, new)
      <4>1. k.root.sk = new.root_key.sk
        BY <3>1, DerivableSecret
      <4> QED
        BY <1>7, <2>4, <3>3, <4>1 DEF Begins, Knows, WithOpk
    <3> QED
      BY <3>2, <3>3
  <2>5. CASE u = p /\ v = q /\ ~ Derivable(new, k)
    BY <1>2, <1>7, <2>5
  <2> QED
    BY <1>7, <2>1, <2>2, <2>3, <2>4, <2>5
<1>8. ForwardSecrecy'
  BY <1>7 DEF ForwardSecrecy, Used
<1> QED
  BY <1>4, <1>6, <1>8

(* Nor is there a secret p did not know, but that of new. *)
LEMMA StoreKnows ==
    ASSUME SecrecyInv, NEW p \in User, NEW q \in User,
           NEW new,
           session' = [session EXCEPT ![p][q] = new],
           \A k \in Used(p)' : k \in Used(p) \/ k.root.sk = new.root_key.sk,
           \A u \in User \ {p} : Used(u)' = Used(u)
    PROVE  \A u \in User, sk \in SecretKey :
              Knows(u, sk)' => \/ Knows(u, sk)
                               \/ u = p /\ sk = new.root_key.sk
<1>1. session \in [User -> [User -> RatchetState \cup {None}]]
  BY SecrecyTypes
<1>2. /\ session'[p][q] = new
      /\ \A u, v \in User : <<u, v>> # <<p, q>> => session'[u][v] = session[u][v]
  BY <1>1
<1>3. TAKE u \in User, sk \in SecretKey
<1>4. ASSUME NEW v \in User, session'[u][v] # None, session'[u][v].root_key.sk = sk
      PROVE  Knows(u, sk) \/ (u = p /\ sk = new.root_key.sk)
  BY <1>2, <1>4 DEF Knows
<1>5. ASSUME NEW k \in Used(u)', k.root.sk = sk
      PROVE  Knows(u, sk) \/ (u = p /\ sk = new.root_key.sk)
  <2>1. CASE u = p
    BY <1>5, <2>1 DEF Knows
  <2>2. CASE u # p
    BY <1>5, <2>2 DEF Knows
  <2> QED
    BY <2>1, <2>2
<1> QED
  BY <1>4, <1>5 DEF Knows

(* A step that leaves the sessions and the used keys alone. *)
LEMMA SecretsUntouched ==
    ASSUME SecrecyInv, session' = session, opened' = opened, sealed' = sealed
    PROVE  /\ SessionsInOrder' /\ SecretsApart' /\ ForwardSecrecy'
           /\ \A u \in User, sk \in SecretKey : Knows(u, sk)' => Knows(u, sk)
<1>1. SessionsInOrder' /\ SecretsApart' /\ ForwardSecrecy'
  BY DEF SecrecyInv, SessionsInOrder, SecretsApart, ForwardSecrecy
<1>2. \A u \in User, sk \in SecretKey : Knows(u, sk)' => Knows(u, sk)
  BY DEF Knows, Used
<1> QED
  BY <1>1, <1>2

(* Bundles stay genuine while nothing but GetBundle waits for one. *)
LEMMA BundlesStayGenuine ==
    ASSUME SecrecyInv, \A u \in User : awaiting'[u] \in {awaiting[u], None}
    PROVE  BundlesGenuine'
<1>1. ASSUME NEW u \in User, awaiting'[u] # None
      PROVE  /\ awaiting'[u].peer # u
             /\ \E g \in Nat, S \in SUBSET Nat :
                   awaiting'[u].bundle = PublicBundle(awaiting'[u].peer, g, S)
  <2>1. awaiting'[u] = awaiting[u]
    BY <1>1
  <2> QED
    BY <1>1, <2>1 DEF SecrecyInv, BundlesGenuine
<1> QED
  BY <1>1 DEF BundlesGenuine

(* What sealing adds to the used keys. *)
LEMMA SealUses ==
    ASSUME SecrecyInv, NEW p \in User, NEW q \in User, NEW st, NEW x3dh,
           Seal(p, q, st, x3dh), opened' = opened
    PROVE  /\ \A k \in Used(p)' : k \in Used(p) \/ k = SealingKey(st)
           /\ \A u \in User \ {p} : Used(u)' = Used(u)
<1> DEFINE new == [key  |-> SealingKey(st),
                   text |-> [from |-> p, to |-> q, no |-> typed[p]]]
<1>1. sealed' = sealed \cup {new} /\ new.key = SealingKey(st) /\ new.text.from = p
  BY DEF Seal
<1> HIDE DEF new
<1> QED
  BY <1>1 DEF Used
(* All of it together, for a step that stores one state. *)
LEMMA StoreSecrecy ==
    ASSUME SecrecyInv, KeyInv', NEW p \in User, NEW q \in User,
           NEW new, WellFormed(new), InOrder(new),
           \/ Continues(p, q, new)
           \/ /\ Begins(p, new)
              /\ SecretIn(keygen', new.root_key.sk)
              /\ GoneFrom(p, identity[p], opks'[p], new.root_key.sk),
           session' = [session EXCEPT ![p][q] = new],
           \A k \in Used(p)' : \/ k \in Used(p)
                               \/ /\ k.root.sk = new.root_key.sk
                                  /\ ~ Derivable(new, k),
           \A u \in User \ {p} : Used(u)' = Used(u),
           keygen' \in [User -> Nat], \A u \in User : keygen[u] <= keygen'[u],
           identity' = identity, \A u \in User : opks'[u] \subseteq opks[u],
           BundlesGenuine', HeadersGenuine'
    PROVE  SecrecyInv'
<1>1. Continues(p, q, new) \/ Begins(p, new)
  OBVIOUS
<1>2. SessionsInOrder' /\ SecretsApart' /\ ForwardSecrecy'
  BY <1>1, StoreSecret
<1>3. \A k \in Used(p)' : k \in Used(p) \/ k.root.sk = new.root_key.sk
  OBVIOUS
<1>4. \A u \in User, sk \in SecretKey :
         Knows(u, sk)' => Knows(u, sk) \/ (u = p /\ sk = new.root_key.sk)
  BY <1>3, StoreKnows
<1>5. ASSUME NEW u \in User, NEW sk \in SecretKey, Knows(u, sk)'
      PROVE  \/ Knows(u, sk)
             \/ SecretIn(keygen', sk) /\ PrekeyGone(u, sk)'
  <2>1. CASE u = p /\ sk = new.root_key.sk
    <3>1. CASE Continues(p, q, new)
      BY <2>1, <3>1 DEF Continues, Knows
    <3>2. CASE /\ SecretIn(keygen', new.root_key.sk)
               /\ GoneFrom(p, identity[p], opks'[p], new.root_key.sk)
      BY <2>1, <3>2 DEF PrekeyGone
    <3> QED
      BY <3>1, <3>2
  <2> QED
    BY <1>4, <1>5, <2>1
<1>6. \A u \in User : \/ identity'[u] = identity[u] /\ opks'[u] \subseteq opks[u]
                      \/ identity'[u] = identity[u] + 1
  OBVIOUS
<1>7. SecretsOld'
  BY <1>5, <1>6, SecretsOldStep
<1> QED
  BY <1>2, <1>7 DEF SecrecyInv

(* And for a step that stores none. *)
LEMMA QuietSecrecy ==
    ASSUME SecrecyInv, KeyInv',
           session' = session, opened' = opened, sealed' = sealed,
           keygen' = keygen,
           \A u \in User : \/ identity'[u] = identity[u] /\ opks'[u] \subseteq opks[u]
                           \/ identity'[u] = identity[u] + 1,
           BundlesGenuine', HeadersGenuine'
    PROVE  SecrecyInv'
<1>1. /\ SessionsInOrder' /\ SecretsApart' /\ ForwardSecrecy'
      /\ \A u \in User, sk \in SecretKey : Knows(u, sk)' => Knows(u, sk)
  BY SecretsUntouched
<1>2. keygen \in [User -> Nat]
  BY SecrecyTypes
<1>3. keygen' \in [User -> Nat] /\ \A u \in User : keygen[u] <= keygen'[u]
  BY <1>2
<1>4. SecretsOld'
  BY <1>1, <1>3, SecretsOldStep
<1> QED
  BY <1>1, <1>4 DEF SecrecyInv

(* At the start there is nothing to know. *)
LEMMA SecrecyInvInit == Init => SecrecyInv
<1> SUFFICES ASSUME Init PROVE SecrecyInv
  OBVIOUS
<1>1. /\ \A p, q \in User : session[p][q] = None
      /\ \A p \in User : awaiting[p] = None /\ outbox[p] = None
      /\ net = {} /\ sealed = {}
      /\ \A p \in User : opened[p] = {}
  BY DEF Init
<1>2. \A p \in User : Used(p) = {}
  BY <1>1 DEF Used
<1>3. ForwardSecrecy /\ SecretsApart /\ SessionsInOrder
  BY <1>1 DEF ForwardSecrecy, SecretsApart, SessionsInOrder
<1>4. SecretsOld
  BY <1>1, <1>2 DEF SecretsOld, Knows
<1>5. BundlesGenuine /\ HeadersGenuine
  BY <1>1 DEF BundlesGenuine, HeadersGenuine
<1> QED
  BY <1>3, <1>4, <1>5, KeyInvInit DEF SecrecyInv

-----------------------------------------------------------------------------
(* The actions. *)

(* What p stores when the bundle arrives descends from a new secret. *)
LEMMA InitiatorBegins ==
    ASSUME SecrecyInv, NEW p \in User, awaiting[p] # None,
           keygen' = [keygen EXCEPT ![p] = @ + 1]
    PROVE  LET st == InitiatorState(p) IN
           /\ awaiting[p].peer \in User
           /\ WellFormed(st) /\ InOrder(st) /\ CanEncrypt(st)
           /\ \A new : new.root_key = st.root_key =>
                 /\ Begins(p, new)
                 /\ SecretIn(keygen', new.root_key.sk)
                 /\ GoneFrom(p, identity[p], opks[p], new.root_key.sk)
           /\ keygen' \in [User -> Nat] /\ \A u \in User : keygen[u] <= keygen'[u]
<1> DEFINE st == InitiatorState(p)
           sk == X3dhSecretSend(IK(p, identity[p]), awaiting[p].bundle,
                                EK(p, keygen[p]))
<1>1. keygen \in [User -> Nat] /\ TypeInv
  BY SecrecyTypes
<1>2. awaiting[p].peer \in User /\ WellFormed(st) /\ CanEncrypt(st)
  BY <1>1, InitiatorStateType
<1>3. InOrder(st) /\ st.root_key.sk = sk
  BY FirstStatesInOrder DEF InitiatorState
<1>4. /\ sk \in SecretKey /\ ~ SecretIn(keygen, sk)
      /\ SecretIn([keygen EXCEPT ![p] = @ + 1], sk)
      /\ \A k \in sk.dh4 : k.kind = "opk" => k.owner # p
  BY InitiatorSecret
<1> HIDE DEF st, sk
<1>5. ~ Knows(p, sk)
  BY <1>4 DEF SecrecyInv, SecretsOld
<1>6. GoneFrom(p, identity[p], opks[p], sk)
  BY <1>4 DEF GoneFrom
<1>7. \A new : new.root_key = st.root_key =>
         /\ Begins(p, new)
         /\ SecretIn(keygen', new.root_key.sk)
         /\ GoneFrom(p, identity[p], opks[p], new.root_key.sk)
  BY <1>3, <1>4, <1>5, <1>6 DEF Begins
<1>8. keygen' \in [User -> Nat] /\ \A u \in User : keygen[u] <= keygen'[u]
  BY <1>1
<1> QED
  BY <1>2, <1>3, <1>7, <1>8 DEF st

(* The payload of Initiate has a genuine header. *)
LEMMA InitiateGenuine ==
    ASSUME SecrecyInv, NEW p \in User, Initiate(p)
    PROVE  BundlesGenuine' /\ HeadersGenuine'
<1> DEFINE b == awaiting[p].bundle
           q == awaiting[p].peer
           i == keygen[p]
           m == outbox'[p]
<1>1. /\ keygen \in [User -> Nat] /\ identity[p] \in Nat
      /\ outbox \in [User -> Payload \cup {None}]
      /\ awaiting \in [User -> [peer : User, bundle : Bundle] \cup {None}]
  BY SecrecyTypes
<1>2. /\ awaiting[p] # None
      /\ keygen' = [keygen EXCEPT ![p] = @ + 1]
      /\ awaiting' = [awaiting EXCEPT ![p] = None]
      /\ net' = net
  BY DEF Initiate
<1>3. /\ \A u \in User : u # p => outbox'[u] = outbox[u]
      /\ m.from = p /\ m.to = q
      /\ m.hdr = SealedHeader(InitiatorState(p))
      /\ m.key = SealingKey(InitiatorState(p))
      /\ m.x3dh = X3dhHeaderSend(IK(p, identity[p]), b, EK(p, i))
  BY <1>1 DEF Initiate, Seal
<1>4. PICK h \in Nat, S \in SUBSET Nat : b = PublicBundle(q, h, S)
  BY <1>2 DEF SecrecyInv, BundlesGenuine
<1>5. InitiatorState(p) =
        InitSender(X3dhSecretSend(IK(p, identity[p]), b, EK(p, i)),
                   b.spk, RatchetKey(p, i))
  BY DEF InitiatorState
<1>6. i \in Nat /\ i < keygen'[p]
  BY <1>1, <1>2
<1> HIDE DEF b, q, m, i
<1>7. FirstPayload(m, PublicBundle(m.to, h, S), identity[p], i)
  BY <1>3, <1>4, <1>5 DEF FirstPayload
<1>8. HeaderGenuine(keygen', m)
  <2>1. i < keygen'[m.from]
    BY <1>3, <1>6
  <2> QED
    BY <1>1, <1>4, <1>6, <1>7, <2>1 DEF HeaderGenuine
<1>9. \A u \in User : \/ outbox'[u] \in {outbox[u], None}
                      \/ HeaderGenuine(keygen', outbox'[u])
  BY <1>3, <1>8 DEF m
<1>10. keygen' \in [User -> Nat] /\ \A u \in User : keygen[u] <= keygen'[u]
  BY <1>1, <1>2
<1>11. HeadersGenuine'
  BY <1>2, <1>9, <1>10, HeadersGenuineStep
<1>12. \A u \in User : awaiting'[u] \in {awaiting[u], None}
  BY <1>1, <1>2
<1> QED
  BY <1>11, <1>12, BundlesStayGenuine

(* What processing a payload does: the session is stored in a state that   *)
(* continues it or begins a new one, and if the payload was opened, its    *)
(* key could be had before and cannot be had now.                          *)
LEMMA ReceiveSecret ==
    ASSUME SecrecyInv, NEW p \in User, NEW m \in net, Receive(p, m)
    PROVE  \E new :
             /\ WellFormed(new) /\ InOrder(new)
             /\ session' = [session EXCEPT ![p][m.from] = new]
             /\ \/ Continues(p, m.from, new)
                \/ /\ Begins(p, new)
                   /\ SecretIn(keygen, new.root_key.sk)
                   /\ GoneFrom(p, identity[p], opks'[p], new.root_key.sk)
                   /\ m.x3dh # None
                   /\ new.root_key.sk =
                        X3dhSecretReceive(p, identity[p], m.x3dh)
             /\ \/ opened' = opened /\ shown' = shown
                \/ /\ opened' = [opened EXCEPT ![p] = @ \cup {m.key}]
                   /\ shown' = [shown EXCEPT ![p] = Append(@, m.text)]
                   /\ m.key.root.sk = new.root_key.sk
                   /\ ~ Derivable(new, m.key)
                   /\ \/ Begins(p, new)
                      \/ /\ session[p][m.from] # None
                         /\ Derivable(session[p][m.from], m.key)
<1> DEFINE st    == ReceiverState(p, m)
           fresh == RatchetKey(p, keygen[p])
           opens == Opens(st, m.hdr, m.key, fresh)
           after == IF opens THEN AfterDecrypt(st, m.hdr, fresh) ELSE st
<1>1. /\ TypeInv /\ keygen \in [User -> Nat] /\ m.from \in User
      /\ m.hdr \in Header /\ fresh \in Key /\ opks \in [User -> SUBSET Nat]
      /\ opened \in [User -> SUBSET MessageKey] /\ shown \in [User -> Seq(Text)]
      /\ m.x3dh \in X3dhHeader \cup {None}
  BY SecrecyTypes DEF TypeInv, TypeOK, Payload, RatchetKey, Key, Kind
<1>2. /\ opens \/ m.x3dh # None
      /\ session' = [session EXCEPT ![p][m.from] = after]
      /\ opks' = [opks EXCEPT ![p] = OpksAfter(p, m)]
      /\ opened' = [opened EXCEPT ![p] = IF opens THEN @ \cup {m.key} ELSE @]
      /\ shown' = [shown EXCEPT ![p] = IF opens THEN Append(@, m.text) ELSE @]
  BY DEF Receive, SaveSession
<1>a. Accepts(p, m)
  BY DEF Receive
<1>3. WellFormed(st)
  BY <1>1, <1>a, ReceiverStateType
<1>4. m.x3dh = None => session[p][m.from] # None /\ st = session[p][m.from]
  BY <1>a DEF Accepts, HasSession, ReceiverState
<1>5. m.x3dh # None =>
        /\ st = InitReceiver(X3dhSecretReceive(p, identity[p], m.x3dh),
                             SPK(p, identity[p]))
        /\ st.root_key.sk = X3dhSecretReceive(p, identity[p], m.x3dh)
  BY FirstStatesInOrder DEF ReceiverState
<1>6. InOrder(st)
  BY <1>1, <1>4, <1>5, FirstStatesInOrder DEF SecrecyInv, SessionsInOrder
<1>7. opks'[p] = OpksAfter(p, m)
  BY <1>1, <1>2
<1>8. m.x3dh # None =>
        /\ st.root_key.sk = X3dhSecretReceive(p, identity[p], m.x3dh)
        /\ st.root_key.sk.dh4 # {} => ~ Knows(p, st.root_key.sk)
        /\ SecretIn(keygen, st.root_key.sk)
        /\ GoneFrom(p, identity[p], opks'[p], st.root_key.sk)
  <2> HIDE DEF st, after, opens
  <2> QED
    BY <1>a, <1>5, <1>7, ResponderSecret
<1> HIDE DEF st, fresh
<1>9. CASE opens
  <2> DEFINE new == AfterDecrypt(st, m.hdr, fresh)
  <2>1. ~ Raises(st, m.hdr, fresh) /\ OpeningKey(st, m.hdr, fresh) = m.key
    BY <1>9 DEF Opens
  <2>2. after = new
    BY <1>9
  <2>3. WellFormed(new)
    BY <1>1, <1>3, <2>1, AfterDecryptType
  <2>4. /\ InOrder(new) /\ GivesNoMore(st, new)
        /\ MovesOn(st, new)
        /\ Derivable(st, m.key) /\ ~ Derivable(new, m.key)
    <3>1. st.send_n \in Nat
      BY <1>3 DEF WellFormed, RatchetState
    <3> QED
      BY <1>1, <1>3, <1>6, <2>1, <3>1, DecryptInOrder DEF MovesOn
  <2> HIDE DEF new, after, opens
  <2>5. new.root_key.sk = st.root_key.sk
    BY <2>4 DEF MovesOn, Behind
  <2>6. m.key.root.sk = new.root_key.sk
    BY <1>6, <2>4, <2>5, DerivableSecret
  <2>7. \/ /\ m.x3dh = None /\ Continues(p, m.from, new)
           /\ Derivable(session[p][m.from], m.key)
        \/ m.x3dh # None /\ Begins(p, new)
    BY <1>4, <1>8, <2>4, <2>5 DEF Continues, Begins
  <2>8. /\ opened' = [opened EXCEPT ![p] = @ \cup {m.key}]
        /\ shown' = [shown EXCEPT ![p] = Append(@, m.text)]
        /\ session' = [session EXCEPT ![p][m.from] = new]
    BY <1>2, <1>9, <2>2
  <2>9. \/ Continues(p, m.from, new)
        \/ /\ Begins(p, new)
           /\ SecretIn(keygen, new.root_key.sk)
           /\ GoneFrom(p, identity[p], opks'[p], new.root_key.sk)
           /\ m.x3dh # None
           /\ new.root_key.sk = X3dhSecretReceive(p, identity[p], m.x3dh)
    BY <1>8, <2>5, <2>7
  <2>10. \/ Begins(p, new)
         \/ session[p][m.from] # None /\ Derivable(session[p][m.from], m.key)
    BY <1>4, <2>7
  <2> QED
    BY <2>3, <2>4, <2>6, <2>8, <2>9, <2>10
<1>10. CASE ~ opens
  <2>1. m.x3dh # None /\ after = st
    BY <1>2, <1>10
  <2> HIDE DEF after
  <2>2. opened' = opened /\ shown' = shown
    <3> HIDE DEF opens
    <3> QED
      BY <1>1, <1>2, <1>10
  <2>3. Begins(p, st)
    BY <1>8, <2>1 DEF Begins
  <2> HIDE DEF opens
  <2> QED
    BY <1>2, <1>3, <1>6, <1>8, <2>1, <2>2, <2>3
<1> QED
  BY <1>9, <1>10
(* Sending continues the session, and the key it uses is gone. *)
LEMMA SendSecret ==
    ASSUME SecrecyInv, NEW p \in User, NEW q \in User, Send(p, q)
    PROVE  LET st  == session[p][q]
               new == AfterEncrypt(st)
           IN  /\ WellFormed(st) /\ CanEncrypt(st) /\ Seal(p, q, st, None)
               /\ WellFormed(new) /\ InOrder(new) /\ Continues(p, q, new)
               /\ SealingKey(st).root.sk = new.root_key.sk
               /\ ~ Derivable(new, SealingKey(st))
<1> DEFINE st  == session[p][q]
           new == AfterEncrypt(st)
<1>1. st # None /\ CanEncrypt(st) /\ Seal(p, q, st, None)
  BY DEF Send, HasSession
<1>2. WellFormed(st) /\ InOrder(st)
  BY <1>1, SecrecyTypes DEF SecrecyInv, SessionsInOrder
<1>3. st.send_n \in Nat /\ st.recv_n \in Nat
  BY <1>2 DEF WellFormed, RatchetState
<1> HIDE DEF st
<1>4. WellFormed(new)
  BY <1>1, <1>2, AfterEncryptType
<1>5. /\ InOrder(new) /\ GivesNoMore(st, new)
      /\ new.root_key = st.root_key
      /\ new.send_n = st.send_n + 1 /\ new.recv_n = st.recv_n
      /\ SealingKey(st).root.sk = st.root_key.sk
      /\ ~ Derivable(new, SealingKey(st))
  BY <1>1, <1>2, EncryptInOrder
<1> HIDE DEF new
<1>6. MovesOn(st, new)
  BY <1>3, <1>5 DEF MovesOn
<1>7. Continues(p, q, new)
  BY <1>1, <1>5, <1>6 DEF Continues, st
<1> QED
  BY <1>1, <1>2, <1>4, <1>5, <1>7 DEF st, new

(* So is that of Initiate, in the state it stores. *)
LEMMA InitiateSecret ==
    ASSUME SecrecyInv, NEW p \in User, Initiate(p)
    PROVE  LET st  == InitiatorState(p)
               new == AfterEncrypt(st)
           IN  /\ WellFormed(new) /\ InOrder(new)
               /\ new.root_key = st.root_key
               /\ SealingKey(st).root.sk = new.root_key.sk
               /\ ~ Derivable(new, SealingKey(st))
<1> DEFINE st  == InitiatorState(p)
           new == AfterEncrypt(st)
<1>1. awaiting[p] # None /\ keygen' = [keygen EXCEPT ![p] = @ + 1]
  BY DEF Initiate
<1>2. WellFormed(st) /\ InOrder(st) /\ CanEncrypt(st)
  BY <1>1, InitiatorBegins
<1> HIDE DEF st
<1>3. WellFormed(new)
  BY <1>2, AfterEncryptType
<1>4. /\ InOrder(new) /\ new.root_key = st.root_key
      /\ SealingKey(st).root.sk = st.root_key.sk
      /\ ~ Derivable(new, SealingKey(st))
  BY <1>2, EncryptInOrder
<1> HIDE DEF new
<1> QED
  BY <1>3, <1>4 DEF st, new

(* Every step of every user keeps what the secrecy rests on. *)
LEMMA SecrecyInvStep == SecrecyInv /\ [Next]_vars => SecrecyInv'
<1> SUFFICES ASSUME SecrecyInv, [Next]_vars PROVE SecrecyInv'
  OBVIOUS
<1>1. KeyInv'
  BY KeyInvStep DEF SecrecyInv
<1>2. /\ keygen \in [User -> Nat] /\ identity \in [User -> Nat]
      /\ opks \in [User -> SUBSET Nat]
      /\ awaiting \in [User -> [peer : User, bundle : Bundle] \cup {None}]
      /\ outbox \in [User -> Payload \cup {None}]
      /\ net \in SUBSET Payload
      /\ opened \in [User -> SUBSET MessageKey]
  BY SecrecyTypes DEF TypeInv, TypeOK
<1>3. ASSUME \A u \in User : awaiting'[u] \in {awaiting[u], None}
      PROVE  BundlesGenuine'
  BY <1>3, BundlesStayGenuine
<1>4. ASSUME keygen' \in [User -> Nat], \A u \in User : keygen[u] <= keygen'[u],
             \A u \in User : \/ outbox'[u] \in {outbox[u], None}
                             \/ outbox'[u].x3dh = None,
             \A m \in net' : m \in net \/ HeaderGenuine(keygen', m)
      PROVE  HeadersGenuine'
  <2>1. \A u \in User : \/ outbox'[u] \in {outbox[u], None}
                        \/ HeaderGenuine(keygen', outbox'[u])
    BY <1>4 DEF HeaderGenuine
  <2> QED
    BY <1>4, <2>1, HeadersGenuineStep
<1>5. ASSUME keygen' = keygen
      PROVE  keygen' \in [User -> Nat] /\ \A u \in User : keygen[u] <= keygen'[u]
  BY <1>2, <1>5
<1>6. ASSUME NEW p \in User, Register(p) PROVE SecrecyInv'
  <2>1. /\ identity' = [identity EXCEPT ![p] = @ + 1]
        /\ opks' = [opks EXCEPT ![p] = GeneratedOpks(NumOpks)]
        /\ UNCHANGED <<session, awaiting, outbox, net, keygen, sealed, opened>>
    BY <1>6 DEF Register, history
  <2>2. \A u \in User : \/ identity'[u] = identity[u] /\ opks'[u] \subseteq opks[u]
                        \/ identity'[u] = identity[u] + 1
    BY <1>2, <2>1
  <2> QED
    BY <1>1, <1>3, <1>4, <1>5, <2>1, <2>2, QuietSecrecy
<1>7. ASSUME UNCHANGED <<session, identity, opks, keygen, net, sealed, opened>>,
             \A u \in User : awaiting'[u] \in {awaiting[u], None},
             \A u \in User : outbox'[u] \in {outbox[u], None}
      PROVE  SecrecyInv'
  <2>1. \A u \in User : identity'[u] = identity[u] /\ opks'[u] \subseteq opks[u]
    BY <1>7
  <2> QED
    BY <1>1, <1>3, <1>4, <1>5, <1>7, <2>1, QuietSecrecy
<1>8. ASSUME NEW p \in User, Publish(p) PROVE SecrecyInv'
  BY <1>7, <1>8 DEF Publish, history
<1>9. ASSUME NEW p \in User, NEW q \in User, GetBundle(p, q) PROVE SecrecyInv'
  <2> DEFINE served == IF stock[q] = {} THEN {} ELSE {FirstOpk(stock[q])}
             b      == PublicBundle(q, published[q], served)
  <2>1. /\ awaiting' = [awaiting EXCEPT ![p] = [peer |-> q, bundle |-> b]]
        /\ <<p, q>> \in Initiations
        /\ UNCHANGED <<session, identity, opks, outbox, net, keygen, sealed, opened>>
    BY <1>9 DEF GetBundle, history
  <2>2. q # p
    BY <2>1, SessionAssumption
  <2>3. published[q] \in Nat /\ served \in SUBSET Nat
    <3>1. published[q] \in Nat /\ stock[q] \in SUBSET Nat
      BY SecrecyTypes DEF TypeInv, TypeOK
    <3> QED
      BY <3>1, FirstOpkIsMember
  <2>4. \E g \in Nat, S \in SUBSET Nat : b = PublicBundle(q, g, S)
    BY <2>3
  <2> HIDE DEF b
  <2>5. ASSUME NEW u \in User, awaiting'[u] # None
        PROVE  /\ awaiting'[u].peer # u
               /\ \E g \in Nat, S \in SUBSET Nat :
                     awaiting'[u].bundle = PublicBundle(awaiting'[u].peer, g, S)
    <3>1. CASE u = p
      <4>1. awaiting'[u].peer = q /\ awaiting'[u].bundle = b
        BY <1>2, <2>1, <3>1
      <4> QED
        BY <2>2, <2>4, <3>1, <4>1
    <3>2. CASE u # p
      <4>1. awaiting'[u] = awaiting[u]
        BY <1>2, <2>1, <3>2
      <4> QED
        BY <2>5, <4>1 DEF SecrecyInv, BundlesGenuine
    <3> QED
      BY <3>1, <3>2
  <2>6. BundlesGenuine'
    BY <2>5 DEF BundlesGenuine
  <2>7. \A u \in User : identity'[u] = identity[u] /\ opks'[u] \subseteq opks[u]
    BY <2>1
  <2> QED
    BY <1>1, <1>4, <1>5, <2>1, <2>6, <2>7, QuietSecrecy
<1>10. ASSUME NEW p \in User, NEW q \in User, Send(p, q) PROVE SecrecyInv'
  <2> DEFINE st  == session[p][q]
             new == AfterEncrypt(st)
  <2>1. /\ Seal(p, q, st, None)
        /\ session' = [session EXCEPT ![p][q] = new]
        /\ UNCHANGED <<identity, opks, awaiting, net, keygen, opened>>
    BY <1>10 DEF Send, Seal, SaveSession
  <2>2. /\ WellFormed(new) /\ InOrder(new) /\ Continues(p, q, new)
        /\ SealingKey(st).root.sk = new.root_key.sk
        /\ ~ Derivable(new, SealingKey(st))
    BY <1>10, SendSecret
  <2>3. /\ \A k \in Used(p)' : k \in Used(p) \/ k = SealingKey(st)
        /\ \A u \in User \ {p} : Used(u)' = Used(u)
    BY <2>1, SealUses
  <2>4. \A u \in User : outbox'[u] \in {outbox[u], None} \/ outbox'[u].x3dh = None
    BY <1>2, <2>1 DEF Seal
  <2> HIDE DEF st, new
  <2>5. BundlesGenuine' /\ HeadersGenuine'
    BY <1>3, <1>4, <1>5, <2>1, <2>4
  <2>6. \A k \in Used(p)' : \/ k \in Used(p)
                            \/ k.root.sk = new.root_key.sk /\ ~ Derivable(new, k)
    BY <2>2, <2>3
  <2> QED
    BY <1>1, <1>5, <2>1, <2>2, <2>3, <2>5, <2>6, StoreSecrecy
<1>11. ASSUME NEW p \in User, Initiate(p) PROVE SecrecyInv'
  <2> DEFINE st  == InitiatorState(p)
             q   == awaiting[p].peer
             new == AfterEncrypt(st)
             h   == X3dhHeaderSend(IK(p, identity[p]), awaiting[p].bundle,
                                   EK(p, keygen[p]))
  <2>1. /\ awaiting[p] # None /\ Seal(p, q, st, h)
        /\ session' = [session EXCEPT ![p][q] = new]
        /\ keygen' = [keygen EXCEPT ![p] = @ + 1]
        /\ UNCHANGED <<identity, opks, opened>>
    BY <1>11 DEF Initiate, Seal, SaveSession
  <2>2. /\ q \in User
        /\ \A n : n.root_key = st.root_key =>
              /\ Begins(p, n)
              /\ SecretIn(keygen', n.root_key.sk)
              /\ GoneFrom(p, identity[p], opks[p], n.root_key.sk)
        /\ keygen' \in [User -> Nat] /\ \A u \in User : keygen[u] <= keygen'[u]
    BY <2>1, InitiatorBegins
  <2>3. /\ WellFormed(new) /\ InOrder(new) /\ new.root_key = st.root_key
        /\ SealingKey(st).root.sk = new.root_key.sk
        /\ ~ Derivable(new, SealingKey(st))
    BY <1>11, InitiateSecret
  <2> HIDE DEF st, new, q, h
  <2>4. /\ \A k \in Used(p)' : k \in Used(p) \/ k = SealingKey(st)
        /\ \A u \in User \ {p} : Used(u)' = Used(u)
    BY <2>1, <2>2, SealUses
  <2>5. \A k \in Used(p)' : \/ k \in Used(p)
                            \/ k.root.sk = new.root_key.sk /\ ~ Derivable(new, k)
    BY <2>3, <2>4
  <2>6. /\ Begins(p, new) /\ SecretIn(keygen', new.root_key.sk)
        /\ GoneFrom(p, identity[p], opks'[p], new.root_key.sk)
    BY <2>1, <2>2, <2>3
  <2>7. BundlesGenuine' /\ HeadersGenuine'
    BY <1>11, InitiateGenuine
  <2>8. \A u \in User : opks'[u] \subseteq opks[u]
    BY <2>1
  <2> QED
    BY <1>1, <2>1, <2>2, <2>3, <2>4, <2>5, <2>6, <2>7, <2>8, StoreSecrecy
<1>12. ASSUME NEW p \in User, Transmit(p) PROVE SecrecyInv'
  <2>1. /\ outbox[p] # None /\ net' = net \cup {outbox[p]}
        /\ outbox' = [outbox EXCEPT ![p] = None]
        /\ UNCHANGED <<session, identity, opks, awaiting, keygen, sealed, opened>>
    BY <1>12 DEF Transmit, history
  <2>2. HeaderGenuine(keygen', outbox[p])
    BY <2>1 DEF SecrecyInv, HeadersGenuine
  <2>3. \A u \in User : outbox'[u] \in {outbox[u], None} \/ outbox'[u].x3dh = None
    BY <1>2, <2>1
  <2>4. \A m \in net' : m \in net \/ HeaderGenuine(keygen', m)
    BY <2>1, <2>2
  <2>5. BundlesGenuine' /\ HeadersGenuine'
    BY <1>3, <1>4, <1>5, <2>1, <2>3, <2>4
  <2>6. \A u \in User : identity'[u] = identity[u] /\ opks'[u] \subseteq opks[u]
    BY <2>1
  <2> QED
    BY <1>1, <2>1, <2>5, <2>6, QuietSecrecy
<1>13. ASSUME NEW p \in User, NEW m \in net, Receive(p, m) PROVE SecrecyInv'
  <2>1. /\ opks' = [opks EXCEPT ![p] = OpksAfter(p, m)]
        /\ UNCHANGED <<identity, awaiting, outbox, net, sealed>>
    BY <1>13 DEF Receive, SaveSession
  <2>2. /\ keygen' \in [User -> Nat] /\ \A u \in User : keygen[u] <= keygen'[u]
        /\ m.from \in User
    BY <1>13, ReceivedState DEF SecrecyInv
  <2>3. PICK new :
             /\ WellFormed(new) /\ InOrder(new)
             /\ session' = [session EXCEPT ![p][m.from] = new]
             /\ \/ Continues(p, m.from, new)
                \/ /\ Begins(p, new)
                   /\ SecretIn(keygen, new.root_key.sk)
                   /\ GoneFrom(p, identity[p], opks'[p], new.root_key.sk)
             /\ \/ opened' = opened
                \/ /\ opened' = [opened EXCEPT ![p] = @ \cup {m.key}]
                   /\ m.key.root.sk = new.root_key.sk
                   /\ ~ Derivable(new, m.key)
    BY <1>13, ReceiveSecret
  <2>4. new.root_key.sk \in SecretKey
    BY <2>3 DEF WellFormed, RatchetState, RootKey
  <2>5. SecretIn(keygen, new.root_key.sk) => SecretIn(keygen', new.root_key.sk)
    BY <1>2, <2>2, <2>4, SecretStaysIn
  <2>6. \/ Continues(p, m.from, new)
        \/ /\ Begins(p, new)
           /\ SecretIn(keygen', new.root_key.sk)
           /\ GoneFrom(p, identity[p], opks'[p], new.root_key.sk)
    BY <2>3, <2>5
  <2>7. \A k \in Used(p)' : \/ k \in Used(p)
                            \/ k.root.sk = new.root_key.sk /\ ~ Derivable(new, k)
    BY <1>2, <2>1, <2>3 DEF Used
  <2>8. \A u \in User \ {p} : Used(u)' = Used(u)
    BY <1>2, <2>1, <2>3 DEF Used
  <2>9. \A u \in User : opks'[u] \subseteq opks[u]
    BY <1>2, <2>1 DEF OpksAfter, PopOpk
  <2>10. BundlesGenuine' /\ HeadersGenuine'
    BY <1>3, <1>4, <2>1, <2>2
  <2> QED
    BY <1>1, <2>1, <2>2, <2>3, <2>6, <2>7, <2>8, <2>9, <2>10, StoreSecrecy
<1>14. ASSUME NEW p \in User, Die(p)
       PROVE  /\ \A u \in User : awaiting'[u] \in {awaiting[u], None}
              /\ \A u \in User : outbox'[u] \in {outbox[u], None}
              /\ UNCHANGED <<identity, net, sealed, opened>>
  BY <1>2, <1>14 DEF Die, history
<1>15. ASSUME NEW p \in User, Crash(p) PROVE SecrecyInv'
  BY <1>7, <1>14, <1>15 DEF Crash
<1>16. ASSUME NEW p \in User, CrashInInitiate(p) PROVE SecrecyInv'
  <2> DEFINE new == InitiatorState(p)
             q   == awaiting[p].peer
  <2>1. /\ awaiting[p] # None /\ Die(p) /\ opks' = opks
        /\ session' = [session EXCEPT ![p][q] = new]
        /\ keygen' = [keygen EXCEPT ![p] = @ + 1]
    BY <1>16 DEF CrashInInitiate, SaveSession
  <2>2. /\ q \in User /\ WellFormed(new) /\ InOrder(new)
        /\ Begins(p, new)
        /\ SecretIn(keygen', new.root_key.sk)
        /\ GoneFrom(p, identity[p], opks[p], new.root_key.sk)
        /\ keygen' \in [User -> Nat] /\ \A u \in User : keygen[u] <= keygen'[u]
    BY <2>1, InitiatorBegins
  <2> HIDE DEF new, q
  <2>3. /\ \A u \in User : awaiting'[u] \in {awaiting[u], None}
        /\ \A u \in User : outbox'[u] \in {outbox[u], None}
        /\ UNCHANGED <<identity, net, sealed, opened>>
    BY <1>14, <2>1
  <2>4. BundlesGenuine' /\ HeadersGenuine'
    BY <1>3, <1>4, <2>2, <2>3
  <2>5. \A u \in User : Used(u)' = Used(u)
    BY <2>3 DEF Used
  <2>6. \A u \in User : opks'[u] \subseteq opks[u]
    BY <2>1
  <2>7. GoneFrom(p, identity[p], opks'[p], new.root_key.sk)
    BY <2>1, <2>2
  <2> QED
    BY <1>1, <2>1, <2>2, <2>3, <2>4, <2>5, <2>6, <2>7, StoreSecrecy
<1>17. ASSUME NEW p \in User, NEW m \in net, CrashAfterPop(p, m) PROVE SecrecyInv'
  <2>1. /\ Die(p) /\ opks' = [opks EXCEPT ![p] = OpksAfter(p, m)]
        /\ UNCHANGED <<session, keygen>>
    BY <1>17 DEF CrashAfterPop
  <2>2. /\ \A u \in User : awaiting'[u] \in {awaiting[u], None}
        /\ \A u \in User : outbox'[u] \in {outbox[u], None}
        /\ UNCHANGED <<identity, net, sealed, opened>>
    BY <1>14, <2>1
  <2>3. \A u \in User : identity'[u] = identity[u] /\ opks'[u] \subseteq opks[u]
    BY <1>2, <2>1, <2>2 DEF OpksAfter, PopOpk
  <2>4. BundlesGenuine' /\ HeadersGenuine'
    BY <1>3, <1>4, <1>5, <2>1, <2>2
  <2> QED
    BY <1>1, <2>1, <2>2, <2>3, <2>4, QuietSecrecy
<1>18. ASSUME NEW p \in User, NEW m \in net, CrashAfterRespond(p, m) PROVE SecrecyInv'
  <2> DEFINE new == ReceiverState(p, m)
             sk  == X3dhSecretReceive(p, identity[p], m.x3dh)
  <2>1. /\ m.x3dh # None /\ Accepts(p, m) /\ Die(p)
        /\ opks' = [opks EXCEPT ![p] = OpksAfter(p, m)]
        /\ session' = [session EXCEPT ![p][m.from] = new]
        /\ keygen' = keygen
    BY <1>18 DEF CrashAfterRespond, SaveSession
  <2>2. /\ \A u \in User : awaiting'[u] \in {awaiting[u], None}
        /\ \A u \in User : outbox'[u] \in {outbox[u], None}
        /\ UNCHANGED <<identity, net, sealed, opened>>
    BY <1>14, <2>1
  <2>3. WellFormed(new) /\ m.from \in User
    BY <1>2, <2>1, ReceiverStateType, SecrecyTypes DEF Payload
  <2>4. InOrder(new) /\ new.root_key.sk = sk
    BY <2>1, FirstStatesInOrder DEF ReceiverState
  <2>5. /\ SecretIn(keygen, sk)
        /\ GoneFrom(p, identity[p], OpksAfter(p, m), sk)
        /\ sk.dh4 # {} => ~ Knows(p, sk)
    BY <2>1, ResponderSecret
  <2> HIDE DEF new, sk
  <2>6. Begins(p, new)
    BY <2>4, <2>5 DEF Begins
  <2>7. opks'[p] = OpksAfter(p, m) /\ \A u \in User : opks'[u] \subseteq opks[u]
    BY <1>2, <2>1 DEF OpksAfter, PopOpk
  <2>8. BundlesGenuine' /\ HeadersGenuine'
    BY <1>3, <1>4, <1>5, <2>1, <2>2
  <2>9. \A u \in User : Used(u)' = Used(u)
    BY <2>2 DEF Used
  <2>10. /\ SecretIn(keygen', new.root_key.sk)
         /\ GoneFrom(p, identity[p], opks'[p], new.root_key.sk)
         /\ keygen' \in [User -> Nat] /\ \A u \in User : keygen[u] <= keygen'[u]
    BY <1>5, <2>1, <2>4, <2>5, <2>7
  <2> QED
    BY <1>1, <2>1, <2>2, <2>3, <2>4, <2>6, <2>7, <2>8, <2>9, <2>10, StoreSecrecy
<1>19. CASE UNCHANGED vars
  BY <1>7, <1>19 DEF vars
<1> QED
  BY <1>6, <1>8, <1>9, <1>10, <1>11, <1>12, <1>13, <1>15, <1>16, <1>17,
     <1>18, <1>19 DEF Next

(* Whatever is lost, repeated or comes out of order, and whenever a        *)
(* process dies: a key a user has sealed or opened a text with cannot be   *)
(* had any more from what the user has stored, if its session took a       *)
(* one-time prekey.                                                        *)
THEOREM UsedKeysAreGone == Spec => []ForwardSecrecy
<1>1. SecrecyInv => ForwardSecrecy
  BY DEF SecrecyInv
<1> QED
  BY SecrecyInvInit, SecrecyInvStep, <1>1, PTL DEF Spec
-----------------------------------------------------------------------------
(* The header of a first payload leads to the key that sealed it.          *)

(* Both sides of X3DH compute one secret, if the responder still has the   *)
(* identity the bundle was of.                                             *)
LEMMA SecretsAgree ==
    ASSUME NEW p, NEW q, NEW g, NEW h, NEW i, NEW S
    PROVE  LET b == PublicBundle(q, h, S) IN
           X3dhSecretReceive(q, h, X3dhHeaderSend(IK(p, g), b, EK(p, i)))
             = X3dhSecretSend(IK(p, g), b, EK(p, i))
<1> DEFINE b  == PublicBundle(q, h, S)
           hd == X3dhHeaderSend(IK(p, g), b, EK(p, i))
<1>1. b.ik = IK(q, h) /\ b.spk = SPK(q, h) /\ b.spk.owner = q /\ b.spk.gen = h
  BY DEF PublicBundle, SPK
<1>2. hd.ik = IK(p, g) /\ hd.ek = EK(p, i) /\ hd.opk_id = ChosenOpk(b)
  BY DEF X3dhHeaderSend
<1>3. BundleOpk(b) = OPK(q, h, ChosenOpk(b))
  BY <1>1 DEF BundleOpk
<1> HIDE DEF b, hd
<1>4. \A k, l : DH(k, l) = DH(l, k)
  BY DEF DH
<1>5. X3dhSecretReceive(q, h, hd) =
        [dh1 |-> DH(b.spk, IK(p, g)), dh2 |-> DH(b.ik, EK(p, i)),
         dh3 |-> DH(b.spk, EK(p, i)),
         dh4 |-> IF ChosenOpk(b) = None THEN {}
                 ELSE DH(BundleOpk(b), EK(p, i))]
  BY <1>1, <1>2, <1>3 DEF X3dhSecretReceive
<1> QED
  BY <1>4, <1>5 DEF X3dhSecretSend, b, hd

(* init_receiver mirrors init_sender: with the same secret it opens the    *)
(* first message.                                                          *)
LEMMA FirstMessageOpens ==
    ASSUME NEW sk \in SecretKey, NEW spk \in Key, NEW r \in Key, NEW fresh \in Key
    PROVE  LET first == InitSender(sk, spk, r) IN
           Opens(InitReceiver(sk, spk), SealedHeader(first), SealingKey(first),
                 fresh)
<1> DEFINE st    == InitReceiver(sk, spk)
           first == InitSender(sk, spk, r)
           hdr   == SealedHeader(first)
           root0 == [sk |-> sk, dhs |-> << >>]
           ck    == FirstChainKey(KdfRk(root0, DH(spk, r)))
           rt    == DhRatchet(st, r, fresh)
<1>1. hdr.dh_pub = r /\ hdr.pn = 0 /\ hdr.n = 0
  BY DEF SealedHeader, InitSender
<1>2. DH(r, spk) = DH(spk, r)
  BY DEF DH
<1>3. SealingKey(first) = ck
  BY <1>2 DEF SealingKey, InitSender
<1>4. /\ st.skipped = {} /\ st.dh_remote = None /\ st.recv_ck = None
      /\ st.root_key = root0 /\ st.dh_self = spk
  BY DEF InitReceiver
<1>5. rt.recv_ck = ck /\ rt.recv_n = 0
  BY <1>4 DEF DhRatchet
<1>6. ck # None
  <2>1. root0 \in RootKey
    BY DEF RootKey
  <2>2. KdfRk(root0, DH(spk, r)) \in RootKey
    BY <2>1, KdfRkType DEF DH
  <2>3. ck \in ChainKey
    BY <2>2, FirstChainKeyType
  <2> HIDE DEF ck
  <2> QED
    BY <2>3, NoneIsNoChainKey
<1> HIDE DEF st, hdr, ck, rt, first
<1>7. CacheHits(st, hdr) = {} /\ NeedsRatchet(st, hdr)
  BY <1>1, <1>4, NoneAssumption DEF CacheHits, NeedsRatchet
<1>8. ~ TooManySkipped(st, hdr.pn) /\ SkipMessageKeys(st, hdr.pn) = st
  BY <1>4 DEF TooManySkipped, SkipMessageKeys
<1>9. Ratcheted(st, hdr, fresh) = rt
  BY <1>1, <1>7, <1>8 DEF Ratcheted, rt
<1>10. ~ TooManySkipped(rt, hdr.n)
  BY <1>1, <1>5, MaxSkipAssumption DEF TooManySkipped
<1>11. CaughtUp(st, hdr, fresh) = rt
  BY <1>1, <1>5, <1>9 DEF CaughtUp, SkipMessageKeys
<1>12. ~ Raises(st, hdr, fresh) /\ OpeningKey(st, hdr, fresh) = ck
  BY <1>5, <1>6, <1>7, <1>8, <1>9, <1>10, <1>11 DEF Raises, OpeningKey
<1> QED
  BY <1>3, <1>12 DEF Opens, st, hdr, first

(* From a genuine header its addressee computes the secret of its author,  *)
(* if it has the identity the payload was made for.                        *)
LEMMA HeaderSecret ==
    ASSUME SecrecyInv, NEW m \in net, NEW g \in Nat, NEW h \in Nat, NEW i \in Nat,
           NEW S \in SUBSET Nat, FirstPayload(m, PublicBundle(m.to, h, S), g, i),
           ForIdentity(m)
    PROVE  /\ identity[m.to] = h
           /\ m.key.root.sk = X3dhSecretSend(IK(m.from, g), PublicBundle(m.to, h, S),
                                             EK(m.from, i))
           /\ m.x3dh # None => ReceiverState(m.to, m) =
                                  InitReceiver(m.key.root.sk, SPK(m.to, h))
<1> DEFINE p  == m.from
           q  == m.to
           b  == PublicBundle(q, h, S)
           sk == X3dhSecretSend(IK(p, g), b, EK(p, i))
<1>1. /\ m.x3dh = X3dhHeaderSend(IK(p, g), b, EK(p, i))
      /\ m.key = SealingKey(InitSender(sk, b.spk, RatchetKey(p, i)))
  BY DEF FirstPayload
<1>2. b.spk = SPK(q, h)
  BY DEF PublicBundle
<1>3. m.key.root.sk = sk
  BY <1>1 DEF SealingKey, InitSender, FirstChainKey, KdfRk
<1>4. identity[q] = h
  <2>1. SPK(q, identity[q]) \in {EK(p, i), SPK(q, h)}
    BY <1>2, <1>3 DEF ForIdentity, X3dhSecretSend, DH
  <2>2. SPK(q, identity[q]) # EK(p, i)
    BY DEF SPK, EK
  <2>3. SPK(q, identity[q]).gen = identity[q] /\ SPK(q, h).gen = h
    BY DEF SPK
  <2> QED
    BY <2>1, <2>2, <2>3
<1>5. X3dhSecretReceive(q, h, m.x3dh) = sk
  BY <1>1, SecretsAgree
<1>6. m.x3dh # None => ReceiverState(q, m) = InitReceiver(sk, SPK(q, h))
  BY <1>4, <1>5 DEF ReceiverState
<1> QED
  BY <1>3, <1>4, <1>6

(* A header that is genuine leads its addressee to its key. *)
LEMMA GenuineHeadersOpen == SecrecyInv => AcceptedHeaderOpens
<1> SUFFICES ASSUME SecrecyInv, NEW m \in net, m.x3dh # None,
                    OpkHeld(opks[m.to], m.x3dh), ForIdentity(m)
             PROVE  Opens(ReceiverState(m.to, m), m.hdr, m.key,
                          RatchetKey(m.to, keygen[m.to]))
  BY DEF AcceptedHeaderOpens
<1>1. HeaderGenuine(keygen, m)
  BY DEF SecrecyInv, HeadersGenuine
<1>2. PICK g, h, i \in Nat, S \in SUBSET Nat :
        FirstPayload(m, PublicBundle(m.to, h, S), g, i)
  BY <1>1 DEF HeaderGenuine
<1> DEFINE p   == m.from
           q   == m.to
           b   == PublicBundle(q, h, S)
           sk  == X3dhSecretSend(IK(p, g), b, EK(p, i))
           first == InitSender(sk, b.spk, RatchetKey(p, i))
           fresh == RatchetKey(q, keygen[q])
<1>3. m.hdr = SealedHeader(first) /\ m.key = SealingKey(first)
  BY <1>2 DEF FirstPayload
<1>4. p \in User /\ q \in User /\ keygen \in [User -> Nat]
  BY SecrecyTypes DEF Payload
<1>5. b.spk = SPK(q, h) /\ b \in Bundle
  BY <1>4 DEF PublicBundle, Bundle, IK, SPK, Key, Kind
<1>6. ReceiverState(q, m) = InitReceiver(sk, SPK(q, h))
  BY <1>2, HeaderSecret
<1>7. sk \in SecretKey
  BY <1>4, <1>5, InitiatorType
<1>8. SPK(q, h) \in Key /\ RatchetKey(p, i) \in Key /\ fresh \in Key
  BY <1>4 DEF SPK, RatchetKey, Key, Kind
<1> HIDE DEF sk, fresh, b
<1>9. Opens(InitReceiver(sk, SPK(q, h)), SealedHeader(first), SealingKey(first), fresh)
  BY <1>5, <1>7, <1>8, FirstMessageOpens
<1> QED
  BY <1>3, <1>6, <1>9 DEF fresh

(* A first payload whose addressee has the identity and the prekey it was  *)
(* made for can be opened, whatever either user did since.                 *)
THEOREM FirstPayloadsOpen == Spec => []AcceptedHeaderOpens
BY SecrecyInvInit, SecrecyInvStep, GenuineHeadersOpen, PTL DEF Spec
=============================================================================
