-------------------------- MODULE AgreementProofs --------------------------
(***************************************************************************)
(* Theorems about the two ends of a conversation.  Two of them are about   *)
(* properties that the code keeps only while nothing goes wrong: that the  *)
(* X3DH header of a session goes first, and that both ends have one        *)
(* secret; they say what must not happen.  The third is that payloads stay *)
(* readable while the relay has prekeys.                                   *)
(***************************************************************************)
EXTENDS ChannelProofs

-----------------------------------------------------------------------------
(* What decrypt_message does to the secret and to the send chain.          *)

(* Skipping keys changes neither. *)
LEMMA SkipKeepsRoot ==
    ASSUME NEW st, WellFormed(st), NEW until \in Nat
    PROVE  LET new == SkipMessageKeys(st, until) IN
           new.root_key = st.root_key /\ new.send_ck = st.send_ck
<1>1. st \in RatchetState
  BY DEF WellFormed
<1> DEFINE new == SkipMessageKeys(st, until)
<1>2. CASE st.recv_ck = None \/ until <= st.recv_n
  BY <1>2 DEF SkipMessageKeys
<1>3. CASE ~ (st.recv_ck = None \/ until <= st.recv_n)
  <2>1. \E a, b : new = [st EXCEPT !.skipped = a, !.recv_ck = b, !.recv_n = until]
    BY <1>3 DEF SkipMessageKeys
  <2> HIDE DEF new
  <2>2. new.root_key = st.root_key /\ new.send_ck = st.send_ck
    BY <1>1, <2>1 DEF RatchetState
  <2> QED
    BY <2>2 DEF new
<1> QED
  BY <1>2, <1>3

(* A DH ratchet mixes two outputs into the root, and its send chain hangs  *)
(* on what comes out.                                                      *)
LEMMA RatchetKeepsSecret ==
    ASSUME NEW st, WellFormed(st), NEW remote \in Key, NEW fresh \in Key
    PROVE  LET new == DhRatchet(st, remote, fresh) IN
           /\ new.root_key.sk = st.root_key.sk
           /\ Len(new.send_ck.root.dhs) > 1
<1>1. st.root_key \in RootKey /\ st.dh_self \in Key
  BY DEF WellFormed, RatchetState
<1> DEFINE a == DH(st.dh_self, remote)
           b == DH(fresh, remote)
           r == KdfRk(st.root_key, a)
           s == KdfRk(r, b)
<1>2. /\ DhRatchet(st, remote, fresh).root_key = s
      /\ DhRatchet(st, remote, fresh).send_ck.root = s
  BY DEF DhRatchet, FirstChainKey
<1>3. a \in SUBSET Key /\ b \in SUBSET Key
  BY <1>1 DEF DH
<1> HIDE DEF a, b
<1>4. ASSUME NEW x \in RootKey, NEW d \in SUBSET Key
      PROVE  /\ KdfRk(x, d) \in RootKey
             /\ KdfRk(x, d).sk = x.sk /\ KdfRk(x, d).dhs = Append(x.dhs, d)
  BY <1>4 DEF KdfRk, RootKey
<1>5. ASSUME NEW x \in RootKey, NEW d \in SUBSET Key
      PROVE  Len(KdfRk(x, d).dhs) = Len(x.dhs) + 1 /\ Len(x.dhs) \in Nat
  BY <1>4, <1>5 DEF RootKey
<1>6. r \in RootKey /\ r.sk = st.root_key.sk /\ Len(r.dhs) \in Nat /\ Len(r.dhs) > 0
  BY <1>1, <1>3, <1>4, <1>5
<1> HIDE DEF r
<1>7. s.sk = r.sk /\ Len(s.dhs) > 1
  BY <1>3, <1>4, <1>5, <1>6
<1> QED
  BY <1>2, <1>6, <1>7

(* The secret stays, and so does the send chain unless it is followed by   *)
(* one that is not the first of the session.                               *)
LEMMA DecryptKeepsSecret ==
    ASSUME NEW st, WellFormed(st), NEW hdr \in Header, NEW fresh \in Key,
           ~ Raises(st, hdr, fresh)
    PROVE  LET new == AfterDecrypt(st, hdr, fresh) IN
           /\ new.root_key.sk = st.root_key.sk
           /\ \/ new.send_ck = st.send_ck
              \/ Len(new.send_ck.root.dhs) > 1
<1>1. st \in RatchetState /\ hdr.pn \in Nat /\ hdr.n \in Nat /\ hdr.dh_pub \in Key
  BY DEF WellFormed, Header
<1> DEFINE Follows(x) == /\ x.root_key.sk = st.root_key.sk
                         /\ x.send_ck = st.send_ck \/ Len(x.send_ck.root.dhs) > 1
<1>2. CASE CacheHits(st, hdr) # {}
  <2>1. \E e : AfterDecrypt(st, hdr, fresh) = [st EXCEPT !.skipped = e]
    BY <1>2 DEF AfterDecrypt
  <2> QED
    BY <1>1, <2>1 DEF RatchetState
<1>3. CASE CacheHits(st, hdr) = {}
  <2> DEFINE s == SkipMessageKeys(st, hdr.pn)
             r == Ratcheted(st, hdr, fresh)
             c == CaughtUp(st, hdr, fresh)
  <2>1. WellFormed(s) /\ s.root_key = st.root_key
    BY <1>1, SkipMessageKeysType, SkipKeepsRoot
  <2>2. WellFormed(r) /\ WellFormed(c)
    BY CaughtUpType
  <2>3. Follows(r)
    <3>1. CASE NeedsRatchet(st, hdr)
      <4>1. r = DhRatchet(s, hdr.dh_pub, fresh)
        BY <3>1 DEF Ratcheted
      <4> HIDE DEF r, s
      <4> QED
        BY <1>1, <2>1, <4>1, RatchetKeepsSecret
    <3>2. CASE ~ NeedsRatchet(st, hdr)
      BY <3>2 DEF Ratcheted
    <3> QED
      BY <3>1, <3>2
  <2>4. c.root_key = r.root_key /\ c.send_ck = r.send_ck
    <3>1. c = SkipMessageKeys(r, hdr.n)
      BY DEF CaughtUp
    <3> HIDE DEF c, r
    <3> QED
      BY <1>1, <2>2, <3>1, SkipKeepsRoot
  <2>5. \E a, b : AfterDecrypt(st, hdr, fresh) = [c EXCEPT !.recv_ck = a, !.recv_n = b]
    BY <1>3 DEF AfterDecrypt
  <2> HIDE DEF c, r
  <2>6. c \in RatchetState
    BY <2>2 DEF WellFormed
  <2>7. /\ AfterDecrypt(st, hdr, fresh).root_key = c.root_key
        /\ AfterDecrypt(st, hdr, fresh).send_ck = c.send_ck
    BY <2>5, <2>6 DEF RatchetState
  <2> QED
    BY <2>3, <2>4, <2>7
<1> QED
  BY <1>2, <1>3

(* What processing a payload does to a session: the secret is that of the  *)
(* state that decrypts, whose send chain stays or is followed by a later.  *)
LEMMA ReceiveKeepsSecret ==
    ASSUME SecrecyInv, NEW p \in User, NEW m \in net, Receive(p, m)
    PROVE  /\ m.from \in User
           /\ \E new : /\ session' = [session EXCEPT ![p][m.from] = new]
                       /\ new # None
                       /\ new.root_key.sk = ReceiverState(p, m).root_key.sk
                       /\ \/ new.send_ck = ReceiverState(p, m).send_ck
                          \/ Len(new.send_ck.root.dhs) > 1
<1> DEFINE st    == ReceiverState(p, m)
           fresh == RatchetKey(p, keygen[p])
           opens == Opens(st, m.hdr, m.key, fresh)
           after == IF opens THEN AfterDecrypt(st, m.hdr, fresh) ELSE st
<1>1. /\ keygen \in [User -> Nat] /\ m.from \in User /\ m.hdr \in Header
  BY SecrecyTypes DEF Payload
<1>2. session' = [session EXCEPT ![p][m.from] = after] /\ Accepts(p, m)
  BY DEF Receive, SaveSession
<1>3. WellFormed(st) /\ fresh \in Key
  BY <1>1, <1>2, ReceiverStateType, SecrecyTypes DEF RatchetKey, Key, Kind
<1> HIDE DEF st, fresh
<1>4. CASE opens
  <2>1. ~ Raises(st, m.hdr, fresh) /\ after = AfterDecrypt(st, m.hdr, fresh)
    BY <1>4 DEF Opens
  <2>2. WellFormed(after)
    BY <1>1, <1>3, <2>1, AfterDecryptType
  <2>3. after # None
    BY <2>2, NoneIsNoState DEF WellFormed
  <2> HIDE DEF after, opens
  <2> QED
    BY <1>1, <1>2, <1>3, <2>1, <2>3, DecryptKeepsSecret DEF st
<1>5. CASE ~ opens
  <2>1. after = st /\ st # None
    BY <1>3, <1>5, NoneIsNoState DEF WellFormed
  <2> HIDE DEF after, opens
  <2> QED
    BY <1>1, <1>2, <2>1 DEF st
<1> QED
  BY <1>4, <1>5

(* Sealing leaves the root of the send chain, and the secret.              *)
LEMMA SealKeepsRoot ==
    ASSUME NEW st, WellFormed(st), CanEncrypt(st)
    PROVE  /\ AfterEncrypt(st) # None
           /\ AfterEncrypt(st).root_key = st.root_key
           /\ AfterEncrypt(st).send_ck.root = st.send_ck.root
<1>1. st \in RatchetState /\ st.send_ck \in ChainKey
  BY DEF WellFormed, RatchetState, CanEncrypt
<1>2. AfterEncrypt(st).root_key = st.root_key /\ AfterEncrypt(st).send_ck = KdfCk(st.send_ck)
  BY <1>1 DEF AfterEncrypt, RatchetState
<1>3. KdfCk(st.send_ck).root = st.send_ck.root
  BY <1>1 DEF KdfCk, ChainKey
<1>4. AfterEncrypt(st) \in RatchetState
  BY AfterEncryptType DEF WellFormed
<1> QED
  BY <1>2, <1>3, <1>4, NoneIsNoState

-----------------------------------------------------------------------------
(* The header goes first. *)

(* p has handed the relay, or is about to, a header for the chain of r.    *)
Announced(p, r) ==
    \E f \in net \cup {outbox[p]} : f # None /\ f.x3dh # None /\ f.key.root = r

(* Whatever hangs on the first root of a session is announced; a command   *)
(* that waits for a bundle has nothing left to send.                       *)
HeadersFirst ==
    /\ \A p \in User : awaiting[p] = None \/ outbox[p] = None
    /\ \A p, q \in User :
          (/\ session[p][q] # None /\ session[p][q].send_ck # None
           /\ Len(session[p][q].send_ck.root.dhs) = 1)
          => Announced(p, session[p][q].send_ck.root)
    /\ \A p \in User :
          outbox[p] # None /\ Len(outbox[p].key.root.dhs) = 1
          => Announced(p, outbox[p].key.root)
    /\ FirstPayloadCarriesHeader

(* Only a death can break that. *)
HeaderInv == crashes = 0 => HeadersFirst

(* Steps that take nothing from an outbox, and store no send chain that    *)
(* was not there, unless it is announced or a later one.                   *)
LEMMA AnnouncedStays ==
    ASSUME SecrecyInv, HeadersFirst, net' = net,
           \A p \in User : outbox[p] # None => outbox'[p] = outbox[p],
           \A p \in User : awaiting'[p] = None \/ outbox'[p] = None,
           \A p \in User : \/ outbox'[p] = outbox[p]
                           \/ Len(outbox'[p].key.root.dhs) # 1
                           \/ \E r : r = outbox'[p].key.root /\ Announced(p, r)',
           \A p, q \in User :
              \/ session'[p][q] = session[p][q]
              \/ session'[p][q].send_ck = None
              \/ Len(session'[p][q].send_ck.root.dhs) # 1
              \/ \E r : r = session'[p][q].send_ck.root /\ Announced(p, r)'
    PROVE  HeadersFirst'
<1>1. \A p \in User : \A r : Announced(p, r) => Announced(p, r)'
  BY DEF Announced
<1>2. FirstPayloadCarriesHeader'
  BY DEF HeadersFirst, FirstPayloadCarriesHeader
<1>3. ASSUME NEW p \in User, NEW q \in User,
             session'[p][q] # None, session'[p][q].send_ck # None,
             Len(session'[p][q].send_ck.root.dhs) = 1
      PROVE  \E r : r = session'[p][q].send_ck.root /\ Announced(p, r)'
  <2>1. CASE session'[p][q] = session[p][q]
    <3>1. Announced(p, session[p][q].send_ck.root)
      BY <1>3, <2>1 DEF HeadersFirst
    <3> QED
      BY <1>1, <2>1, <3>1
  <2>2. CASE session'[p][q] # session[p][q]
    BY <1>3, <2>2
  <2> QED
    BY <2>1, <2>2
<1>4. ASSUME NEW p \in User, outbox'[p] # None, Len(outbox'[p].key.root.dhs) = 1
      PROVE  \E r : r = outbox'[p].key.root /\ Announced(p, r)'
  <2>1. CASE outbox'[p] = outbox[p]
    <3>1. Announced(p, outbox[p].key.root)
      BY <1>4, <2>1 DEF HeadersFirst
    <3> QED
      BY <1>1, <2>1, <3>1
  <2> QED
    BY <1>4, <2>1
<1>5. \A p \in User : awaiting'[p] = None \/ outbox'[p] = None
  OBVIOUS
<1> QED
  BY <1>2, <1>3, <1>4, <1>5 DEF HeadersFirst, Announced

(* A text that is sealed for q is announced if the first of its chain was. *)
LEMMA SealStaysAnnounced ==
    ASSUME SecrecyInv, HeadersFirst, NEW p \in User, NEW q \in User,
           NEW st, WellFormed(st), CanEncrypt(st),
           NEW x3dh \in X3dhHeader \cup {None}, Seal(p, q, st, x3dh),
           net' = net, outbox[p] = None,
           awaiting' = [awaiting EXCEPT ![p] = None],
           \/ x3dh # None
           \/ Len(st.send_ck.root.dhs) = 1 => Announced(p, st.send_ck.root)
    PROVE  HeadersFirst'
<1>1. /\ outbox \in [User -> Payload \cup {None}]
      /\ awaiting \in [User -> [peer : User, bundle : Bundle] \cup {None}]
      /\ session \in [User -> [User -> RatchetState \cup {None}]]
      /\ \A u, v \in User : session[u][v] # None => WellFormed(session[u][v])
  BY SecrecyTypes
<1> DEFINE new == AfterEncrypt(st)
           m   == [from |-> p, to |-> q, hdr |-> SealedHeader(st), x3dh |-> x3dh,
                   key |-> SealingKey(st),
                   text |-> [from |-> p, to |-> q, no |-> typed[p]]]
<1>2. /\ outbox' = [outbox EXCEPT ![p] = m]
      /\ session' = [session EXCEPT ![p][q] = new]
  BY DEF Seal, SaveSession
<1>3. m.key = st.send_ck /\ m.x3dh = x3dh /\ m # None
  <2>1. SealingKey(st) \in MessageKey /\ SealedHeader(st) \in Header
    BY AfterEncryptType
  <2>2. typed[p] \in Nat
    BY SecrecyTypes DEF TypeInv, TypeOK
  <2>3. m \in Payload
    BY <2>1, <2>2 DEF Payload, Text
  <2> QED
    BY <2>3, NoneIsNoPayload DEF SealingKey
<1>4. new.send_ck.root = st.send_ck.root
  BY SealKeepsRoot
<1> HIDE DEF m, new
<1>5. outbox'[p] = m /\ \A u \in User \ {p} : outbox'[u] = outbox[u]
  BY <1>1, <1>2
<1>6. session'[p][q] = new
      /\ \A u, v \in User : <<u, v>> # <<p, q>> => session'[u][v] = session[u][v]
  BY <1>1, <1>2
<1>7. Len(st.send_ck.root.dhs) # 1 \/ Announced(p, st.send_ck.root)'
  <2>1. \A r : Announced(p, r) => Announced(p, r)'
    BY <1>1, <1>5 DEF Announced
  <2>2. x3dh # None => Announced(p, st.send_ck.root)'
    BY <1>3, <1>5 DEF Announced
  <2> QED
    BY <2>1, <2>2
<1>8. \A u, v \in User : \/ session'[u][v] = session[u][v]
                         \/ Len(session'[u][v].send_ck.root.dhs) # 1
                         \/ \E r : r = session'[u][v].send_ck.root /\ Announced(u, r)'
  BY <1>4, <1>6, <1>7
<1>9. \A u \in User : \/ outbox'[u] = outbox[u]
                      \/ Len(outbox'[u].key.root.dhs) # 1
                      \/ \E r : r = outbox'[u].key.root /\ Announced(u, r)'
  BY <1>3, <1>5, <1>7
<1>10. \A u \in User : awaiting'[u] = None \/ outbox'[u] = None
  BY <1>1, <1>5 DEF HeadersFirst
<1>11. \A u \in User : outbox[u] # None => outbox'[u] = outbox[u]
  BY <1>5
<1> QED
  BY <1>8, <1>9, <1>10, <1>11, AnnouncedStays

(* No step but a death breaks it. *)
LEMMA HeadersStep == SecrecyInv /\ HeaderInv /\ [Next]_vars => HeaderInv'
<1> SUFFICES ASSUME SecrecyInv, HeaderInv, [Next]_vars, crashes' = 0
             PROVE  HeadersFirst'
  BY DEF HeaderInv
<1>1. /\ crashes \in Nat
      /\ outbox \in [User -> Payload \cup {None}]
      /\ awaiting \in [User -> [peer : User, bundle : Bundle] \cup {None}]
      /\ session \in [User -> [User -> RatchetState \cup {None}]]
      /\ \A u, v \in User : session[u][v] # None => WellFormed(session[u][v])
  BY SecrecyTypes DEF TypeInv, TypeOK
<1>2. ASSUME NEW p \in User, Die(p) PROVE FALSE
  BY <1>1, <1>2 DEF Die
<1>3. CASE UNCHANGED vars
  <2>1. crashes = 0 /\ UNCHANGED <<session, net, outbox, awaiting>>
    BY <1>3 DEF vars
  <2> QED
    BY <2>1, AnnouncedStays DEF HeaderInv, HeadersFirst
<1>4. CASE Next
  <2>1. PICK p \in User :
          \/ Register(p) \/ Publish(p)
          \/ \E q \in User : GetBundle(p, q) \/ Send(p, q)
          \/ Initiate(p) \/ Transmit(p) \/ Crash(p) \/ CrashInInitiate(p)
          \/ \E m \in net :
                Receive(p, m) \/ CrashAfterPop(p, m) \/ CrashAfterRespond(p, m)
    BY <1>4 DEF Next
  <2>2. ~ Crash(p) /\ ~ CrashInInitiate(p)
        /\ \A m \in net : ~ CrashAfterPop(p, m) /\ ~ CrashAfterRespond(p, m)
    BY <1>2 DEF Crash, CrashInInitiate, CrashAfterPop, CrashAfterRespond
  <2>3. CASE Register(p) \/ Publish(p)
    <3>1. crashes = 0 /\ UNCHANGED <<session, net, outbox, awaiting>>
      BY <2>3 DEF Register, Publish
    <3> QED
      BY <3>1, AnnouncedStays DEF HeaderInv, HeadersFirst
  <2>4. ASSUME NEW q \in User, GetBundle(p, q) PROVE HeadersFirst'
    <3>1. /\ crashes = 0 /\ UNCHANGED <<session, net, outbox>>
          /\ outbox[p] = None /\ \A u \in User \ {p} : awaiting'[u] = awaiting[u]
      BY <1>1, <2>4 DEF GetBundle, Idle
    <3>2. \A u \in User : awaiting'[u] = None \/ outbox'[u] = None
      BY <3>1 DEF HeaderInv, HeadersFirst
    <3> QED
      BY <3>1, <3>2, AnnouncedStays DEF HeaderInv
  <2>5. ASSUME NEW q \in User, Send(p, q) PROVE HeadersFirst'
    <3> DEFINE st == session[p][q]
    <3>1. /\ crashes = 0 /\ net' = net /\ awaiting' = awaiting
          /\ outbox[p] = None /\ awaiting[p] = None
          /\ st # None /\ CanEncrypt(st) /\ Seal(p, q, st, None)
      BY <2>5 DEF Send, Idle, HasSession
    <3>2. HeadersFirst /\ WellFormed(st)
      BY <1>1, <3>1 DEF HeaderInv
    <3>3. awaiting' = [awaiting EXCEPT ![p] = None]
      BY <1>1, <3>1
    <3>4. Len(st.send_ck.root.dhs) = 1 => Announced(p, st.send_ck.root)
      BY <3>1, <3>2 DEF HeadersFirst, CanEncrypt
    <3> HIDE DEF st
    <3> QED
      BY <3>1, <3>2, <3>3, <3>4, SealStaysAnnounced
  <2>6. CASE Initiate(p)
    <3> DEFINE st == InitiatorState(p)
               h  == X3dhHeaderSend(IK(p, identity[p]), awaiting[p].bundle,
                                    EK(p, keygen[p]))
    <3>1. /\ crashes = 0 /\ net' = net /\ awaiting[p] # None
          /\ awaiting' = [awaiting EXCEPT ![p] = None]
          /\ Seal(p, awaiting[p].peer, st, h)
      BY <2>6 DEF Initiate
    <3>2. HeadersFirst /\ outbox[p] = None /\ awaiting[p].peer \in User
      BY <1>1, <3>1 DEF HeaderInv, HeadersFirst
    <3>3. WellFormed(st) /\ CanEncrypt(st) /\ h \in X3dhHeader
      BY <3>1, SecrecyTypes, InitiatorStateType
    <3>4. h # None
      BY <3>3, NoneIsNoHeader
    <3> HIDE DEF st, h
    <3> QED
      BY <3>1, <3>2, <3>3, <3>4, SealStaysAnnounced
  <2>7. CASE Transmit(p)
    <3>1. /\ crashes = 0 /\ UNCHANGED <<session, awaiting>>
          /\ net' = net \cup {outbox[p]} /\ outbox[p] # None
          /\ outbox'[p] = None /\ \A u \in User \ {p} : outbox'[u] = outbox[u]
      BY <1>1, <2>7 DEF Transmit
    <3>2. HeadersFirst
      BY <3>1 DEF HeaderInv
    <3>3. \A u \in User : \A r : Announced(u, r) => Announced(u, r)'
      BY <3>1 DEF Announced
    <3>4. \A r : Announced(p, r) => \E f \in net' : f.x3dh # None /\ f.key.root = r
      BY <3>1 DEF Announced
    <3>5. FirstPayloadCarriesHeader'
      BY <3>1, <3>2, <3>4 DEF HeadersFirst, FirstPayloadCarriesHeader
    <3> QED
      BY <3>1, <3>2, <3>3, <3>5 DEF HeadersFirst, Announced
  <2>8. ASSUME NEW m \in net, Receive(p, m) PROVE HeadersFirst'
    <3> DEFINE st == ReceiverState(p, m)
    <3>1. /\ crashes = 0 /\ UNCHANGED <<awaiting, outbox, net>> /\ Accepts(p, m)
      BY <2>8 DEF Receive
    <3>2. HeadersFirst
      BY <3>1 DEF HeaderInv
    <3>3. PICK new : /\ session' = [session EXCEPT ![p][m.from] = new]
                     /\ \/ new.send_ck = st.send_ck
                        \/ Len(new.send_ck.root.dhs) > 1
      BY <2>8, ReceiveKeepsSecret
    <3>4. m.from \in User
      BY <2>8, ReceiveKeepsSecret
    <3>5. \/ st.send_ck = None
          \/ st = session[p][m.from] /\ session[p][m.from] # None
      BY <3>1 DEF ReceiverState, InitReceiver, Accepts, HasSession
    <3>6. \/ new.send_ck = None \/ Len(new.send_ck.root.dhs) # 1
          \/ Announced(p, new.send_ck.root)
      <4>1. CASE Len(new.send_ck.root.dhs) > 1
        <5>1. ASSUME NEW n, n > 1 PROVE n # 1
          BY <5>1
        <5> QED
          BY <4>1, <5>1
      <4>2. CASE new.send_ck = st.send_ck
        <5> HIDE DEF st
        <5>1. CASE st.send_ck = None
          BY <4>2, <5>1
        <5>2. CASE st = session[p][m.from] /\ session[p][m.from] # None
          BY <3>2, <3>4, <4>2, <5>2 DEF HeadersFirst
        <5> QED
          BY <3>5, <5>1, <5>2
      <4> QED
        BY <3>3, <4>1, <4>2
    <3>7. \A r : Announced(p, r) => Announced(p, r)'
      BY <3>1 DEF Announced
    <3>8. \A u, v \in User :
              \/ session'[u][v] = session[u][v]
              \/ session'[u][v].send_ck = None
              \/ Len(session'[u][v].send_ck.root.dhs) # 1
              \/ \E r : r = session'[u][v].send_ck.root /\ Announced(u, r)'
      BY <1>1, <3>3, <3>4, <3>6, <3>7
    <3> QED
      BY <3>1, <3>2, <3>8, AnnouncedStays DEF HeadersFirst
  <2> QED
    BY <2>1, <2>2, <2>3, <2>4, <2>5, <2>6, <2>7, <2>8
<1> QED
  BY <1>3, <1>4

(* As long as no process has died, nothing of an initiator's first chain   *)
(* is handed to the relay before the X3DH header that leads to its key,    *)
(* whoever writes, registers anew and is answered what in between.         *)
THEOREM HeaderGoesFirst == Spec => [](crashes = 0 => FirstPayloadCarriesHeader)
<1>1. Init => HeaderInv
  BY DEF Init, HeaderInv, HeadersFirst, FirstPayloadCarriesHeader
<1>2. HeaderInv => (crashes = 0 => FirstPayloadCarriesHeader)
  BY DEF HeaderInv, HeadersFirst
<1> QED
  BY SecrecyInvInit, SecrecyInvStep, HeadersStep, <1>1, <1>2, PTL DEF Spec

-----------------------------------------------------------------------------
(* The two ends have one secret. *)

(* Of two users, one writes first. *)
OneWay == \A i \in Initiations : <<i[2], i[1]>> \notin Initiations

(* No process has died, and no user has registered anew. *)
Calm == crashes = 0 /\ \A u \in User : identity[u] = 0

(* The header of m was made for the first identity of its addressee, with  *)
(* the secret its author has.                                              *)
HeaderAgreed(m) ==
    /\ <<m.from, m.to>> \in Initiations
    /\ session[m.from][m.to] # None
    /\ session[m.from][m.to].root_key.sk = m.key.root.sk
    /\ SPK(m.to, 0) \in m.key.root.sk.dh3

(* A user that may write first, and asks for a bundle, has no session yet; *)
(* the other one has none but that of a header.                            *)
Agreed ==
    /\ \A u \in User : published[u] = 0
    /\ \A u \in User : awaiting[u] # None =>
          /\ <<u, awaiting[u].peer>> \in Initiations
          /\ session[u][awaiting[u].peer] = None
          /\ awaiting[u].bundle.spk = SPK(awaiting[u].peer, 0)
    /\ \A u \in User : outbox[u] # None /\ outbox[u].x3dh # None => HeaderAgreed(outbox[u])
    /\ \A m \in net : m.x3dh # None => HeaderAgreed(m)
    /\ \A p, q \in User : session[p][q] # None =>
          \/ <<p, q>> \in Initiations
          \/ /\ <<q, p>> \in Initiations
             /\ session[q][p] # None
             /\ session[p][q].root_key.sk = session[q][p].root_key.sk

ShareInv == Calm => Agreed

(* Then all sessions of two users have one secret. *)
LEMMA AgreedShare ==
    ASSUME OneWay, Agreed
    PROVE  SessionsShareSecret
<1>1. SUFFICES ASSUME NEW p \in User, NEW q \in User,
                      session[p][q] # None, session[q][p] # None
               PROVE  session[p][q].root_key.sk = session[q][p].root_key.sk
  BY DEF SessionsShareSecret
<1>2. ~ (<<p, q>> \in Initiations /\ <<q, p>> \in Initiations)
  BY DEF OneWay
<1> QED
  BY <1>1, <1>2 DEF Agreed

(* A step that keeps the secrets of all sessions, and adds no header and   *)
(* no request for a bundle but such.                                       *)
LEMMA SecretsStay ==
    ASSUME Agreed,
           \A u, v \in User :
              /\ session'[u][v] = None <=> session[u][v] = None
              /\ session[u][v] # None =>
                    session'[u][v].root_key.sk = session[u][v].root_key.sk,
           \A u \in User : published'[u] = 0,
           \A u \in User :
              \/ awaiting'[u] \in {awaiting[u], None}
              \/ /\ <<u, awaiting'[u].peer>> \in Initiations
                 /\ session[u][awaiting'[u].peer] = None
                 /\ awaiting'[u].bundle.spk = SPK(awaiting'[u].peer, 0),
           \A u \in User : outbox'[u] \in {outbox[u], None} \/ outbox'[u].x3dh = None,
           \A m \in net' : m \in net \/ \E u \in User : outbox[u] # None /\ m = outbox[u]
    PROVE  Agreed'
<1>1. \A i \in Initiations : i[1] \in User /\ i[2] \in User
  BY SessionAssumption
<1>2. \A x, y : <<x, y>> \in Initiations => x \in User /\ y \in User
  BY <1>1
<1>3. \A m : HeaderAgreed(m) => HeaderAgreed(m)'
  BY <1>2 DEF HeaderAgreed
<1>4. ASSUME NEW u \in User, awaiting'[u] # None
      PROVE  /\ <<u, awaiting'[u].peer>> \in Initiations
             /\ session'[u][awaiting'[u].peer] = None
             /\ awaiting'[u].bundle.spk = SPK(awaiting'[u].peer, 0)
  <2>1. /\ <<u, awaiting'[u].peer>> \in Initiations
        /\ session[u][awaiting'[u].peer] = None
        /\ awaiting'[u].bundle.spk = SPK(awaiting'[u].peer, 0)
    <3>1. CASE awaiting'[u] = awaiting[u]
      BY <1>4, <3>1 DEF Agreed
    <3> QED
      BY <1>4, <3>1
  <2>2. awaiting'[u].peer \in User
    BY <1>2, <2>1
  <2> QED
    BY <2>1, <2>2
<1>5. ASSUME NEW u \in User, outbox'[u] # None, outbox'[u].x3dh # None
      PROVE  \E m : m = outbox'[u] /\ HeaderAgreed(m)'
  <2>1. outbox'[u] = outbox[u]
    BY <1>5
  <2>2. HeaderAgreed(outbox[u])
    BY <1>5, <2>1 DEF Agreed
  <2> QED
    BY <1>3, <2>1, <2>2
<1>6. ASSUME NEW m \in net', m.x3dh # None PROVE HeaderAgreed(m)'
  BY <1>3, <1>6 DEF Agreed
<1>7. ASSUME NEW p \in User, NEW q \in User, session'[p][q] # None
      PROVE  \/ <<p, q>> \in Initiations
             \/ /\ <<q, p>> \in Initiations
                /\ session'[q][p] # None
                /\ session'[p][q].root_key.sk = session'[q][p].root_key.sk
  BY <1>7 DEF Agreed
<1>8. \A u \in User : outbox'[u] # None /\ outbox'[u].x3dh # None => HeaderAgreed(outbox[u])'
  BY <1>5 DEF HeaderAgreed
<1> QED
  BY <1>4, <1>6, <1>7, <1>8 DEF Agreed

(* The initiator of a conversation begins its only session. *)
LEMMA InitiateAgreed ==
    ASSUME OneWay, SecrecyInv, Agreed, NEW p \in User, Initiate(p)
    PROVE  Agreed'
<1> DEFINE q   == awaiting[p].peer
           st  == InitiatorState(p)
           new == AfterEncrypt(st)
           m   == outbox'[p]
<1>1. /\ outbox \in [User -> Payload \cup {None}]
      /\ awaiting \in [User -> [peer : User, bundle : Bundle] \cup {None}]
      /\ session \in [User -> [User -> RatchetState \cup {None}]]
  BY SecrecyTypes
<1>2. /\ awaiting[p] # None
      /\ session' = [session EXCEPT ![p][q] = new]
      /\ awaiting' = [awaiting EXCEPT ![p] = None]
      /\ published' = published /\ net' = net
      /\ \A u \in User \ {p} : outbox'[u] = outbox[u]
      /\ m.from = p /\ m.to = q /\ m.key = SealingKey(st)
  BY <1>1 DEF Initiate, Seal, SaveSession, bundles
<1>3. /\ q \in User /\ <<p, q>> \in Initiations /\ session[p][q] = None
      /\ awaiting[p].bundle.spk = SPK(q, 0)
  BY <1>1, <1>2 DEF Agreed
<1>4. p # q /\ <<q, p>> \notin Initiations
  BY <1>3, SessionAssumption DEF OneWay
<1>5. session[q][p] = None
  BY <1>3, <1>4 DEF Agreed
<1>6. new # None /\ new.root_key.sk = m.key.root.sk /\ SPK(q, 0) \in m.key.root.sk.dh3
  <2>1. WellFormed(st) /\ CanEncrypt(st)
    BY <1>2, SecrecyTypes, InitiatorStateType
  <2>2. new # None /\ new.root_key = st.root_key
    BY <2>1, SealKeepsRoot
  <2>3. m.key.root = st.root_key
    BY <1>2 DEF SealingKey, InitiatorState, InitSender, FirstChainKey
  <2>4. SPK(q, 0) \in st.root_key.sk.dh3
    BY <1>3 DEF InitiatorState, InitSender, KdfRk, X3dhSecretSend, DH
  <2> QED
    BY <2>2, <2>3, <2>4
<1> HIDE DEF q, new, m, st
<1>7. session'[p][q] = new
      /\ \A u, v \in User : <<u, v>> # <<p, q>> => session'[u][v] = session[u][v]
  BY <1>1, <1>2, <1>3
<1>8. \A x, y : <<x, y>> \in Initiations => x \in User /\ y \in User
  BY SessionAssumption
<1>9. \A f : HeaderAgreed(f) => HeaderAgreed(f)'
  BY <1>3, <1>7, <1>8 DEF HeaderAgreed
<1>10. HeaderAgreed(outbox[p])'
  BY <1>2, <1>3, <1>6, <1>7 DEF HeaderAgreed, m
<1>11. \A u \in User : outbox'[u] # None /\ outbox'[u].x3dh # None => HeaderAgreed(outbox[u])'
  <2>1. ASSUME NEW u \in User, outbox'[u] # None, outbox'[u].x3dh # None
        PROVE  HeaderAgreed(outbox[u])'
    <3>1. CASE u = p
      BY <1>10, <3>1
    <3>2. CASE u # p
      <4>1. outbox'[u] = outbox[u] /\ HeaderAgreed(outbox[u])
        BY <1>2, <2>1, <3>2 DEF Agreed
      <4>2. \E f : f = outbox'[u] /\ HeaderAgreed(f)'
        BY <1>9, <4>1
      <4> QED
        BY <4>2 DEF HeaderAgreed
    <3> QED
      BY <3>1, <3>2
  <2> QED
    BY <2>1
<1>12. \A f \in net' : f.x3dh # None => HeaderAgreed(f)'
  BY <1>2, <1>9 DEF Agreed
<1>13. \A u \in User : published'[u] = 0
  BY <1>2 DEF Agreed
<1>14. \A u \in User : awaiting'[u] # None =>
          /\ <<u, awaiting'[u].peer>> \in Initiations
          /\ session'[u][awaiting'[u].peer] = None
          /\ awaiting'[u].bundle.spk = SPK(awaiting'[u].peer, 0)
  BY <1>1, <1>2, <1>7, <1>8 DEF Agreed
<1>15. \A u, v \in User : session'[u][v] # None =>
          \/ <<u, v>> \in Initiations
          \/ /\ <<v, u>> \in Initiations
             /\ session'[v][u] # None
             /\ session'[u][v].root_key.sk = session'[v][u].root_key.sk
  BY <1>3, <1>5, <1>7 DEF Agreed
<1> QED
  BY <1>11, <1>12, <1>13, <1>14, <1>15 DEF Agreed

(* A header gives its addressee the secret of its author. *)
LEMMA RespondAgreed ==
    ASSUME OneWay, SecrecyInv, Agreed, Calm, NEW p \in User, NEW m \in net,
           m.to = p, m.x3dh # None, NEW new, new # None,
           new.root_key.sk = ReceiverState(p, m).root_key.sk,
           session' = [session EXCEPT ![p][m.from] = new],
           UNCHANGED <<published, awaiting, outbox, net>>
    PROVE  Agreed'
<1> DEFINE q == m.from
<1>1. /\ session \in [User -> [User -> RatchetState \cup {None}]]
      /\ q \in User
  BY SecrecyTypes DEF Payload
<1>2. /\ <<q, p>> \in Initiations /\ session[q][p] # None
      /\ session[q][p].root_key.sk = m.key.root.sk
      /\ ForIdentity(m)
  BY DEF Agreed, HeaderAgreed, Calm, ForIdentity
<1>3. p # q /\ <<p, q>> \notin Initiations
  BY <1>2, SessionAssumption DEF OneWay
<1>4. new.root_key.sk = m.key.root.sk
  <2>1. HeaderGenuine(keygen, m)
    BY DEF SecrecyInv, HeadersGenuine
  <2>2. PICK g, h, i \in Nat, S \in SUBSET Nat :
          FirstPayload(m, PublicBundle(m.to, h, S), g, i)
    BY <2>1 DEF HeaderGenuine
  <2>3. ReceiverState(p, m) = InitReceiver(m.key.root.sk, SPK(p, h))
    BY <1>2, <2>2, HeaderSecret
  <2> QED
    BY <2>3 DEF InitReceiver
<1> HIDE DEF q
<1>5. session'[p][q] = new
      /\ \A u, v \in User : <<u, v>> # <<p, q>> => session'[u][v] = session[u][v]
  BY <1>1 DEF q
<1>6. \A x, y : <<x, y>> \in Initiations => x \in User /\ y \in User
  BY SessionAssumption
<1>7. \A f : HeaderAgreed(f) => HeaderAgreed(f)'
  BY <1>3, <1>5, <1>6 DEF HeaderAgreed
<1>8. \A u \in User : outbox'[u] # None /\ outbox'[u].x3dh # None => HeaderAgreed(outbox[u])'
  <2>1. ASSUME NEW u \in User, outbox'[u] # None, outbox'[u].x3dh # None
        PROVE  HeaderAgreed(outbox[u])'
    <3>1. outbox'[u] = outbox[u] /\ HeaderAgreed(outbox[u])
      BY <2>1 DEF Agreed
    <3>2. \E f : f = outbox'[u] /\ HeaderAgreed(f)'
      BY <1>7, <3>1
    <3> QED
      BY <3>2 DEF HeaderAgreed
  <2> QED
    BY <2>1
<1>9. \A f \in net' : f.x3dh # None => HeaderAgreed(f)'
  BY <1>7 DEF Agreed
<1>10. \A u \in User : awaiting'[u] # None =>
          /\ <<u, awaiting'[u].peer>> \in Initiations
          /\ session'[u][awaiting'[u].peer] = None
          /\ awaiting'[u].bundle.spk = SPK(awaiting'[u].peer, 0)
  BY <1>3, <1>5, <1>6 DEF Agreed
<1>11. \A u, v \in User : session'[u][v] # None =>
          \/ <<u, v>> \in Initiations
          \/ /\ <<v, u>> \in Initiations
             /\ session'[v][u] # None
             /\ session'[u][v].root_key.sk = session'[v][u].root_key.sk
  BY <1>2, <1>3, <1>4, <1>5 DEF Agreed
<1>12. \A u \in User : published'[u] = 0
  BY DEF Agreed
<1> QED
  BY <1>8, <1>9, <1>10, <1>11, <1>12 DEF Agreed

(* No step but a death and a new identity breaks it. *)
LEMMA SharedStep ==
    ASSUME OneWay
    PROVE  SecrecyInv /\ ShareInv /\ [Next]_vars => ShareInv'
<1> SUFFICES ASSUME SecrecyInv, ShareInv, [Next]_vars, Calm' PROVE Agreed'
  BY DEF ShareInv
<1>1. /\ crashes \in Nat /\ identity \in [User -> Nat]
      /\ published \in [User -> Nat]
      /\ outbox \in [User -> Payload \cup {None}]
      /\ awaiting \in [User -> [peer : User, bundle : Bundle] \cup {None}]
      /\ session \in [User -> [User -> RatchetState \cup {None}]]
      /\ \A u, v \in User : session[u][v] # None => WellFormed(session[u][v])
  BY SecrecyTypes DEF TypeInv, TypeOK
<1>2. ASSUME NEW p \in User, Die(p) PROVE FALSE
  BY <1>1, <1>2 DEF Die, Calm
<1>3. CASE UNCHANGED vars
  <2>1. /\ Agreed /\ UNCHANGED <<session, published, awaiting, outbox, net>>
    BY <1>3 DEF vars, bundles, ShareInv, Calm
  <2> QED
    BY <2>1, SecretsStay DEF Agreed
<1>4. CASE Next
  <2>1. PICK p \in User :
          \/ Register(p) \/ Publish(p)
          \/ \E q \in User : GetBundle(p, q) \/ Send(p, q)
          \/ Initiate(p) \/ Transmit(p) \/ Crash(p) \/ CrashInInitiate(p)
          \/ \E m \in net :
                Receive(p, m) \/ CrashAfterPop(p, m) \/ CrashAfterRespond(p, m)
    BY <1>4 DEF Next
  <2>2. ~ Crash(p) /\ ~ CrashInInitiate(p)
        /\ \A m \in net : ~ CrashAfterPop(p, m) /\ ~ CrashAfterRespond(p, m)
    BY <1>2 DEF Crash, CrashInInitiate, CrashAfterPop, CrashAfterRespond
  <2>3. ~ Register(p)
    BY <1>1 DEF Register, Calm
  <2>4. CASE Publish(p)
    <3>1. /\ identity' = identity /\ UNCHANGED <<session, awaiting, outbox, net>>
          /\ crashes' = crashes
          /\ published' = [published EXCEPT ![p] = identity[p]]
      BY <2>4 DEF Publish
    <3>2. Agreed /\ \A u \in User : published'[u] = 0
      BY <1>1, <3>1 DEF ShareInv, Calm, Agreed
    <3> QED
      BY <3>1, <3>2, SecretsStay
  <2>5. ASSUME NEW q \in User, GetBundle(p, q) PROVE Agreed'
    <3> DEFINE served == IF stock[q] = {} THEN {} ELSE {FirstOpk(stock[q])}
               b      == PublicBundle(q, published[q], served)
    <3>1. /\ UNCHANGED <<session, identity, published, outbox, net, crashes>>
          /\ awaiting' = [awaiting EXCEPT ![p] = [peer |-> q, bundle |-> b]]
          /\ <<p, q>> \in Initiations /\ session[p][q] = None
      BY <2>5 DEF GetBundle, HasSession
    <3>2. Agreed
      BY <3>1 DEF ShareInv, Calm
    <3>3. b.spk = SPK(q, 0)
      BY <3>2 DEF PublicBundle, Agreed
    <3> HIDE DEF b
    <3>4. \A u \in User :
            \/ awaiting'[u] \in {awaiting[u], None}
            \/ /\ <<u, awaiting'[u].peer>> \in Initiations
               /\ session[u][awaiting'[u].peer] = None
               /\ awaiting'[u].bundle.spk = SPK(awaiting'[u].peer, 0)
      <4>1. awaiting'[p].peer = q /\ awaiting'[p].bundle = b
        BY <1>1, <3>1
      <4>2. \A u \in User \ {p} : awaiting'[u] = awaiting[u]
        BY <1>1, <3>1
      <4> QED
        BY <3>1, <3>3, <4>1, <4>2
    <3>5. \A u \in User : published'[u] = 0
      BY <3>1, <3>2 DEF Agreed
    <3> QED
      BY <3>1, <3>2, <3>4, <3>5, SecretsStay
  <2>6. ASSUME NEW u \in User, NEW v \in User, NEW new, new # None,
               session[u][v] # None, new.root_key.sk = session[u][v].root_key.sk,
               session' = [session EXCEPT ![u][v] = new],
               UNCHANGED <<identity, published, awaiting, net, crashes>>,
               \A w \in User : outbox'[w] = outbox[w] \/ outbox'[w].x3dh = None
        PROVE  Agreed'
    <3>1. Agreed
      BY <2>6 DEF ShareInv, Calm
    <3>2. \A x, y \in User :
            /\ session'[x][y] = None <=> session[x][y] = None
            /\ session[x][y] # None =>
                  session'[x][y].root_key.sk = session[x][y].root_key.sk
      <4>1. session'[u][v] = new
            /\ \A x, y \in User : <<x, y>> # <<u, v>> => session'[x][y] = session[x][y]
        BY <1>1, <2>6
      <4> QED
        BY <2>6, <4>1
    <3>3. \A w \in User : published'[w] = 0
      BY <2>6, <3>1 DEF Agreed
    <3> QED
      BY <2>6, <3>1, <3>2, <3>3, SecretsStay
  <2>7. ASSUME NEW q \in User, Send(p, q) PROVE Agreed'
    <3> DEFINE st == session[p][q]
    <3>1. /\ UNCHANGED <<identity, published, awaiting, net, crashes>>
          /\ st # None /\ CanEncrypt(st)
          /\ session' = [session EXCEPT ![p][q] = AfterEncrypt(st)]
          /\ \A w \in User : outbox'[w] = outbox[w] \/ outbox'[w].x3dh = None
      BY <1>1, <2>7 DEF Send, HasSession, Seal, SaveSession, bundles
    <3>2. WellFormed(st)
      BY <1>1, <3>1
    <3>3. AfterEncrypt(st) # None /\ AfterEncrypt(st).root_key.sk = st.root_key.sk
      <4> HIDE DEF st
      <4> QED
        BY <3>1, <3>2, SealKeepsRoot
    <3> QED
      BY <2>6, <3>1, <3>3
  <2>8. CASE Initiate(p)
    <3>1. UNCHANGED <<identity, crashes>>
      BY <2>8 DEF Initiate
    <3>2. Agreed
      BY <3>1 DEF ShareInv, Calm
    <3> QED
      BY <2>8, <3>2, InitiateAgreed
  <2>9. CASE Transmit(p)
    <3>1. /\ UNCHANGED <<session, identity, published, awaiting, crashes>>
          /\ net' = net \cup {outbox[p]} /\ outbox[p] # None
          /\ \A u \in User : outbox'[u] \in {outbox[u], None}
      BY <1>1, <2>9 DEF Transmit, bundles
    <3>2. Agreed
      BY <3>1 DEF ShareInv, Calm
    <3>3. \A u \in User : published'[u] = 0
      BY <3>1, <3>2 DEF Agreed
    <3> QED
      BY <3>1, <3>2, <3>3, SecretsStay
  <2>10. ASSUME NEW m \in net, Receive(p, m) PROVE Agreed'
    <3>1. /\ UNCHANGED <<identity, published, awaiting, outbox, net, crashes>>
          /\ m.to = p /\ Accepts(p, m)
      BY <2>10 DEF Receive, bundles
    <3>2. Agreed /\ Calm
      BY <3>1 DEF ShareInv, Calm
    <3>3. PICK new : /\ session' = [session EXCEPT ![p][m.from] = new]
                     /\ new # None
                     /\ new.root_key.sk = ReceiverState(p, m).root_key.sk
      BY <2>10, ReceiveKeepsSecret
    <3>4. m.from \in User
      BY <2>10, ReceiveKeepsSecret
    <3>5. CASE m.x3dh # None
      BY <3>1, <3>2, <3>3, <3>5, RespondAgreed
    <3>6. CASE m.x3dh = None
      <4>1. session[p][m.from] # None /\ ReceiverState(p, m) = session[p][m.from]
        BY <3>1, <3>6 DEF Accepts, HasSession, ReceiverState
      <4> QED
        BY <2>6, <3>1, <3>3, <3>4, <4>1
    <3> QED
      BY <3>5, <3>6
  <2> QED
    BY <2>1, <2>2, <2>3, <2>4, <2>5, <2>7, <2>8, <2>9, <2>10
<1> QED
  BY <1>3, <1>4

(* If of two users only one ever writes first, then as long as no process  *)
(* has died and no user has registered anew, the two ends of a             *)
(* conversation have one secret, whatever is lost, repeated or comes out   *)
(* of order.                                                               *)
THEOREM OneSecret ==
    ASSUME OneWay
    PROVE  Spec => [](Calm => SessionsShareSecret)
<1>1. Init => ShareInv
  BY DEF Init, ShareInv, Agreed
<1>2. ShareInv => (Calm => SessionsShareSecret)
  BY AgreedShare DEF ShareInv
<1>3. SecrecyInv /\ ShareInv /\ [Next]_vars => ShareInv'
  BY SharedStep
<1> QED
  BY SecrecyInvInit, SecrecyInvStep, <1>1, <1>2, <1>3, PTL DEF Spec

-----------------------------------------------------------------------------
(* What a conversation is, from a to b: the session s of a for b and t of  *)
(* b for a, the payloads M that may still arrive, those of them N that the *)
(* relay has, the texts S sealed so far, and the keys O that b has used.   *)

(* The place of a chain: how many DH outputs went into its root.           *)
Place(r) == Len(r.dhs)

(* u has sealed a text under the secret sk. *)
HasSealed(u, sk, S) == \E x \in S : x.text.from = u /\ x.key.root.sk = sk

(* The signed prekeys of u that went into the secret sk. *)
PrekeysOf(u, sk) == {k \in sk.dh3 : k.kind = "spk" /\ k.owner = u}

(* The chain of root r and ratchet key k, sent to b: the first hangs on a  *)
(* signed prekey of b that is in the secret; there is a later one only     *)
(* when b has answered.                                                    *)
BeginsRight(b, r, k, S) ==
    /\ k.kind = "dh"
    /\ r.dhs # << >>
    /\ Place(r) = 1 => \E j \in PrekeysOf(b, r.sk) : r.dhs = <<DH(k, j)>>
    /\ Place(r) > 1 => HasSealed(b, r.sk, S)

(* All payloads of a chain have one root, one ratchet key and one count of *)
(* the chain before, in which no payload has a higher number.              *)
InSequence(m, f) ==
    /\ m.hdr.dh_pub = f.hdr.dh_pub => m.key.root = f.key.root
    /\ m.key.root.sk = f.key.root.sk =>
          /\ Place(m.key.root) = Place(f.key.root) =>
                m.key.root = f.key.root /\ m.hdr.dh_pub = f.hdr.dh_pub
          /\ Place(m.key.root) = Place(f.key.root) + 2 => f.hdr.n < m.hdr.pn

MailInOrder(a, b, M, S) ==
    \A m \in M :
        /\ m.key.n = m.hdr.n
        /\ \E x \in S : x.text.from = a /\ x.key = m.key
        /\ BeginsRight(b, m.key.root, m.hdr.dh_pub, S)
        /\ \A f \in M : InSequence(m, f)

(* The author's session s is where it was when m was sealed, or past it.   *)
Wrote(s, m) ==
    /\ m.hdr.dh_pub = s.dh_self => m.key.root = s.root_key
    /\ m.key.root.sk = s.root_key.sk =>
          /\ Place(m.key.root) <= Place(s.root_key)
          /\ Place(m.key.root) = Place(s.root_key) =>
                /\ m.key.root = s.root_key /\ m.hdr.dh_pub = s.dh_self
                /\ m.hdr.n < s.send_n
          /\ Place(s.root_key) = Place(m.key.root) + 2 => m.hdr.n < s.prev_send_n

(* A responder that has not received anything has written nothing.         *)
Author(a, b, s, M, S) ==
    IF s.send_ck = None
    THEN /\ s.root_key.dhs = << >> /\ s.recv_ck = None
         /\ s.dh_self \in PrekeysOf(a, s.root_key.sk)
         /\ \A m \in M : m.key.root.sk # s.root_key.sk
    ELSE /\ s.send_ck.root = s.root_key /\ s.send_ck.n = s.send_n
         /\ BeginsRight(b, s.root_key, s.dh_self, S)
         /\ \A m \in M : Wrote(s, m)

(* b has opened m, or its session t has the key of m in the cache. *)
InCache(t, m) ==
    \E e \in t.skipped : e.dh = m.hdr.dh_pub /\ e.n = m.hdr.n /\ e.key = m.key

Accounted(t, m, O) == m.key \in O \/ InCache(t, m)

(* The next chain, the present one, an earlier one. *)
OfNext(t, m) == m.key.root.dhs = Append(t.root_key.dhs, DH(t.dh_self, m.hdr.dh_pub))

OfPresent(t, m) ==
    t.recv_ck # None /\ m.key.root = t.recv_ck.root /\ m.hdr.dh_pub = t.dh_remote

OfEarlier(t, m) == Place(m.key.root) + 1 < Place(t.root_key)

(* Of which chain m can be, for a reader with t. *)
Reads(t, m, O) ==
    \/ OfNext(t, m)
    \/ OfPresent(t, m) /\ (m.hdr.n < t.recv_n => Accounted(t, m, O))
    \/ OfEarlier(t, m) /\ Accounted(t, m, O)

(* A chain that b has read from is that of a payload it got. *)
Begun(k, r, N) == \E m \in N : m.hdr.dh_pub = k /\ m.key.root = r

Reader(t, M, N, O) ==
    /\ IF t.recv_ck = None
       THEN t.dh_remote # None => t.dh_remote.kind # "dh"
       ELSE /\ t.recv_ck.n = t.recv_n
            /\ t.recv_ck.root.sk = t.root_key.sk
            /\ Place(t.root_key) = Place(t.recv_ck.root) + 1
            /\ Begun(t.dh_remote, t.recv_ck.root, N)
    /\ \A e \in t.skipped :
          /\ e.key.n = e.n /\ Place(e.key.root) < Place(t.root_key)
          /\ Begun(e.dh, e.key.root, N)
    /\ \A m \in M : m.key.root.sk = t.root_key.sk => Reads(t, m, O)

(* What s seals next can be read by t, if they have one secret. *)
Faces(s, t) ==
    (s.root_key.sk = t.root_key.sk /\ s.send_ck # None) =>
        \/ s.root_key.dhs = Append(t.root_key.dhs, DH(t.dh_self, s.dh_self))
        \/ /\ t.recv_ck # None
           /\ t.recv_ck.root = s.root_key /\ t.dh_remote = s.dh_self
           /\ t.recv_n <= s.send_n

Conversation(a, b, s, t, M, N, S, O) ==
    /\ M \subseteq Payload /\ N \subseteq M
    /\ s # None => WellFormed(s)
    /\ t # None => WellFormed(t)
    /\ MailInOrder(a, b, M, S)
    /\ s # None => Author(a, b, s, M, S)
    /\ t # None => Reader(t, M, N, O)
    /\ (s # None /\ t # None) => Faces(s, t)

-----------------------------------------------------------------------------
(* The fields of payloads and states. *)

(* What a payload is made of. *)
LEMMA PayloadFields ==
    ASSUME NEW m \in Payload
    PROVE  /\ m.hdr \in Header /\ m.hdr.dh_pub \in Key
           /\ m.hdr.n \in Nat /\ m.hdr.pn \in Nat
           /\ m.key \in ChainKey /\ m.key.n \in Nat /\ m.key.root \in RootKey
           /\ m.from \in User /\ m.to \in User
BY DEF Payload, Header, MessageKey, ChainKey

(* What a state is made of. *)
LEMMA StateFields ==
    ASSUME NEW s, WellFormed(s)
    PROVE  /\ s \in RatchetState /\ s.dh_self \in Key /\ s.root_key \in RootKey
           /\ s.send_n \in Nat /\ s.recv_n \in Nat /\ s.prev_send_n \in Nat
           /\ s.send_ck # None => s.send_ck \in ChainKey /\ s.send_ck.root \in RootKey
           /\ s.recv_ck # None =>
                 /\ s.recv_ck \in ChainKey /\ s.recv_ck.root \in RootKey
                 /\ s.dh_remote \in Key
           /\ \A e \in s.skipped : /\ e \in SkippedKey /\ e.key \in ChainKey
                                   /\ e.key.root \in RootKey /\ e.n \in Nat /\ e.dh \in Key
BY DEF WellFormed, RatchetState, ChainKey, MessageKey, SkippedKey

(* Roots have places. *)
LEMMA PlaceIsNat == \A r \in RootKey : Place(r) \in Nat /\ r.dhs \in Seq(SUBSET Key)
BY DEF RootKey, Place

(* A root key is what is in it. *)
LEMMA SameRoot ==
    ASSUME NEW r \in RootKey, NEW q \in RootKey, r.sk = q.sk, r.dhs = q.dhs
    PROVE  r = q
BY DEF RootKey

(* So is a message key. *)
LEMMA SameKey ==
    ASSUME NEW k \in ChainKey, NEW l \in ChainKey, k.root = l.root, k.n = l.n
    PROVE  k = l
BY DEF ChainKey

(* Mixing an output in leads to the next place. *)
LEMMA NextPlace ==
    ASSUME NEW r \in RootKey, NEW dh \in SUBSET Key
    PROVE  /\ KdfRk(r, dh) \in RootKey /\ KdfRk(r, dh).sk = r.sk
           /\ KdfRk(r, dh).dhs = Append(r.dhs, dh)
           /\ Place(KdfRk(r, dh)) = Place(r) + 1
BY KdfRkType DEF Place, RootKey

(* One output more is one place further. *)
LEMMA AppendPlace ==
    ASSUME NEW r \in RootKey, NEW q \in RootKey, NEW dh, r.dhs = Append(q.dhs, dh)
    PROVE  Place(r) = Place(q) + 1
<1>1. q.dhs \in Seq(SUBSET Key)
  BY DEF RootKey
<1> QED
  BY <1>1 DEF Place

-----------------------------------------------------------------------------
(* What decrypt_message leaves, field by field. *)

(* Only the receiving side of st has changed in new. *)
SameSender(st, new) ==
    /\ new.dh_self = st.dh_self /\ new.root_key = st.root_key
    /\ new.send_ck = st.send_ck /\ new.send_n = st.send_n
    /\ new.prev_send_n = st.prev_send_n

(* What is cached under the remote key is of the receive chain. *)
CacheFits(st) ==
    /\ st.recv_ck # None => st.recv_ck.n = st.recv_n
    /\ \A e \in st.skipped :
          /\ e.key.n = e.n
          /\ (st.recv_ck # None /\ e.dh = st.dh_remote) => e.key.root = st.recv_ck.root

(* A key of number i of a chain is cached. *)
Cached(new, k, r, i) ==
    \E e \in new.skipped : e.dh = k /\ e.n = i /\ e.key.root = r /\ e.key.n = i

(* _skip_message_keys caches what it passes, and drops nothing. *)
LEMMA SkipCaches ==
    ASSUME NEW st, WellFormed(st), NEW until \in Nat, st.recv_ck # None, CacheFits(st)
    PROVE  LET new == SkipMessageKeys(st, until) IN
           /\ WellFormed(new) /\ SameSender(st, new) /\ new.dh_remote = st.dh_remote
           /\ new.recv_ck # None /\ new.recv_ck \in ChainKey
           /\ new.recv_ck.root = st.recv_ck.root /\ new.recv_ck.n = new.recv_n
           /\ new.recv_n = IF until <= st.recv_n THEN st.recv_n ELSE until
           /\ st.skipped \subseteq new.skipped
           /\ \A e \in new.skipped :
                 \/ e \in st.skipped
                 \/ /\ e.dh = st.dh_remote /\ e.key.root = st.recv_ck.root
                    /\ e.key.n = e.n
           /\ \A i \in Nat : (st.recv_n <= i /\ i < until) =>
                 Cached(new, st.dh_remote, st.recv_ck.root, i)
<1> DEFINE new == SkipMessageKeys(st, until)
           ks  == KeysUpTo(st, until)
<1>1. /\ WellFormed(new) /\ new.dh_self = st.dh_self /\ new.dh_remote = st.dh_remote
      /\ new.root_key = st.root_key /\ new.send_ck = st.send_ck
  BY SkipMessageKeysType
<1>2. /\ st \in RatchetState /\ st.recv_n \in Nat /\ st.recv_ck \in ChainKey
      /\ st.recv_ck.n = st.recv_n /\ st.recv_ck.n \in Nat
      /\ \A e \in st.skipped : /\ e \in SkippedKey /\ e.key \in ChainKey
                               /\ e.n \in Nat /\ e.dh \in Key
  BY StateFields DEF CacheFits
<1>3. CASE until <= st.recv_n
  <2>1. new = st
    BY <1>3 DEF SkipMessageKeys
  <2>2. \A i \in Nat : ~ (st.recv_n <= i /\ i < until)
    BY <1>2, <1>3
  <2> QED
    BY <1>1, <1>2, <1>3, <2>1, <2>2 DEF SameSender
<1>4. CASE ~ (until <= st.recv_n)
  <2>1. st.recv_n < until
    BY <1>2, <1>4
  <2>2. /\ new.skipped = {e \in st.skipped : \A f \in ks : <<e.dh, e.n>> # <<f.dh, f.n>>}
                         \cup ks
        /\ new.recv_ck = ChainKeyAfter(st.recv_ck, until - st.recv_n)
        /\ new.recv_n = until /\ new.send_n = st.send_n
    BY <2>1, SkipFields
  <2>3. \A f \in ks : /\ f.dh = st.dh_remote
                      /\ f.n \in Nat /\ st.recv_n <= f.n /\ f.n < until
                      /\ f.key.root = st.recv_ck.root /\ f.key.n = f.n
    BY <1>2, KeysUpToAre
  <2>4. new.prev_send_n = st.prev_send_n
    BY <1>2, <1>4 DEF SkipMessageKeys, RatchetState
  <2>5. \A n \in Nat : /\ ChainKeyAfter(st.recv_ck, n) \in ChainKey
                       /\ ChainKeyAfter(st.recv_ck, n).root = st.recv_ck.root
                       /\ ChainKeyAfter(st.recv_ck, n).n = st.recv_n + n
    BY <1>2 DEF ChainKeyAfter, ChainKey
  <2>6. /\ new.recv_ck \in ChainKey /\ new.recv_ck.root = st.recv_ck.root
        /\ new.recv_ck.n = until
    <3>1. until - st.recv_n \in Nat /\ st.recv_n + (until - st.recv_n) = until
      BY <1>2, <2>1
    <3> QED
      BY <2>2, <2>5, <3>1
  <2>7. ASSUME NEW e \in st.skipped PROVE e \in new.skipped
    <3>1. CASE \A f \in ks : <<e.dh, e.n>> # <<f.dh, f.n>>
      BY <2>2, <3>1
    <3>2. CASE ~ \A f \in ks : <<e.dh, e.n>> # <<f.dh, f.n>>
      <4>1. PICK f \in ks : e.dh = f.dh /\ e.n = f.n
        BY <3>2
      <4>2. e.key.root = f.key.root /\ e.key.n = f.key.n
        BY <2>3, <4>1 DEF CacheFits
      <4>3. f \in SkippedKey /\ f.key \in ChainKey /\ e.key \in ChainKey
        BY <1>1, <1>2, <2>2, StateFields
      <4>4. e.key = f.key
        BY <4>2, <4>3, SameKey
      <4>5. e = f
        BY <1>2, <4>1, <4>3, <4>4 DEF SkippedKey
      <4> QED
        BY <2>2, <4>5
    <3> QED
      BY <3>1, <3>2
  <2>8. ASSUME NEW i \in Nat, st.recv_n <= i, i < until
        PROVE  Cached(new, st.dh_remote, st.recv_ck.root, i)
    <3> DEFINE f == [dh |-> st.dh_remote, n |-> i,
                     key |-> ChainKeyAfter(st.recv_ck, i - st.recv_n)]
    <3>1. i \in st.recv_n .. (until - 1)
      BY <1>2, <2>8
    <3>2. f \in ks
      BY <3>1 DEF KeysUpTo
    <3>3. f \in new.skipped
      BY <2>2, <3>2
    <3> QED
      BY <2>3, <3>2, <3>3 DEF Cached
  <2>9. new.recv_ck # None
    BY <2>6, NoneIsNoChainKey
  <2>10. SameSender(st, new)
    BY <1>1, <2>2, <2>4 DEF SameSender
  <2> HIDE DEF new, ks
  <2>11. \A e \in new.skipped :
           \/ e \in st.skipped
           \/ /\ e.dh = st.dh_remote /\ e.key.root = st.recv_ck.root
              /\ e.key.n = e.n
    BY <2>2, <2>3
  <2>12. st.skipped \subseteq new.skipped
    BY <2>7
  <2> QED
    BY <1>1, <1>4, <2>2, <2>6, <2>8, <2>9, <2>10, <2>11, <2>12 DEF new
<1> QED
  BY <1>3, <1>4

(* Without a receive chain there is nothing to skip. *)
LEMMA SkipNothing ==
    ASSUME NEW st, st.recv_ck = None, NEW until
    PROVE  SkipMessageKeys(st, until) = st
BY DEF SkipMessageKeys

(* A cached key is used and dropped. *)
LEMMA DecryptCached ==
    ASSUME NEW st, WellFormed(st), NEW hdr \in Header, NEW fresh \in Key,
           CacheHits(st, hdr) # {}
    PROVE  LET new == AfterDecrypt(st, hdr, fresh) IN
           /\ SameSender(st, new) /\ new.dh_remote = st.dh_remote
           /\ new.recv_ck = st.recv_ck /\ new.recv_n = st.recv_n
           /\ new.skipped = st.skipped \ CacheHits(st, hdr)
           /\ \E e \in st.skipped : /\ e.dh = hdr.dh_pub /\ e.n = hdr.n
                                    /\ OpeningKey(st, hdr, fresh) = e.key
           /\ ~ Raises(st, hdr, fresh)
<1>1. AfterDecrypt(st, hdr, fresh) = [st EXCEPT !.skipped = @ \ CacheHits(st, hdr)]
  BY DEF AfterDecrypt
<1>2. st \in RatchetState
  BY DEF WellFormed
<1>3. OpeningKey(st, hdr, fresh) = (CHOOSE e \in CacheHits(st, hdr) : TRUE).key
  BY DEF OpeningKey
<1>4. (CHOOSE e \in CacheHits(st, hdr) : TRUE) \in CacheHits(st, hdr)
  OBVIOUS
<1> QED
  BY <1>1, <1>2, <1>3, <1>4 DEF SameSender, RatchetState, CacheHits, Raises

(* A payload of the chain that is there. *)
LEMMA DecryptPresent ==
    ASSUME NEW st, WellFormed(st), CacheFits(st), NEW hdr \in Header, NEW fresh \in Key,
           CacheHits(st, hdr) = {}, ~ NeedsRatchet(st, hdr), st.recv_ck # None
    PROVE  LET new == AfterDecrypt(st, hdr, fresh)
               k   == OpeningKey(st, hdr, fresh)
           IN  /\ SameSender(st, new) /\ new.dh_remote = st.dh_remote
               /\ k \in ChainKey /\ k.root = st.recv_ck.root
               /\ k.n = IF hdr.n <= st.recv_n THEN st.recv_n ELSE hdr.n
               /\ new.recv_ck # None /\ new.recv_ck.root = st.recv_ck.root
               /\ new.recv_n = k.n + 1 /\ new.recv_ck.n = k.n + 1
               /\ st.skipped \subseteq new.skipped
               /\ \A e \in new.skipped :
                     \/ e \in st.skipped
                     \/ /\ e.dh = st.dh_remote /\ e.key.root = st.recv_ck.root
                        /\ e.key.n = e.n
               /\ \A i \in Nat : (st.recv_n <= i /\ i < hdr.n) =>
                     Cached(new, st.dh_remote, st.recv_ck.root, i)
               /\ Raises(st, hdr, fresh) <=> TooManySkipped(st, hdr.n)
<1> DEFINE s   == SkipMessageKeys(st, hdr.n)
           new == AfterDecrypt(st, hdr, fresh)
<1>1. hdr.n \in Nat /\ hdr.pn \in Nat
  BY DEF Header
<1>2. CaughtUp(st, hdr, fresh) = s /\ Ratcheted(st, hdr, fresh) = st
  BY DEF CaughtUp, Ratcheted
<1>3. OpeningKey(st, hdr, fresh) = s.recv_ck
  BY <1>2 DEF OpeningKey
<1>4. new = [s EXCEPT !.recv_ck = KdfCk(@), !.recv_n = @ + 1]
  BY <1>2 DEF AfterDecrypt
<1>5. /\ WellFormed(s) /\ SameSender(st, s) /\ s.dh_remote = st.dh_remote
      /\ s.recv_ck # None /\ s.recv_ck \in ChainKey
      /\ s.recv_ck.root = st.recv_ck.root /\ s.recv_ck.n = s.recv_n
      /\ s.recv_n = IF hdr.n <= st.recv_n THEN st.recv_n ELSE hdr.n
      /\ st.skipped \subseteq s.skipped
      /\ \A e \in s.skipped :
            \/ e \in st.skipped
            \/ /\ e.dh = st.dh_remote /\ e.key.root = st.recv_ck.root
               /\ e.key.n = e.n
      /\ \A i \in Nat : (st.recv_n <= i /\ i < hdr.n) =>
            Cached(s, st.dh_remote, st.recv_ck.root, i)
  BY <1>1, SkipCaches
<1> HIDE DEF s
<1>6. s \in RatchetState
  BY <1>5 DEF WellFormed
<1>7. /\ SameSender(s, new) /\ new.dh_remote = s.dh_remote
      /\ new.recv_ck = KdfCk(s.recv_ck) /\ new.recv_n = s.recv_n + 1
      /\ new.skipped = s.skipped
  BY <1>4, <1>6 DEF SameSender, RatchetState
<1>8. /\ KdfCk(s.recv_ck) \in ChainKey /\ KdfCk(s.recv_ck).root = s.recv_ck.root
      /\ KdfCk(s.recv_ck).n = s.recv_ck.n + 1
  BY <1>5 DEF KdfCk, ChainKey
<1>9. Raises(st, hdr, fresh) <=> TooManySkipped(st, hdr.n)
  BY <1>2, <1>5 DEF Raises
<1>10. new.recv_ck # None
  BY <1>7, <1>8, NoneIsNoChainKey
<1> HIDE DEF new
<1> QED
  BY <1>3, <1>5, <1>7, <1>8, <1>9, <1>10 DEF SameSender, Cached, new

(* A payload of the next chain. *)
LEMMA DecryptNext ==
    ASSUME NEW st, WellFormed(st), CacheFits(st), NEW hdr \in Header, NEW fresh \in Key,
           CacheHits(st, hdr) = {}, NeedsRatchet(st, hdr),
           \A e \in st.skipped : e.dh # hdr.dh_pub
    PROVE  LET new == AfterDecrypt(st, hdr, fresh)
               k   == OpeningKey(st, hdr, fresh)
               r   == KdfRk(st.root_key, DH(st.dh_self, hdr.dh_pub))
           IN  /\ new.dh_self = fresh /\ new.dh_remote = hdr.dh_pub
               /\ new.root_key = KdfRk(r, DH(fresh, hdr.dh_pub))
               /\ new.send_ck = FirstChainKey(new.root_key)
               /\ new.send_n = 0 /\ new.prev_send_n = st.send_n
               /\ k \in ChainKey /\ k.root = r /\ k.n = hdr.n
               /\ new.recv_ck # None /\ new.recv_ck.root = r
               /\ new.recv_n = hdr.n + 1 /\ new.recv_ck.n = hdr.n + 1
               /\ st.skipped \subseteq new.skipped
               /\ \A e \in new.skipped :
                     \/ e \in st.skipped
                     \/ /\ st.recv_ck # None
                        /\ e.dh = st.dh_remote /\ e.key.root = st.recv_ck.root
                        /\ e.key.n = e.n
                     \/ /\ e.dh = hdr.dh_pub /\ e.key.root = r /\ e.key.n = e.n
               /\ \A i \in Nat : (st.recv_ck # None /\ st.recv_n <= i /\ i < hdr.pn) =>
                     Cached(new, st.dh_remote, st.recv_ck.root, i)
               /\ \A i \in Nat : i < hdr.n => Cached(new, hdr.dh_pub, r, i)
               /\ Raises(st, hdr, fresh) <=>
                     TooManySkipped(st, hdr.pn) \/ hdr.n > MAX_SKIP
<1> DEFINE r    == KdfRk(st.root_key, DH(st.dh_self, hdr.dh_pub))
           r2   == KdfRk(r, DH(fresh, hdr.dh_pub))
           s    == SkipMessageKeys(st, hdr.pn)
           d    == DhRatchet(s, hdr.dh_pub, fresh)
           c    == SkipMessageKeys(d, hdr.n)
           new  == AfterDecrypt(st, hdr, fresh)
<1>1. hdr.n \in Nat /\ hdr.pn \in Nat /\ hdr.dh_pub \in Key
  BY DEF Header
<1>2. Ratcheted(st, hdr, fresh) = d /\ CaughtUp(st, hdr, fresh) = c
  BY DEF Ratcheted, CaughtUp
<1>3. /\ WellFormed(s) /\ SameSender(st, s)
      /\ st.skipped \subseteq s.skipped
      /\ \A e \in s.skipped :
            \/ e \in st.skipped
            \/ /\ st.recv_ck # None
               /\ e.dh = st.dh_remote /\ e.key.root = st.recv_ck.root /\ e.key.n = e.n
      /\ \A i \in Nat : (st.recv_ck # None /\ st.recv_n <= i /\ i < hdr.pn) =>
            Cached(s, st.dh_remote, st.recv_ck.root, i)
  <2>1. CASE st.recv_ck = None
    <3>1. s = st
      BY <2>1, SkipNothing
    <3> QED
      BY <2>1, <3>1 DEF SameSender
  <2>2. CASE st.recv_ck # None
    BY <1>1, <2>2, SkipCaches
  <2> QED
    BY <2>1, <2>2
<1> HIDE DEF s
<1>4. s.root_key = st.root_key /\ s.dh_self = st.dh_self /\ s.send_n = st.send_n
  BY <1>3 DEF SameSender
<1>5. /\ WellFormed(d) /\ r \in RootKey /\ r2 \in RootKey
      /\ d.dh_self = fresh /\ d.dh_remote = hdr.dh_pub /\ d.root_key = r2
      /\ d.send_ck = FirstChainKey(r2) /\ d.recv_ck = FirstChainKey(r)
  BY <1>1, <1>3, <1>4, DhRatchetType
<1>6. d.send_n = 0 /\ d.recv_n = 0 /\ d.prev_send_n = st.send_n /\ d.skipped = s.skipped
  BY <1>4 DEF DhRatchet
<1>7. /\ d.recv_ck \in ChainKey /\ d.recv_ck.root = r /\ d.recv_ck.n = 0
      /\ d.recv_ck # None
  BY <1>5, NoneIsNoChainKey DEF FirstChainKey, ChainKey
<1> HIDE DEF d, r, r2
<1>8. CacheFits(d)
  <2>1. ASSUME NEW e \in s.skipped PROVE e.key.n = e.n /\ e.dh # hdr.dh_pub
    BY <1>3, <2>1 DEF CacheFits, NeedsRatchet
  <2> QED
    BY <1>5, <1>6, <1>7, <2>1 DEF CacheFits
<1>9. /\ WellFormed(c) /\ SameSender(d, c) /\ c.dh_remote = hdr.dh_pub
      /\ c.recv_ck # None /\ c.recv_ck \in ChainKey
      /\ c.recv_ck.root = r /\ c.recv_ck.n = c.recv_n
      /\ c.recv_n = hdr.n
      /\ s.skipped \subseteq c.skipped
      /\ \A e \in c.skipped :
            \/ e \in s.skipped
            \/ /\ e.dh = hdr.dh_pub /\ e.key.root = r /\ e.key.n = e.n
      /\ \A i \in Nat : i < hdr.n => Cached(c, hdr.dh_pub, r, i)
  <2>1. \A i \in Nat : 0 <= i
    OBVIOUS
  <2>2. (IF hdr.n <= 0 THEN 0 ELSE hdr.n) = hdr.n
    BY <1>1
  <2> QED
    BY <1>1, <1>5, <1>6, <1>7, <1>8, <2>1, <2>2, SkipCaches
<1> HIDE DEF c
<1>10. new = [c EXCEPT !.recv_ck = KdfCk(@), !.recv_n = @ + 1]
  BY <1>2 DEF AfterDecrypt
<1>11. c \in RatchetState
  BY <1>9 DEF WellFormed
<1>12. /\ SameSender(c, new) /\ new.dh_remote = c.dh_remote
       /\ new.recv_ck = KdfCk(c.recv_ck) /\ new.recv_n = c.recv_n + 1
       /\ new.skipped = c.skipped
  BY <1>10, <1>11 DEF SameSender, RatchetState
<1>13. /\ KdfCk(c.recv_ck) \in ChainKey /\ KdfCk(c.recv_ck).root = c.recv_ck.root
       /\ KdfCk(c.recv_ck).n = c.recv_ck.n + 1
  BY <1>9 DEF KdfCk, ChainKey
<1>14. new.recv_ck # None
  BY <1>12, <1>13, NoneIsNoChainKey
<1>15. OpeningKey(st, hdr, fresh) = c.recv_ck
  BY <1>2 DEF OpeningKey
<1>16. Raises(st, hdr, fresh) <=> TooManySkipped(st, hdr.pn) \/ hdr.n > MAX_SKIP
  <2>1. TooManySkipped(d, hdr.n) <=> hdr.n > MAX_SKIP
    BY <1>1, <1>6, <1>7 DEF TooManySkipped
  <2> QED
    BY <1>2, <1>9, <2>1 DEF Raises
<1> HIDE DEF new
<1>17. /\ new.dh_self = fresh /\ new.dh_remote = hdr.dh_pub /\ new.root_key = r2
       /\ new.send_ck = FirstChainKey(new.root_key)
       /\ new.send_n = 0 /\ new.prev_send_n = st.send_n
  BY <1>5, <1>6, <1>9, <1>12 DEF SameSender
<1>18. /\ st.skipped \subseteq new.skipped
       /\ \A e \in new.skipped :
             \/ e \in st.skipped
             \/ /\ st.recv_ck # None
                /\ e.dh = st.dh_remote /\ e.key.root = st.recv_ck.root
                /\ e.key.n = e.n
             \/ /\ e.dh = hdr.dh_pub /\ e.key.root = r /\ e.key.n = e.n
  BY <1>3, <1>9, <1>12
<1>19. /\ \A i \in Nat : (st.recv_ck # None /\ st.recv_n <= i /\ i < hdr.pn) =>
             Cached(new, st.dh_remote, st.recv_ck.root, i)
       /\ \A i \in Nat : i < hdr.n => Cached(new, hdr.dh_pub, r, i)
  BY <1>3, <1>9, <1>12 DEF Cached
<1>20. /\ new.recv_ck.root = r /\ new.recv_n = hdr.n + 1 /\ new.recv_ck.n = hdr.n + 1
  BY <1>9, <1>12, <1>13
<1> QED
  BY <1>9, <1>14, <1>15, <1>16, <1>17, <1>18, <1>19, <1>20 DEF new, r, r2

-----------------------------------------------------------------------------
(* A reader and its mail. *)

(* What b has cached under the number and the ratchet key of m is m's key. *)
LEMMA CachedIsRight ==
    ASSUME NEW a, NEW b, NEW s, NEW t, NEW M, NEW N, NEW S, NEW O,
           Conversation(a, b, s, t, M, N, S, O), t # None, NEW m \in M,
           NEW e \in t.skipped, e.dh = m.hdr.dh_pub
    PROVE  /\ e.key.root = m.key.root
           /\ e.n = m.hdr.n => e.key = m.key
<1>1. Reader(t, M, N, O) /\ WellFormed(t) /\ MailInOrder(a, b, M, S)
  BY DEF Conversation
<1>2. PICK f \in N : f.hdr.dh_pub = e.dh /\ f.key.root = e.key.root
  BY <1>1 DEF Reader, Begun
<1>3. f \in M /\ m \in Payload /\ f \in Payload
  BY DEF Conversation
<1>4. InSequence(f, m)
  BY <1>1, <1>3 DEF MailInOrder
<1>5. e.key.root = m.key.root
  BY <1>2, <1>4 DEF InSequence
<1>6. m.key.n = m.hdr.n /\ e.key.n = e.n
  BY <1>1 DEF MailInOrder, Reader
<1>7. m.key \in ChainKey /\ e.key \in ChainKey
  BY <1>1, <1>3, PayloadFields, StateFields
<1> QED
  BY <1>5, <1>6, <1>7, SameKey

(* The receive chain of b is that of all mail with its ratchet key. *)
LEMMA PresentIsRight ==
    ASSUME NEW a, NEW b, NEW s, NEW t, NEW M, NEW N, NEW S, NEW O,
           Conversation(a, b, s, t, M, N, S, O), t # None, t.recv_ck # None,
           NEW m \in M, m.hdr.dh_pub = t.dh_remote
    PROVE  m.key.root = t.recv_ck.root
<1>1. Reader(t, M, N, O) /\ MailInOrder(a, b, M, S)
  BY DEF Conversation
<1>2. PICK f \in N : f.hdr.dh_pub = t.dh_remote /\ f.key.root = t.recv_ck.root
  BY <1>1 DEF Reader, Begun
<1>3. f \in M
  BY DEF Conversation
<1>4. InSequence(f, m)
  BY <1>1, <1>3 DEF MailInOrder
<1> QED
  BY <1>2, <1>4 DEF InSequence

(* The cache of a reader fits its receive chain. *)
LEMMA ReaderFits ==
    ASSUME NEW a, NEW b, NEW s, NEW t, NEW M, NEW N, NEW S, NEW O,
           Conversation(a, b, s, t, M, N, S, O), t # None
    PROVE  CacheFits(t)
<1>1. Reader(t, M, N, O)
  BY DEF Conversation
<1>2. ASSUME NEW e \in t.skipped, t.recv_ck # None, e.dh = t.dh_remote
      PROVE  e.key.root = t.recv_ck.root
  <2>1. PICK f \in N : f.hdr.dh_pub = e.dh /\ f.key.root = e.key.root
    BY <1>1 DEF Reader, Begun
  <2>2. f \in M
    BY DEF Conversation
  <2> QED
    BY <1>2, <2>1, <2>2, PresentIsRight
<1> QED
  BY <1>1, <1>2 DEF CacheFits, Reader

(* Mail of the next chain has a ratchet key b has not seen. *)
LEMMA NextIsNew ==
    ASSUME NEW a, NEW b, NEW s, NEW t, NEW M, NEW N, NEW S, NEW O,
           Conversation(a, b, s, t, M, N, S, O), t # None,
           NEW m \in M, OfNext(t, m)
    PROVE  /\ NeedsRatchet(t, m.hdr)
           /\ \A e \in t.skipped : e.dh # m.hdr.dh_pub
           /\ Place(m.key.root) = Place(t.root_key) + 1
<1>1. Reader(t, M, N, O) /\ WellFormed(t) /\ MailInOrder(a, b, M, S) /\ m \in Payload
  BY DEF Conversation
<1>2. m.key.root \in RootKey /\ t.root_key \in RootKey
  BY <1>1, PayloadFields, StateFields
<1>3. Place(m.key.root) = Place(t.root_key) + 1 /\ Place(t.root_key) \in Nat
  BY <1>2, AppendPlace, PlaceIsNat DEF OfNext
<1>4. ASSUME NEW e \in t.skipped PROVE e.dh # m.hdr.dh_pub
  <2>1. Place(e.key.root) < Place(t.root_key) /\ e.key.root \in RootKey
    BY <1>1, StateFields DEF Reader
  <2>2. e.key.root # m.key.root
    BY <1>3, <2>1, PlaceIsNat
  <2> QED
    BY <2>2, CachedIsRight
<1>5. t.dh_remote # m.hdr.dh_pub
  <2>1. CASE t.recv_ck = None
    <3>1. m.hdr.dh_pub.kind = "dh" /\ m.hdr.dh_pub \in Key
      BY <1>1, PayloadFields DEF MailInOrder, BeginsRight
    <3> QED
      BY <1>1, <2>1, <3>1, NoneAssumption DEF Reader
  <2>2. CASE t.recv_ck # None
    <3>1. Place(t.root_key) = Place(t.recv_ck.root) + 1 /\ t.recv_ck.root \in RootKey
      BY <1>1, <2>2, StateFields DEF Reader
    <3>2. t.recv_ck.root # m.key.root
      BY <1>3, <3>1, PlaceIsNat
    <3> QED
      BY <2>2, <3>2, PresentIsRight
  <2> QED
    BY <2>1, <2>2
<1> QED
  BY <1>3, <1>4, <1>5 DEF NeedsRatchet

(* Mail under the secret of b's session opens, if it has not before and is *)
(* not too far ahead.                                                      *)
LEMMA MailIsReadable ==
    ASSUME NEW a, NEW b, NEW s, NEW t, NEW M, NEW N, NEW S, NEW O,
           Conversation(a, b, s, t, M, N, S, O), t # None,
           NEW m \in M, m.key.root.sk = t.root_key.sk, m.key \notin O,
           NEW fresh \in Key
    PROVE  Opens(t, m.hdr, m.key, fresh) \/ TooFarAhead(t, m)
<1>1. Reader(t, M, N, O) /\ WellFormed(t) /\ MailInOrder(a, b, M, S) /\ m \in Payload
  BY DEF Conversation
<1>2. /\ m.hdr \in Header /\ m.hdr.n \in Nat /\ m.key \in ChainKey
      /\ m.key.n = m.hdr.n /\ m.key.root \in RootKey
  BY <1>1, PayloadFields DEF MailInOrder
<1>3. CacheFits(t)
  BY ReaderFits
<1>4. CASE CacheHits(t, m.hdr) # {}
  <2>1. PICK e \in t.skipped : /\ e.dh = m.hdr.dh_pub /\ e.n = m.hdr.n
                               /\ OpeningKey(t, m.hdr, fresh) = e.key
    BY <1>1, <1>2, <1>4, DecryptCached
  <2>2. ~ Raises(t, m.hdr, fresh)
    BY <1>4 DEF Raises
  <2> QED
    BY <2>1, <2>2, CachedIsRight DEF Opens
<1>5. CASE CacheHits(t, m.hdr) = {}
  <2>1. ~ Accounted(t, m, O)
    BY <1>5 DEF Accounted, InCache, CacheHits
  <2>2. Reads(t, m, O)
    BY <1>1 DEF Reader
  <2>3. CASE OfNext(t, m)
    <3>1. /\ OpeningKey(t, m.hdr, fresh) \in ChainKey
          /\ OpeningKey(t, m.hdr, fresh).root =
               KdfRk(t.root_key, DH(t.dh_self, m.hdr.dh_pub))
          /\ OpeningKey(t, m.hdr, fresh).n = m.hdr.n
          /\ Raises(t, m.hdr, fresh) <=>
                TooManySkipped(t, m.hdr.pn) \/ m.hdr.n > MAX_SKIP
      BY <1>1, <1>2, <1>3, <1>5, <2>3, NextIsNew, DecryptNext
    <3> DEFINE r == KdfRk(t.root_key, DH(t.dh_self, m.hdr.dh_pub))
    <3>2. DH(t.dh_self, m.hdr.dh_pub) \in SUBSET Key /\ t.root_key \in RootKey
      BY <1>1, PayloadFields, StateFields DEF DH
    <3>3. r \in RootKey /\ r.sk = t.root_key.sk /\ r.dhs = m.key.root.dhs
      BY <2>3, <3>2, NextPlace DEF OfNext
    <3> HIDE DEF r
    <3>4. r = m.key.root
      BY <1>2, <3>3, SameRoot
    <3>5. OpeningKey(t, m.hdr, fresh) = m.key
      BY <1>2, <3>1, <3>4, SameKey DEF r
    <3>6. TooManySkipped(t, m.hdr.pn) \/ m.hdr.n > MAX_SKIP => TooFarAhead(t, m)
      <4>1. Len(m.key.root.dhs) > Len(t.root_key.dhs)
        <5>1. Place(m.key.root) = Place(t.root_key) + 1 /\ Place(t.root_key) \in Nat
          BY <2>3, <3>2, NextIsNew, PlaceIsNat
        <5> QED
          BY <5>1 DEF Place
      <4> QED
        BY <4>1 DEF TooFarAhead, TooManySkipped
    <3> QED
      BY <3>1, <3>5, <3>6 DEF Opens
  <2>4. CASE OfPresent(t, m) /\ ~ (m.hdr.n < t.recv_n)
    <3>1. t.recv_ck # None /\ ~ NeedsRatchet(t, m.hdr)
      BY <2>4 DEF OfPresent, NeedsRatchet
    <3>2. /\ OpeningKey(t, m.hdr, fresh) \in ChainKey
          /\ OpeningKey(t, m.hdr, fresh).root = t.recv_ck.root
          /\ OpeningKey(t, m.hdr, fresh).n =
               IF m.hdr.n <= t.recv_n THEN t.recv_n ELSE m.hdr.n
          /\ Raises(t, m.hdr, fresh) <=> TooManySkipped(t, m.hdr.n)
      BY <1>1, <1>2, <1>3, <1>5, <3>1, DecryptPresent
    <3>3. OpeningKey(t, m.hdr, fresh).n = m.hdr.n
      BY <1>1, <1>2, <2>4, <3>2, StateFields
    <3>4. OpeningKey(t, m.hdr, fresh) = m.key
      BY <1>2, <2>4, <3>2, <3>3, SameKey DEF OfPresent
    <3>5. TooManySkipped(t, m.hdr.n) => TooFarAhead(t, m)
      BY <3>1 DEF NeedsRatchet, TooManySkipped, TooFarAhead
    <3> QED
      BY <3>2, <3>4, <3>5 DEF Opens
  <2> QED
    BY <2>1, <2>2, <2>3, <2>4 DEF Reads
<1> QED
  BY <1>4, <1>5

-----------------------------------------------------------------------------
(* What steps do to a conversation. *)

(* Mail that is lost, and texts, payloads and keys that are none of its    *)
(* business, leave it a conversation.                                      *)
LEMMA MeanwhileConversation ==
    ASSUME NEW a, NEW b, NEW s, NEW t, NEW M, NEW N, NEW S, NEW O,
           Conversation(a, b, s, t, M, N, S, O),
           NEW M2, NEW N2, NEW S2, NEW O2,
           M2 \subseteq M, N \subseteq N2, N2 \subseteq M2, S \subseteq S2, O \subseteq O2
    PROVE  Conversation(a, b, s, t, M2, N2, S2, O2)
<1>1. \A u, sk : HasSealed(u, sk, S) => HasSealed(u, sk, S2)
  BY DEF HasSealed
<1>2. \A r, k : BeginsRight(b, r, k, S) => BeginsRight(b, r, k, S2)
  BY <1>1 DEF BeginsRight
<1>3. MailInOrder(a, b, M2, S2)
  <2>1. MailInOrder(a, b, M, S)
    BY DEF Conversation
  <2>2. \A m \in M2 : m \in M
    OBVIOUS
  <2> QED
    BY <1>2, <2>1, <2>2 DEF MailInOrder
<1>4. s # None => Author(a, b, s, M2, S2)
  BY <1>2 DEF Conversation, Author
<1>5. t # None => Reader(t, M2, N2, O2)
  <2>1. SUFFICES ASSUME t # None PROVE Reader(t, M2, N2, O2)
    OBVIOUS
  <2>2. Reader(t, M, N, O)
    BY <2>1 DEF Conversation
  <2>3. \A k, r : Begun(k, r, N) => Begun(k, r, N2)
    BY DEF Begun
  <2>4. \A m \in M : Reads(t, m, O) => Reads(t, m, O2)
    BY DEF Reads, Accounted
  <2>5. \A m \in M2 : m.key.root.sk = t.root_key.sk => Reads(t, m, O2)
    BY <2>2, <2>4 DEF Reader
  <2> HIDE DEF Reads
  <2> QED
    BY <2>2, <2>3, <2>5 DEF Reader
<1> QED
  BY <1>3, <1>4, <1>5 DEF Conversation

(* What encrypt_message leaves, field by field. *)
LEMMA EncryptFields ==
    ASSUME NEW s, WellFormed(s), CanEncrypt(s)
    PROVE  LET new == AfterEncrypt(s) IN
           /\ WellFormed(new) /\ new # None
           /\ new.dh_self = s.dh_self /\ new.dh_remote = s.dh_remote
           /\ new.root_key = s.root_key /\ new.prev_send_n = s.prev_send_n
           /\ new.recv_ck = s.recv_ck /\ new.recv_n = s.recv_n
           /\ new.skipped = s.skipped
           /\ new.send_ck # None /\ new.send_ck.root = s.send_ck.root
           /\ new.send_ck.n = s.send_ck.n + 1 /\ new.send_n = s.send_n + 1
           /\ SealedHeader(s).dh_pub = s.dh_self /\ SealedHeader(s).n = s.send_n
           /\ SealedHeader(s).pn = s.prev_send_n /\ SealingKey(s) = s.send_ck
<1>1. s \in RatchetState /\ s.send_ck # None /\ s.send_ck \in ChainKey
  BY StateFields DEF CanEncrypt
<1>2. /\ KdfCk(s.send_ck) \in ChainKey /\ KdfCk(s.send_ck).root = s.send_ck.root
      /\ KdfCk(s.send_ck).n = s.send_ck.n + 1
  BY <1>1 DEF KdfCk, ChainKey
<1>3. WellFormed(AfterEncrypt(s)) /\ AfterEncrypt(s).send_ck = KdfCk(s.send_ck)
  BY AfterEncryptType
<1>4. AfterEncrypt(s) # None /\ KdfCk(s.send_ck) # None
  BY <1>2, <1>3, NoneIsNoState, NoneIsNoChainKey DEF WellFormed
<1>5. AfterEncrypt(s) = [s EXCEPT !.send_ck = KdfCk(@), !.send_n = @ + 1]
  BY DEF AfterEncrypt
<1>6. LET new == AfterEncrypt(s) IN
           /\ new.dh_self = s.dh_self /\ new.dh_remote = s.dh_remote
           /\ new.root_key = s.root_key /\ new.prev_send_n = s.prev_send_n
           /\ new.recv_ck = s.recv_ck /\ new.recv_n = s.recv_n
           /\ new.skipped = s.skipped /\ new.send_n = s.send_n + 1
  BY <1>1, <1>5 DEF RatchetState
<1> QED
  BY <1>2, <1>3, <1>4, <1>6 DEF SealedHeader, SealingKey

(* a seals a text: it is of the chain a is at, and b can read it. *)
LEMMA SealConversation ==
    ASSUME NEW a, NEW b, NEW s, NEW t, NEW M, NEW N, NEW S, NEW O,
           Conversation(a, b, s, t, M, N, S, O), s # None, CanEncrypt(s),
           NEW m \in Payload, m.hdr = SealedHeader(s), m.key = SealingKey(s),
           NEW S2, S \subseteq S2, NEW x \in S2, x.text.from = a, x.key = m.key
    PROVE  Conversation(a, b, AfterEncrypt(s), t, M \cup {m}, N, S2, O)
<1> DEFINE new == AfterEncrypt(s)
<1>1. /\ WellFormed(s) /\ M \subseteq Payload /\ N \subseteq M
      /\ t # None => WellFormed(t) /\ Reader(t, M, N, O) /\ Faces(s, t)
  BY DEF Conversation
<1>2. /\ WellFormed(new) /\ new # None
      /\ new.dh_self = s.dh_self /\ new.root_key = s.root_key
      /\ new.prev_send_n = s.prev_send_n
      /\ new.send_ck # None /\ new.send_ck.root = s.send_ck.root
      /\ new.send_ck.n = s.send_ck.n + 1 /\ new.send_n = s.send_n + 1
      /\ m.hdr.dh_pub = s.dh_self /\ m.hdr.n = s.send_n /\ m.hdr.pn = s.prev_send_n
      /\ m.key = s.send_ck
  BY <1>1, EncryptFields
<1> HIDE DEF new
<1>3. Conversation(a, b, s, t, M, N, S2, O)
  BY MeanwhileConversation, <1>1
<1>4. /\ MailInOrder(a, b, M, S2)
      /\ s.send_ck # None /\ s.send_ck.root = s.root_key /\ s.send_ck.n = s.send_n
      /\ BeginsRight(b, s.root_key, s.dh_self, S2)
      /\ \A f \in M : Wrote(s, f)
  BY <1>3 DEF Conversation, Author, CanEncrypt
<1>5. /\ s.root_key \in RootKey /\ Place(s.root_key) \in Nat /\ s.send_n \in Nat
      /\ s.prev_send_n \in Nat
  BY <1>1, StateFields, PlaceIsNat
<1>6. ASSUME NEW f \in M
      PROVE  InSequence(m, f) /\ InSequence(f, m) /\ Wrote(new, f)
  <2>1. Wrote(s, f) /\ f.key.root \in RootKey /\ f.hdr.n \in Nat
    BY <1>1, <1>4, PayloadFields
  <2>2. Place(f.key.root) \in Nat
    BY <2>1, PlaceIsNat
  <2> QED
    BY <1>2, <1>4, <1>5, <2>1, <2>2 DEF InSequence, Wrote
<1>7. InSequence(m, m) /\ Wrote(new, m)
  BY <1>2, <1>4, <1>5 DEF InSequence, Wrote
<1>8. MailInOrder(a, b, M \cup {m}, S2)
  <2>1. /\ m.key.n = m.hdr.n
        /\ BeginsRight(b, m.key.root, m.hdr.dh_pub, S2)
        /\ \E y \in S2 : y.text.from = a /\ y.key = m.key
    BY <1>2, <1>4
  <2> QED
    BY <1>4, <1>6, <1>7, <2>1 DEF MailInOrder
<1>9. Author(a, b, new, M \cup {m}, S2)
  BY <1>2, <1>4, <1>5, <1>6, <1>7 DEF Author
<1>10. t # None => Faces(new, t)
  <2>1. SUFFICES ASSUME t # None PROVE Faces(new, t)
    OBVIOUS
  <2>2. Faces(s, t) /\ t.recv_n \in Nat
    BY <1>1, <2>1, StateFields
  <2> QED
    BY <1>2, <1>4, <1>5, <2>2 DEF Faces
<1>11. t # None => Reader(t, M \cup {m}, N, O)
  <2>1. SUFFICES ASSUME t # None, m.key.root.sk = t.root_key.sk PROVE Reads(t, m, O)
    BY <1>1 DEF Reader
  <2>2. Faces(s, t) /\ t.recv_n \in Nat
    BY <1>1, <2>1, StateFields
  <2> QED
    BY <1>2, <1>4, <1>5, <2>1, <2>2 DEF Faces, Reads, OfNext, OfPresent
<1> QED
  BY <1>1, <1>2, <1>8, <1>9, <1>10, <1>11 DEF Conversation, new

(* b answers: nothing changes for its mail. *)
LEMMA AnswerConversation ==
    ASSUME NEW a, NEW b, NEW s, NEW t, NEW M, NEW N, NEW S, NEW O,
           Conversation(a, b, s, t, M, N, S, O), t # None, CanEncrypt(t),
           NEW S2, S \subseteq S2
    PROVE  Conversation(a, b, s, AfterEncrypt(t), M, N, S2, O)
<1> DEFINE new == AfterEncrypt(t)
<1>0. WellFormed(t) /\ N \subseteq M
  BY DEF Conversation
<1>1. Conversation(a, b, s, t, M, N, S2, O)
  BY <1>0, MeanwhileConversation
<1>2. /\ WellFormed(new)
      /\ new.dh_self = t.dh_self /\ new.dh_remote = t.dh_remote
      /\ new.root_key = t.root_key
      /\ new.recv_ck = t.recv_ck /\ new.recv_n = t.recv_n
      /\ new.skipped = t.skipped
  BY <1>0, EncryptFields
<1> HIDE DEF new
<1>3. Reader(new, M, N, O)
  <2>1. \A m : Reads(t, m, O) <=> Reads(new, m, O)
    BY <1>2 DEF Reads, OfNext, OfPresent, OfEarlier, Accounted, InCache
  <2> QED
    BY <1>1, <1>2, <2>1 DEF Conversation, Reader
<1>4. s # None => Faces(s, new)
  BY <1>1, <1>2 DEF Conversation, Faces
<1> QED
  BY <1>1, <1>2, <1>3, <1>4 DEF Conversation, new

(* a sets up a session as initiator, with a secret nobody has used yet.    *)
LEMMA InitiateConversation ==
    ASSUME NEW a, NEW b, NEW s, NEW t, NEW M, NEW N, NEW S, NEW O,
           Conversation(a, b, s, t, M, N, S, O),
           NEW sk \in SecretKey, NEW remote \in Key, NEW fresh \in Key,
           remote \in PrekeysOf(b, sk), fresh.kind = "dh",
           \A m \in M : m.key.root.sk # sk /\ m.hdr.dh_pub # fresh,
           t # None => t.root_key.sk # sk
    PROVE  Conversation(a, b, InitSender(sk, remote, fresh), t, M, N, S, O)
<1> DEFINE new == InitSender(sk, remote, fresh)
           root == KdfRk([sk |-> sk, dhs |-> << >>], DH(fresh, remote))
<1>1. WellFormed(new)
  BY InitSenderType
<1>2. root.sk = sk /\ root.dhs = <<DH(fresh, remote)>>
  BY DEF KdfRk
<1>3. /\ new.dh_self = fresh /\ new.root_key = root
      /\ new.send_ck = FirstChainKey(root) /\ new.send_n = 0
  BY DEF InitSender
<1>4. /\ new.send_ck.root = root /\ new.send_ck.n = 0 /\ new.send_ck # None
  <2>1. new.root_key \in RootKey
    BY <1>1, StateFields
  <2> HIDE DEF root
  <2> QED
    BY <1>3, <2>1, FirstChainKeyType, NoneIsNoChainKey DEF FirstChainKey
<1> HIDE DEF new, root
<1>5. BeginsRight(b, root, fresh, S)
  BY <1>2 DEF BeginsRight, Place
<1>6. Author(a, b, new, M, S)
  BY <1>2, <1>3, <1>4, <1>5 DEF Author, Wrote
<1>7. t # None => Faces(new, t)
  BY <1>2, <1>3 DEF Faces
<1> QED
  BY <1>1, <1>6, <1>7 DEF Conversation, new

(* b does: none of its mail is for that session. *)
LEMMA InitiateReads ==
    ASSUME NEW a, NEW b, NEW s, NEW t, NEW M, NEW N, NEW S, NEW O,
           Conversation(a, b, s, t, M, N, S, O),
           NEW sk \in SecretKey, NEW remote \in Key, NEW fresh \in Key,
           remote.kind # "dh",
           \A m \in M : m.key.root.sk # sk,
           s # None => s.root_key.sk # sk
    PROVE  Conversation(a, b, s, InitSender(sk, remote, fresh), M, N, S, O)
<1> DEFINE new == InitSender(sk, remote, fresh)
<1>1. WellFormed(new)
  BY InitSenderType
<1>2. /\ new.dh_remote = remote /\ new.root_key.sk = sk
      /\ new.recv_ck = None /\ new.skipped = {}
  BY DEF InitSender, KdfRk
<1> HIDE DEF new
<1>3. Reader(new, M, N, O)
  BY <1>2 DEF Reader
<1>4. s # None => Faces(s, new)
  BY <1>2 DEF Faces
<1> QED
  BY <1>1, <1>3, <1>4 DEF Conversation, new

(* A first chain under a secret with one signed prekey of b hangs on it.   *)
LEMMA FirstChainIs ==
    ASSUME NEW b, NEW S, NEW r \in RootKey, NEW k, BeginsRight(b, r, k, S),
           ~ HasSealed(b, r.sk, S), NEW spk, \A j \in PrekeysOf(b, r.sk) : j = spk
    PROVE  r.dhs = Append(<< >>, DH(spk, k))
<1>1. Place(r) \in Nat /\ r.dhs \in Seq(SUBSET Key)
  BY PlaceIsNat
<1>2. Place(r) # 0
  BY <1>1 DEF Place, BeginsRight
<1>3. Place(r) = 1
  BY <1>1, <1>2 DEF BeginsRight
<1>4. r.dhs = <<DH(k, spk)>>
  BY <1>3 DEF BeginsRight
<1> QED
  BY <1>4 DEF DH

(* b sets up a session as responder: it can read the first chain.          *)
LEMMA RespondReads ==
    ASSUME NEW a, NEW b, NEW s, NEW t, NEW M, NEW N, NEW S, NEW O,
           Conversation(a, b, s, t, M, N, S, O),
           NEW sk \in SecretKey, NEW spk \in Key,
           \A j \in PrekeysOf(b, sk) : j = spk, ~ HasSealed(b, sk, S)
    PROVE  Conversation(a, b, s, InitReceiver(sk, spk), M, N, S, O)
<1> DEFINE new == InitReceiver(sk, spk)
<1>1. WellFormed(new)
  BY InitReceiverType
<1>2. /\ new.dh_remote = None /\ new.root_key.sk = sk /\ new.root_key.dhs = << >>
      /\ new.dh_self = spk /\ new.recv_ck = None /\ new.skipped = {}
  BY DEF InitReceiver
<1> HIDE DEF new
<1>3. ASSUME NEW m \in M, m.key.root.sk = sk
      PROVE  Reads(new, m, O)
  <2>1. BeginsRight(b, m.key.root, m.hdr.dh_pub, S) /\ m.key.root \in RootKey
    BY PayloadFields DEF Conversation, MailInOrder
  <2>2. m.key.root.dhs = Append(<< >>, DH(spk, m.hdr.dh_pub))
    <3> DEFINE r == m.key.root
               k == m.hdr.dh_pub
    <3>1. /\ ~ HasSealed(b, r.sk, S) /\ \A j \in PrekeysOf(b, r.sk) : j = spk
          /\ r \in RootKey /\ BeginsRight(b, r, k, S)
      BY <1>3, <2>1
    <3> HIDE DEF r, k
    <3>2. r.dhs = Append(<< >>, DH(spk, k))
      BY <3>1, FirstChainIs
    <3> QED
      BY <3>2 DEF r, k
  <2> QED
    BY <1>2, <2>2 DEF Reads, OfNext
<1>4. Reader(new, M, N, O)
  BY <1>2, <1>3 DEF Reader
<1>5. s # None => Faces(s, new)
  <2>1. SUFFICES ASSUME s # None, s.send_ck # None, s.root_key.sk = sk
                 PROVE  s.root_key.dhs = Append(<< >>, DH(spk, s.dh_self))
    BY <1>2 DEF Faces
  <2>2. BeginsRight(b, s.root_key, s.dh_self, S) /\ s.root_key \in RootKey
    BY <2>1, StateFields DEF Conversation, Author
  <2> QED
    <3> DEFINE r == s.root_key
               k == s.dh_self
    <3>1. /\ ~ HasSealed(b, r.sk, S) /\ \A j \in PrekeysOf(b, r.sk) : j = spk
          /\ r \in RootKey /\ BeginsRight(b, r, k, S)
      BY <2>1, <2>2
    <3> HIDE DEF r, k
    <3>2. r.dhs = Append(<< >>, DH(spk, k))
      BY <3>1, FirstChainIs
    <3> QED
      BY <3>2 DEF r, k
<1> QED
  BY <1>1, <1>4, <1>5 DEF Conversation, new

(* a does: it has written nothing in that session. *)
LEMMA RespondConversation ==
    ASSUME NEW a, NEW b, NEW s, NEW t, NEW M, NEW N, NEW S, NEW O,
           Conversation(a, b, s, t, M, N, S, O),
           NEW sk \in SecretKey, NEW spk \in Key, spk \in PrekeysOf(a, sk),
           ~ HasSealed(a, sk, S)
    PROVE  Conversation(a, b, InitReceiver(sk, spk), t, M, N, S, O)
<1> DEFINE new == InitReceiver(sk, spk)
<1>1. WellFormed(new)
  BY InitReceiverType
<1>2. /\ new.root_key.sk = sk /\ new.root_key.dhs = << >> /\ new.dh_self = spk
      /\ new.send_ck = None /\ new.recv_ck = None
  BY DEF InitReceiver
<1> HIDE DEF new
<1>3. \A m \in M : m.key.root.sk # sk
  BY DEF Conversation, MailInOrder, HasSealed
<1>4. Author(a, b, new, M, S)
  BY <1>2, <1>3 DEF Author
<1>5. t # None => Faces(new, t)
  BY <1>2 DEF Faces
<1> QED
  BY <1>1, <1>4, <1>5 DEF Conversation, new

-----------------------------------------------------------------------------
(* Receiving. *)

(* The key a step of the DH ratchet leads to hangs on the next root. *)
LEMMA NextKey ==
    ASSUME NEW st, WellFormed(st), NEW hdr \in Header, NEW fresh \in Key,
           CacheHits(st, hdr) = {}, NeedsRatchet(st, hdr)
    PROVE  OpeningKey(st, hdr, fresh).root
             = KdfRk(st.root_key, DH(st.dh_self, hdr.dh_pub))
<1> DEFINE s == SkipMessageKeys(st, hdr.pn)
           d == DhRatchet(s, hdr.dh_pub, fresh)
           c == SkipMessageKeys(d, hdr.n)
           r == KdfRk(st.root_key, DH(st.dh_self, hdr.dh_pub))
<1>1. hdr.n \in Nat /\ hdr.pn \in Nat /\ hdr.dh_pub \in Key
  BY DEF Header
<1>2. OpeningKey(st, hdr, fresh) = c.recv_ck
  BY DEF OpeningKey, CaughtUp, Ratcheted
<1>3. WellFormed(s) /\ s.root_key = st.root_key /\ s.dh_self = st.dh_self
  BY <1>1, SkipMessageKeysType
<1> HIDE DEF s
<1>4. WellFormed(d) /\ r \in RootKey /\ d.recv_ck = FirstChainKey(r)
  BY <1>1, <1>3, DhRatchetType
<1> HIDE DEF d, r
<1>5. d.recv_ck.root = r /\ d.recv_ck \in ChainKey /\ d.recv_ck # None
  BY <1>4, NoneIsNoChainKey DEF FirstChainKey, ChainKey
<1>6. c = d \/ c.recv_ck = ChainKeyAfter(d.recv_ck, hdr.n - d.recv_n)
  BY <1>1, <1>4, <1>5, SkipFields, StateFields DEF SkipMessageKeys
<1>7. \A i \in Int : ChainKeyAfter(d.recv_ck, i).root = d.recv_ck.root
  BY <1>5 DEF ChainKeyAfter, ChainKey
<1>8. hdr.n - d.recv_n \in Int
  BY <1>1, <1>4, StateFields
<1> QED
  BY <1>2, <1>5, <1>6, <1>7, <1>8 DEF r

(* What opens without a cached key is of the present chain, not behind its *)
(* head, or of the next one.                                               *)
LEMMA OpensCases ==
    ASSUME NEW a, NEW b, NEW s, NEW t, NEW M, NEW N, NEW S, NEW O,
           Conversation(a, b, s, t, M, N, S, O), t # None,
           NEW m \in M, m.key.root.sk = t.root_key.sk, NEW fresh \in Key,
           Opens(t, m.hdr, m.key, fresh), CacheHits(t, m.hdr) = {}
    PROVE  \/ OfPresent(t, m) /\ ~ NeedsRatchet(t, m.hdr) /\ t.recv_n <= m.hdr.n
           \/ OfNext(t, m) /\ NeedsRatchet(t, m.hdr)
<1>1. Reader(t, M, N, O) /\ WellFormed(t) /\ MailInOrder(a, b, M, S) /\ m \in Payload
  BY DEF Conversation
<1>2. /\ m.hdr \in Header /\ m.hdr.n \in Nat /\ m.hdr.dh_pub \in Key
      /\ m.key \in ChainKey
      /\ m.key.n = m.hdr.n /\ m.key.root \in RootKey
      /\ t.root_key \in RootKey /\ t.dh_self \in Key /\ t.recv_n \in Nat
  BY <1>1, PayloadFields, StateFields DEF MailInOrder
<1>3. OpeningKey(t, m.hdr, fresh) = m.key /\ ~ Raises(t, m.hdr, fresh)
  BY DEF Opens
<1>4. CASE ~ NeedsRatchet(t, m.hdr)
  <2>1. t.recv_ck # None
    <3>1. SUFFICES ASSUME t.recv_ck = None PROVE FALSE
      OBVIOUS
    <3>2. CaughtUp(t, m.hdr, fresh) = t
      BY <1>4, <3>1, SkipNothing DEF CaughtUp, Ratcheted
    <3> QED
      BY <1>3, <3>1, <3>2 DEF Raises
  <2>2. m.hdr.dh_pub = t.dh_remote
    BY <1>4 DEF NeedsRatchet
  <2>3. m.key.root = t.recv_ck.root
    BY <2>1, <2>2, PresentIsRight
  <2>4. m.hdr.n = IF m.hdr.n <= t.recv_n THEN t.recv_n ELSE m.hdr.n
    BY <1>1, <1>2, <1>3, <1>4, <2>1, ReaderFits, DecryptPresent
  <2>5. t.recv_n <= m.hdr.n
    BY <1>2, <2>4
  <2> QED
    BY <1>4, <2>1, <2>2, <2>3, <2>5 DEF OfPresent
<1>5. CASE NeedsRatchet(t, m.hdr)
  <2>1. m.key.root = KdfRk(t.root_key, DH(t.dh_self, m.hdr.dh_pub))
    BY <1>1, <1>2, <1>3, <1>5, NextKey
  <2>2. m.key.root.dhs = Append(t.root_key.dhs, DH(t.dh_self, m.hdr.dh_pub))
    BY <1>2, <2>1, NextPlace DEF DH
  <2> QED
    BY <1>5, <2>2 DEF OfNext
<1> QED
  BY <1>4, <1>5

(* Mail whose key is put into the cache is accounted for. *)
LEMMA CachedCounts ==
    ASSUME NEW new, WellFormed(new), NEW m \in Payload, m.key.n = m.hdr.n,
           Cached(new, m.hdr.dh_pub, m.key.root, m.hdr.n), NEW O
    PROVE  Accounted(new, m, O)
<1>1. PICK e \in new.skipped : /\ e.dh = m.hdr.dh_pub /\ e.n = m.hdr.n
                               /\ e.key.root = m.key.root /\ e.key.n = m.hdr.n
  BY DEF Cached
<1>2. e.key \in ChainKey /\ m.key \in ChainKey
  BY StateFields, PayloadFields
<1>3. e.key = m.key
  BY <1>1, <1>2, SameKey
<1> QED
  BY <1>1, <1>3 DEF Accounted, InCache

(* The reader opens m with a cached key. *)
LEMMA ReadsCached ==
    ASSUME NEW a, NEW b, NEW s, NEW t, NEW M, NEW N, NEW S, NEW O,
           Conversation(a, b, s, t, M, N, S, O), t # None,
           NEW m \in N, NEW fresh \in Key,
           Opens(t, m.hdr, m.key, fresh), CacheHits(t, m.hdr) # {}
    PROVE  Conversation(a, b, s, AfterDecrypt(t, m.hdr, fresh), M, N, S, O \cup {m.key})
<1> DEFINE new == AfterDecrypt(t, m.hdr, fresh)
           O2  == O \cup {m.key}
<1>1. /\ Reader(t, M, N, O) /\ WellFormed(t) /\ m \in Payload /\ m \in M
      /\ s # None => Faces(s, t)
  BY DEF Conversation
<1>2. m.hdr \in Header /\ ~ Raises(t, m.hdr, fresh)
  BY <1>1, PayloadFields DEF Opens
<1>3. /\ SameSender(t, new) /\ new.dh_remote = t.dh_remote
      /\ new.recv_ck = t.recv_ck /\ new.recv_n = t.recv_n
      /\ new.skipped = t.skipped \ CacheHits(t, m.hdr)
  BY <1>1, <1>2, DecryptCached
<1>4. WellFormed(new)
  BY <1>1, <1>2, AfterDecryptType
<1> HIDE DEF new
<1>5. \A e \in CacheHits(t, m.hdr) : e.key = m.key
  BY <1>1, CachedIsRight DEF CacheHits
<1>6. ASSUME NEW f \in M, Accounted(t, f, O) PROVE Accounted(new, f, O2)
  BY <1>3, <1>5, <1>6 DEF Accounted, InCache
<1>7. \A f \in M : Reads(t, f, O) => Reads(new, f, O2)
  BY <1>3, <1>6 DEF Reads, OfNext, OfPresent, OfEarlier, SameSender
<1>8. Reader(new, M, N, O2)
  <2>1. new.root_key = t.root_key
    BY <1>3 DEF SameSender
  <2> QED
    BY <1>1, <1>3, <1>7, <2>1 DEF Reader
<1>9. s # None => Faces(s, new)
  BY <1>1, <1>3 DEF Faces, SameSender
<1> QED
  BY <1>4, <1>8, <1>9 DEF Conversation, new

(* The reader opens m with a key of the present chain. *)
LEMMA ReadsPresent ==
    ASSUME NEW a, NEW b, NEW s, NEW t, NEW M, NEW N, NEW S, NEW O,
           Conversation(a, b, s, t, M, N, S, O), t # None,
           NEW m \in N, m.key.root.sk = t.root_key.sk, NEW fresh \in Key,
           Opens(t, m.hdr, m.key, fresh), CacheHits(t, m.hdr) = {},
           OfPresent(t, m), ~ NeedsRatchet(t, m.hdr), t.recv_n <= m.hdr.n
    PROVE  Conversation(a, b, s, AfterDecrypt(t, m.hdr, fresh), M, N, S, O \cup {m.key})
<1> DEFINE new == AfterDecrypt(t, m.hdr, fresh)
           O2  == O \cup {m.key}
<1>1. /\ Reader(t, M, N, O) /\ WellFormed(t) /\ m \in Payload /\ m \in M
      /\ MailInOrder(a, b, M, S)
      /\ s # None => WellFormed(s) /\ Author(a, b, s, M, S) /\ Faces(s, t)
  BY DEF Conversation
<1>2. /\ m.hdr \in Header /\ ~ Raises(t, m.hdr, fresh) /\ m.hdr.n \in Nat
      /\ t.recv_n \in Nat /\ t.recv_ck # None
      /\ m.key.root = t.recv_ck.root /\ m.hdr.dh_pub = t.dh_remote
      /\ m.key \in ChainKey /\ m.key.n = m.hdr.n
  BY <1>1, PayloadFields, StateFields DEF Opens, OfPresent, MailInOrder
<1>3. /\ SameSender(t, new) /\ new.dh_remote = t.dh_remote
      /\ new.recv_ck # None /\ new.recv_ck.root = t.recv_ck.root
      /\ new.recv_n = m.hdr.n + 1 /\ new.recv_ck.n = m.hdr.n + 1
      /\ t.skipped \subseteq new.skipped
      /\ \A e \in new.skipped :
            \/ e \in t.skipped
            \/ /\ e.dh = t.dh_remote /\ e.key.root = t.recv_ck.root
               /\ e.key.n = e.n
      /\ \A i \in Nat : (t.recv_n <= i /\ i < m.hdr.n) =>
            Cached(new, t.dh_remote, t.recv_ck.root, i)
  <2>1. OpeningKey(t, m.hdr, fresh).n = m.hdr.n
    BY <1>2 DEF Opens
  <2> QED
    BY <1>1, <1>2, <2>1, ReaderFits, DecryptPresent
<1>4. WellFormed(new)
  BY <1>1, <1>2, AfterDecryptType
<1> HIDE DEF new
<1>5. ASSUME NEW f \in M, Accounted(t, f, O) PROVE Accounted(new, f, O2)
  BY <1>3, <1>5 DEF Accounted, InCache
<1>6. ASSUME NEW f \in M, OfPresent(t, f), f.hdr.n < t.recv_n => Accounted(t, f, O)
      PROVE  f.hdr.n < new.recv_n => Accounted(new, f, O2)
  <2>1. f \in Payload /\ f.hdr.n \in Nat /\ f.key.n = f.hdr.n /\ f.key \in ChainKey
    BY <1>1, PayloadFields DEF Conversation, MailInOrder
  <2>2. CASE f.hdr.n < t.recv_n
    BY <1>5, <1>6, <2>2
  <2>3. CASE t.recv_n <= f.hdr.n /\ f.hdr.n < m.hdr.n
    BY <1>3, <1>4, <1>6, <2>1, <2>3, CachedCounts DEF OfPresent
  <2>4. CASE f.hdr.n = m.hdr.n
    <3>1. f.key = m.key
      BY <1>2, <1>6, <2>1, <2>4, SameKey DEF OfPresent
    <3> QED
      BY <3>1 DEF Accounted
  <2> QED
    BY <1>2, <1>3, <2>1, <2>2, <2>3, <2>4
<1>7. ASSUME NEW f \in M, Reads(t, f, O) PROVE Reads(new, f, O2)
  <2>1. CASE OfNext(t, f)
    BY <1>3, <2>1 DEF Reads, OfNext, SameSender
  <2>2. CASE OfPresent(t, f) /\ (f.hdr.n < t.recv_n => Accounted(t, f, O))
    <3>1. OfPresent(new, f)
      BY <1>3, <2>2 DEF OfPresent
    <3> QED
      BY <1>6, <2>2, <3>1 DEF Reads
  <2>3. CASE OfEarlier(t, f) /\ Accounted(t, f, O)
    BY <1>3, <1>5, <2>3 DEF Reads, OfEarlier, SameSender
  <2> QED
    BY <1>7, <2>1, <2>2, <2>3 DEF Reads
<1>8. Reader(new, M, N, O2)
  <2>1. /\ new.root_key = t.root_key /\ t.root_key \in RootKey
        /\ t.recv_ck.root \in RootKey
    BY <1>1, <1>2, <1>3, StateFields DEF SameSender
  <2>2. /\ t.recv_ck.root.sk = t.root_key.sk
        /\ Place(t.root_key) = Place(t.recv_ck.root) + 1
        /\ Begun(t.dh_remote, t.recv_ck.root, N)
    BY <1>1, <1>2 DEF Reader
  <2>3. Place(t.recv_ck.root) < Place(t.root_key)
    BY <2>1, <2>2, PlaceIsNat
  <2>4. ASSUME NEW e \in new.skipped
        PROVE  /\ e.key.n = e.n /\ Place(e.key.root) < Place(new.root_key)
               /\ Begun(e.dh, e.key.root, N)
    BY <1>1, <1>3, <2>1, <2>2, <2>3 DEF Reader
  <2>5. \A f \in M : f.key.root.sk = new.root_key.sk => Reads(new, f, O2)
    BY <1>1, <1>7, <2>1 DEF Reader
  <2> QED
    BY <1>3, <2>1, <2>2, <2>4, <2>5 DEF Reader
<1>9. s # None => Faces(s, new)
  <2>1. SUFFICES ASSUME s # None, s.root_key.sk = t.root_key.sk, s.send_ck # None
                 PROVE  Faces(s, new)
    BY <1>3 DEF Faces, SameSender
  <2>2. Faces(s, t) /\ Wrote(s, m) /\ s.send_n \in Nat
    BY <1>1, <2>1, StateFields DEF Author
  <2>3. CASE s.root_key.dhs = Append(t.root_key.dhs, DH(t.dh_self, s.dh_self))
    BY <1>3, <2>3 DEF Faces, SameSender
  <2>4. CASE t.recv_ck.root = s.root_key /\ t.dh_remote = s.dh_self
    <3>1. m.hdr.n < s.send_n
      BY <1>2, <2>2, <2>4 DEF Wrote
    <3>2. new.recv_n <= s.send_n
      BY <1>2, <1>3, <2>2, <3>1
    <3> QED
      BY <1>3, <2>4, <3>2 DEF Faces
  <2> QED
    BY <2>1, <2>2, <2>3, <2>4 DEF Faces
<1> QED
  BY <1>4, <1>8, <1>9 DEF Conversation, new

(* The reader goes on to the next chain, that of m. *)
LEMMA ReadsNext ==
    ASSUME NEW a, NEW b, NEW s, NEW t, NEW M, NEW N, NEW S, NEW O,
           Conversation(a, b, s, t, M, N, S, O), t # None,
           NEW m \in N, m.key.root.sk = t.root_key.sk, NEW fresh \in Key,
           Opens(t, m.hdr, m.key, fresh), CacheHits(t, m.hdr) = {},
           OfNext(t, m), NeedsRatchet(t, m.hdr)
    PROVE  Conversation(a, b, s, AfterDecrypt(t, m.hdr, fresh), M, N, S, O \cup {m.key})
<1> DEFINE new == AfterDecrypt(t, m.hdr, fresh)
           O2  == O \cup {m.key}
           r   == m.key.root
<1>1. /\ Reader(t, M, N, O) /\ WellFormed(t) /\ m \in Payload /\ m \in M
      /\ MailInOrder(a, b, M, S)
      /\ s # None => WellFormed(s) /\ Author(a, b, s, M, S) /\ Faces(s, t)
  BY DEF Conversation
<1>2. /\ m.hdr \in Header /\ ~ Raises(t, m.hdr, fresh) /\ m.hdr.n \in Nat
      /\ m.hdr.dh_pub \in Key /\ m.hdr.pn \in Nat
      /\ t.recv_n \in Nat /\ t.root_key \in RootKey /\ r \in RootKey
      /\ m.key \in ChainKey /\ m.key.n = m.hdr.n
      /\ OpeningKey(t, m.hdr, fresh) = m.key
  BY <1>1, PayloadFields, StateFields DEF Opens, MailInOrder
<1>3. \A e \in t.skipped : e.dh # m.hdr.dh_pub
  BY <1>1, NextIsNew
<1>4. /\ new.dh_self = fresh /\ new.dh_remote = m.hdr.dh_pub
      /\ new.root_key = KdfRk(r, DH(fresh, m.hdr.dh_pub))
      /\ new.recv_ck # None /\ new.recv_ck.root = r
      /\ new.recv_n = m.hdr.n + 1 /\ new.recv_ck.n = m.hdr.n + 1
      /\ t.skipped \subseteq new.skipped
      /\ \A e \in new.skipped :
            \/ e \in t.skipped
            \/ /\ t.recv_ck # None
               /\ e.dh = t.dh_remote /\ e.key.root = t.recv_ck.root
               /\ e.key.n = e.n
            \/ /\ e.dh = m.hdr.dh_pub /\ e.key.root = r /\ e.key.n = e.n
      /\ \A i \in Nat : (t.recv_ck # None /\ t.recv_n <= i /\ i < m.hdr.pn) =>
            Cached(new, t.dh_remote, t.recv_ck.root, i)
      /\ \A i \in Nat : i < m.hdr.n => Cached(new, m.hdr.dh_pub, r, i)
  <2>1. KdfRk(t.root_key, DH(t.dh_self, m.hdr.dh_pub)) = r
    BY <1>1, <1>2, NextKey
  <2>2. CacheFits(t)
    BY ReaderFits
  <2> HIDE DEF r
  <2> QED
    BY <1>1, <1>2, <1>3, <2>1, <2>2, DecryptNext
<1>5. WellFormed(new)
  BY <1>1, <1>2, AfterDecryptType
<1> HIDE DEF new
<1>6. /\ Place(t.root_key) \in Nat /\ Place(r) = Place(t.root_key) + 1
      /\ Place(new.root_key) = Place(r) + 1
      /\ new.root_key.sk = r.sk /\ r.sk = t.root_key.sk
  <2>1. DH(fresh, m.hdr.dh_pub) \in SUBSET Key
    BY <1>2 DEF DH
  <2> QED
    BY <1>1, <1>2, <1>4, <2>1, NextIsNew, NextPlace, PlaceIsNat
<1>7. ASSUME NEW f \in M, Accounted(t, f, O) PROVE Accounted(new, f, O2)
  BY <1>4, <1>7 DEF Accounted, InCache
<1>8. ASSUME NEW f \in M, f.key.root.sk = t.root_key.sk
      PROVE  Reads(new, f, O2)
  <2>1. /\ f \in Payload /\ f.hdr.n \in Nat /\ f.key.n = f.hdr.n /\ f.key \in ChainKey
        /\ f.key.root \in RootKey
    BY <1>1, PayloadFields DEF Conversation, MailInOrder
  <2>2. Reads(t, f, O) /\ InSequence(m, f) /\ InSequence(f, m)
    BY <1>1, <1>8 DEF Reader, MailInOrder
  <2>3. CASE OfNext(t, f)
    <3>1. Place(f.key.root) = Place(r)
      BY <1>2, <1>6, <2>1, <2>3, AppendPlace DEF OfNext
    <3>2. f.key.root = r /\ f.hdr.dh_pub = m.hdr.dh_pub
      BY <1>6, <1>8, <2>2, <3>1 DEF InSequence
    <3>3. f.hdr.n < new.recv_n => Accounted(new, f, O2)
      <4>1. CASE f.hdr.n < m.hdr.n
        BY <1>4, <1>5, <2>1, <3>2, <4>1, CachedCounts
      <4>2. CASE f.hdr.n = m.hdr.n
        <5>1. f.key = m.key
          BY <1>2, <2>1, <3>2, <4>2, SameKey
        <5> QED
          BY <5>1 DEF Accounted
      <4> QED
        BY <1>2, <1>4, <2>1, <4>1, <4>2
    <3> QED
      BY <1>4, <3>2, <3>3 DEF Reads, OfPresent
  <2>4. CASE OfPresent(t, f) /\ (f.hdr.n < t.recv_n => Accounted(t, f, O))
    <3>1. Place(t.root_key) = Place(f.key.root) + 1
      BY <1>1, <2>4 DEF OfPresent, Reader
    <3>2. Place(f.key.root) \in Nat
      BY <2>1, PlaceIsNat
    <3>3. OfEarlier(new, f)
      BY <1>6, <3>1, <3>2 DEF OfEarlier
    <3>4. f.hdr.n < m.hdr.pn
      BY <1>6, <1>8, <2>2, <3>1, <3>2 DEF InSequence
    <3>5. Accounted(new, f, O2)
      <4>1. CASE f.hdr.n < t.recv_n
        BY <1>7, <2>4, <4>1
      <4>2. CASE ~ (f.hdr.n < t.recv_n)
        <5>1. t.recv_n <= f.hdr.n
          BY <1>2, <2>1, <4>2
        <5>2. Cached(new, f.hdr.dh_pub, f.key.root, f.hdr.n)
          BY <1>4, <2>1, <2>4, <3>4, <5>1 DEF OfPresent
        <5> QED
          BY <1>5, <2>1, <5>2, CachedCounts
      <4> QED
        BY <4>1, <4>2
    <3> QED
      BY <3>3, <3>5 DEF Reads
  <2>5. CASE OfEarlier(t, f) /\ Accounted(t, f, O)
    <3>1. Place(f.key.root) \in Nat
      BY <2>1, PlaceIsNat
    <3>2. OfEarlier(new, f)
      BY <1>6, <2>5, <3>1 DEF OfEarlier
    <3> QED
      BY <1>7, <2>5, <3>2 DEF Reads
  <2> QED
    BY <2>2, <2>3, <2>4, <2>5 DEF Reads
<1>9. Reader(new, M, N, O2)
  <2>1. ASSUME NEW e \in new.skipped
        PROVE  /\ e.key.n = e.n /\ Place(e.key.root) < Place(new.root_key)
               /\ Begun(e.dh, e.key.root, N)
    <3>1. CASE e \in t.skipped
      <4>1. /\ e.key.n = e.n /\ Place(e.key.root) < Place(t.root_key)
            /\ Begun(e.dh, e.key.root, N)
        BY <1>1, <3>1 DEF Reader
      <4>2. Place(e.key.root) \in Nat
        BY <1>1, <3>1, StateFields, PlaceIsNat
      <4> QED
        BY <1>6, <4>1, <4>2
    <3>2. CASE /\ t.recv_ck # None
               /\ e.dh = t.dh_remote /\ e.key.root = t.recv_ck.root
               /\ e.key.n = e.n
      <4>1. /\ Place(t.root_key) = Place(e.key.root) + 1
            /\ Begun(e.dh, e.key.root, N)
        BY <1>1, <3>2 DEF Reader
      <4>2. Place(e.key.root) \in Nat
        BY <1>1, <3>2, StateFields, PlaceIsNat
      <4> QED
        BY <1>6, <3>2, <4>1, <4>2
    <3>3. CASE e.dh = m.hdr.dh_pub /\ e.key.root = r /\ e.key.n = e.n
      BY <1>6, <3>3 DEF Begun
    <3> QED
      BY <1>4, <3>1, <3>2, <3>3
  <2>2. Begun(new.dh_remote, new.recv_ck.root, N)
    BY <1>4 DEF Begun
  <2>3. \A f \in M : f.key.root.sk = new.root_key.sk => Reads(new, f, O2)
    BY <1>6, <1>8
  <2> QED
    BY <1>4, <1>6, <2>1, <2>2, <2>3 DEF Reader
<1>10. s # None => Faces(s, new)
  <2>1. SUFFICES ASSUME s # None, s.root_key.sk = t.root_key.sk, s.send_ck # None
                 PROVE  Faces(s, new)
    BY <1>6 DEF Faces
  <2>2. /\ Faces(s, t) /\ Wrote(s, m) /\ s.send_n \in Nat /\ s.root_key \in RootKey
        /\ Place(s.root_key) \in Nat
    BY <1>1, <2>1, StateFields, PlaceIsNat DEF Author
  <2>3. Place(r) <= Place(s.root_key)
    BY <1>6, <2>1, <2>2 DEF Wrote
  <2>4. CASE s.root_key.dhs = Append(t.root_key.dhs, DH(t.dh_self, s.dh_self))
    <3>1. Place(s.root_key) = Place(r)
      BY <1>2, <1>6, <2>2, <2>4, AppendPlace
    <3>2. r = s.root_key /\ m.hdr.dh_pub = s.dh_self /\ m.hdr.n < s.send_n
      BY <1>6, <2>1, <2>2, <3>1 DEF Wrote
    <3>3. new.recv_n <= s.send_n
      BY <1>2, <1>4, <2>2, <3>2
    <3> QED
      BY <1>4, <3>2, <3>3 DEF Faces
  <2>5. CASE t.recv_ck # None /\ t.recv_ck.root = s.root_key
    <3>1. Place(t.root_key) = Place(s.root_key) + 1
      BY <1>1, <2>5 DEF Reader
    <3> QED
      BY <1>6, <2>2, <2>3, <3>1
  <2> QED
    BY <2>1, <2>2, <2>4, <2>5 DEF Faces
<1> QED
  BY <1>5, <1>9, <1>10 DEF Conversation, new

(* So b may open any payload that opens. *)
LEMMA ReadConversation ==
    ASSUME NEW a, NEW b, NEW s, NEW t, NEW M, NEW N, NEW S, NEW O,
           Conversation(a, b, s, t, M, N, S, O), t # None,
           NEW m \in N, m.key.root.sk = t.root_key.sk, NEW fresh \in Key,
           Opens(t, m.hdr, m.key, fresh)
    PROVE  Conversation(a, b, s, AfterDecrypt(t, m.hdr, fresh), M, N, S, O \cup {m.key})
<1>1. m \in M
  BY DEF Conversation
<1> QED
  BY <1>1, OpensCases, ReadsCached, ReadsPresent, ReadsNext

(* When the author opens a payload of b with a key of the cache, or of the *)
(* present chain, what it writes stays as it was.                          *)
LEMMA WriterKeepsChain ==
    ASSUME NEW a, NEW b, NEW s, NEW t, NEW M, NEW N, NEW S, NEW O,
           Conversation(a, b, s, t, M, N, S, O), s # None,
           NEW new, WellFormed(new), SameSender(s, new),
           s.recv_ck = None => new.recv_ck = None
    PROVE  Conversation(a, b, new, t, M, N, S, O)
<1>1. /\ WellFormed(s) /\ Author(a, b, s, M, S)
      /\ t # None => Faces(s, t)
  BY DEF Conversation
<1>2. /\ new.dh_self = s.dh_self /\ new.root_key = s.root_key
      /\ new.send_ck = s.send_ck /\ new.send_n = s.send_n
      /\ new.prev_send_n = s.prev_send_n
  BY DEF SameSender
<1>3. Author(a, b, new, M, S)
  BY <1>1, <1>2 DEF Author, Wrote
<1>4. t # None => Faces(new, t)
  BY <1>1, <1>2 DEF Faces
<1> QED
  BY <1>3, <1>4 DEF Conversation

(* When it goes on to the next chain, it starts one that b has answered to *)
(* and will read after the present one.                                    *)
LEMMA WriterStartsChain ==
    ASSUME NEW a, NEW b, NEW s, NEW t, NEW M, NEW N, NEW S, NEW O,
           Conversation(a, b, s, t, M, N, S, O), s # None,
           NEW M2, NEW N2, NEW O2,
           Conversation(b, a, t, s, M2, N2, S, O2),
           NEW m \in N2, m.key.root.sk = s.root_key.sk,
           NEW fresh \in Key, fresh.kind = "dh",
           \A f \in M : f.hdr.dh_pub # fresh,
           Opens(s, m.hdr, m.key, fresh), CacheHits(s, m.hdr) = {},
           OfNext(s, m), NeedsRatchet(s, m.hdr)
    PROVE  Conversation(a, b, AfterDecrypt(s, m.hdr, fresh), t, M, N, S, O)
<1> DEFINE new == AfterDecrypt(s, m.hdr, fresh)
           r   == m.key.root
<1>1. /\ WellFormed(s) /\ Author(a, b, s, M, S) /\ m \in M2 /\ m \in Payload
      /\ M \subseteq Payload
      /\ MailInOrder(b, a, M2, S)
      /\ t # None => WellFormed(t) /\ Author(b, a, t, M2, S) /\ Faces(t, s)
  BY DEF Conversation
<1>2. /\ m.hdr \in Header /\ ~ Raises(s, m.hdr, fresh) /\ m.hdr.dh_pub \in Key
      /\ r \in RootKey /\ s.root_key \in RootKey
      /\ DH(fresh, m.hdr.dh_pub) \in SUBSET Key
  BY <1>1, PayloadFields, StateFields DEF Opens, DH
<1>3. /\ new.dh_self = fresh /\ new.root_key = KdfRk(r, DH(fresh, m.hdr.dh_pub))
      /\ new.send_ck = FirstChainKey(new.root_key)
      /\ new.send_n = 0 /\ new.prev_send_n = s.send_n
  <2>1. KdfRk(s.root_key, DH(s.dh_self, m.hdr.dh_pub)) = r
    BY <1>1, <1>2, NextKey DEF Opens
  <2>2. CacheFits(s) /\ \A e \in s.skipped : e.dh # m.hdr.dh_pub
    BY <1>1, ReaderFits, NextIsNew
  <2> HIDE DEF r
  <2> QED
    BY <1>1, <1>2, <2>1, <2>2, DecryptNext
<1>4. WellFormed(new)
  BY <1>1, <1>2, AfterDecryptType
<1> HIDE DEF new
<1>5. /\ Place(s.root_key) \in Nat /\ Place(r) = Place(s.root_key) + 1
      /\ Place(new.root_key) = Place(s.root_key) + 2
      /\ new.root_key.sk = s.root_key.sk
      /\ new.root_key.dhs = Append(r.dhs, DH(fresh, m.hdr.dh_pub))
  <2>1. Place(s.root_key) \in Nat /\ Place(r) = Place(s.root_key) + 1
    BY <1>1, <1>2, NextIsNew, PlaceIsNat
  <2>2. /\ Place(new.root_key) = Place(r) + 1 /\ new.root_key.sk = r.sk
        /\ new.root_key.dhs = Append(r.dhs, DH(fresh, m.hdr.dh_pub))
    BY <1>2, <1>3, NextPlace
  <2> QED
    BY <2>1, <2>2
<1>6. new.send_ck # None /\ new.send_ck.root = new.root_key /\ new.send_ck.n = new.send_n
  <2>1. new.root_key \in RootKey
    BY <1>4, StateFields
  <2>2. new.send_ck \in ChainKey
    BY <1>3, <2>1 DEF FirstChainKey, ChainKey
  <2> QED
    BY <1>3, <2>2, NoneIsNoChainKey DEF FirstChainKey
<1>7. BeginsRight(b, new.root_key, new.dh_self, S)
  <2>1. HasSealed(b, new.root_key.sk, S)
    <3>1. PICK x \in S : x.text.from = b /\ x.key = m.key
      BY <1>1 DEF MailInOrder
    <3> QED
      BY <1>5, <3>1 DEF HasSealed
  <2>2. Place(new.root_key) # 1 /\ new.root_key.dhs # << >>
    BY <1>5 DEF Place
  <2> QED
    BY <1>3, <2>1, <2>2 DEF BeginsRight
<1>8. ASSUME NEW f \in M PROVE Wrote(new, f)
  <2>1. /\ f.hdr.dh_pub # new.dh_self
        /\ f.key.root \in RootKey /\ Place(f.key.root) \in Nat
    BY <1>1, <1>3, PayloadFields, PlaceIsNat
  <2>2. CASE s.send_ck = None
    <3>1. f.key.root.sk # new.root_key.sk
      BY <1>1, <1>5, <2>2 DEF Author
    <3> QED
      BY <2>1, <3>1 DEF Wrote
  <2>3. CASE s.send_ck # None
    <3>1. Wrote(s, f)
      BY <1>1, <2>3 DEF Author
    <3>2. SUFFICES ASSUME f.key.root.sk = s.root_key.sk PROVE Wrote(new, f)
      BY <1>5, <2>1 DEF Wrote
    <3>3. /\ Place(f.key.root) <= Place(s.root_key)
          /\ Place(f.key.root) = Place(s.root_key) => f.hdr.n < s.send_n
      BY <3>1, <3>2 DEF Wrote
    <3>4. /\ Place(f.key.root) <= Place(new.root_key)
          /\ Place(f.key.root) # Place(new.root_key)
          /\ Place(new.root_key) = Place(f.key.root) + 2 =>
                Place(f.key.root) = Place(s.root_key)
      BY <1>5, <2>1, <3>3
    <3> QED
      BY <1>3, <2>1, <3>3, <3>4 DEF Wrote
  <2> QED
    BY <2>2, <2>3
<1>9. Author(a, b, new, M, S)
  BY <1>6, <1>7, <1>8 DEF Author
<1>10. ASSUME t # None, new.root_key.sk = t.root_key.sk PROVE Faces(new, t)
  <2>1. t.send_ck # None /\ Wrote(t, m) /\ t.root_key \in RootKey
    BY <1>1, <1>5, <1>10, StateFields DEF Author
  <2>2. /\ Place(t.root_key) \in Nat /\ Place(r) <= Place(t.root_key)
        /\ Place(r) = Place(t.root_key) => r = t.root_key /\ m.hdr.dh_pub = t.dh_self
    BY <1>5, <1>10, <2>1, PlaceIsNat DEF Wrote
  <2>3. Place(t.root_key) = Place(s.root_key) + 1
    <3>1. \/ t.root_key.dhs = Append(s.root_key.dhs, DH(s.dh_self, t.dh_self))
          \/ s.recv_ck # None /\ s.recv_ck.root = t.root_key
      BY <1>1, <1>5, <1>10, <2>1 DEF Faces
    <3>2. CASE t.root_key.dhs = Append(s.root_key.dhs, DH(s.dh_self, t.dh_self))
      BY <1>2, <2>1, <3>2, AppendPlace
    <3>3. CASE s.recv_ck # None /\ s.recv_ck.root = t.root_key
      <4>1. Place(s.root_key) = Place(t.root_key) + 1
        BY <3>3 DEF Conversation, Reader
      <4> QED
        BY <1>5, <2>2, <4>1
    <3> QED
      BY <3>1, <3>2, <3>3
  <2>4. r = t.root_key /\ m.hdr.dh_pub = t.dh_self
    BY <1>5, <2>2, <2>3
  <2>5. DH(fresh, t.dh_self) = DH(t.dh_self, fresh)
    BY DEF DH
  <2> QED
    BY <1>3, <1>5, <2>4, <2>5 DEF Faces
<1>11. t # None => Faces(new, t)
  BY <1>10 DEF Faces
<1> QED
  BY <1>4, <1>9, <1>11 DEF Conversation, new

(* So a may open any payload of b that opens. *)
LEMMA WriterConversation ==
    ASSUME NEW a, NEW b, NEW s, NEW t, NEW M, NEW N, NEW S, NEW O,
           Conversation(a, b, s, t, M, N, S, O), s # None,
           NEW M2, NEW N2, NEW O2,
           Conversation(b, a, t, s, M2, N2, S, O2),
           NEW m \in N2, m.key.root.sk = s.root_key.sk,
           NEW fresh \in Key, fresh.kind = "dh",
           \A f \in M : f.hdr.dh_pub # fresh,
           Opens(s, m.hdr, m.key, fresh)
    PROVE  Conversation(a, b, AfterDecrypt(s, m.hdr, fresh), t, M, N, S, O)
<1> DEFINE new == AfterDecrypt(s, m.hdr, fresh)
<1>1. WellFormed(s) /\ m \in M2 /\ m \in Payload
  BY DEF Conversation
<1>2. m.hdr \in Header /\ ~ Raises(s, m.hdr, fresh)
  BY <1>1, PayloadFields DEF Opens
<1>3. WellFormed(new)
  BY <1>1, <1>2, AfterDecryptType
<1>4. CASE CacheHits(s, m.hdr) # {}
  <2>1. SameSender(s, new) /\ new.recv_ck = s.recv_ck
    BY <1>1, <1>2, <1>4, DecryptCached
  <2> HIDE DEF new
  <2> QED
    BY <1>3, <2>1, WriterKeepsChain DEF new
<1>5. CASE CacheHits(s, m.hdr) = {} /\ OfPresent(s, m) /\ ~ NeedsRatchet(s, m.hdr)
  <2>1. SameSender(s, new) /\ s.recv_ck # None
    BY <1>1, <1>2, <1>5, ReaderFits, DecryptPresent DEF OfPresent
  <2> HIDE DEF new
  <2> QED
    BY <1>3, <2>1, WriterKeepsChain DEF new
<1>6. CASE CacheHits(s, m.hdr) = {} /\ OfNext(s, m) /\ NeedsRatchet(s, m.hdr)
  BY <1>6, WriterStartsChain
<1> QED
  BY <1>1, <1>4, <1>5, <1>6, OpensCases

-----------------------------------------------------------------------------
(* The conversations of the model. *)

(* What the relay has of a for b, and that with what waits to be handed to *)
(* the relay.                                                              *)
Posted(a, b) == {m \in net : m.from = a /\ m.to = b}

Mail(a, b) == {m \in (net \cup {outbox[a]}) \ {None} : m.from = a /\ m.to = b}

Converse(a, b) ==
    Conversation(a, b, session[a][b], session[b][a], Mail(a, b), Posted(a, b),
                 sealed, opened[b])

(* Nobody writes to itself, or in the name of another. *)
OwnMail ==
    /\ \A p \in User : session[p][p] = None
    /\ \A p \in User : outbox[p] # None => outbox[p].from = p /\ outbox[p].to # p
    /\ \A m \in net : m.from # m.to

ReadInv == OwnMail /\ \A a, b \in User : a # b => Converse(a, b)

(* A step that hands nothing to the relay can only lose what waits. *)
LEMMA MailSheds ==
    ASSUME net' = net, \A u \in User : outbox'[u] \in {outbox[u], None},
           NEW a \in User, NEW b \in User
    PROVE  /\ Mail(a, b)' \subseteq Mail(a, b)
           /\ Posted(a, b) \subseteq Posted(a, b)'
BY DEF Mail, Posted

(* What the relay has after a step may arrive. *)
LEMMA PostedIsMailNext ==
    ASSUME SecrecyInv', NEW a, NEW b
    PROVE  Posted(a, b)' \subseteq Mail(a, b)'
<1>1. (net \in SUBSET Payload)'
  BY DEF SecrecyInv, KeyInv, TypeInv, TypeOK
<1>2. None \notin net'
  BY <1>1, NoneIsNoPayload
<1> QED
  BY <1>2 DEF Mail, Posted

(* A conversation whose two sessions the step leaves alone goes on. *)
LEMMA ConverseStays ==
    ASSUME ReadInv, SecrecyInv', NEW a \in User, NEW b \in User, a # b,
           session'[a][b] = session[a][b], session'[b][a] = session[b][a],
           Mail(a, b)' \subseteq Mail(a, b), Posted(a, b) \subseteq Posted(a, b)',
           sealed \subseteq sealed', opened[b] \subseteq opened'[b]
    PROVE  Converse(a, b)'
<1>1. Conversation(a, b, session[a][b], session[b][a], Mail(a, b), Posted(a, b),
                   sealed, opened[b])
  BY DEF ReadInv, Converse
<1>2. Posted(a, b)' \subseteq Mail(a, b)'
  BY PostedIsMailNext
<1>3. ASSUME NEW M2, NEW N2, NEW S2, NEW O2,
             M2 \subseteq Mail(a, b), Posted(a, b) \subseteq N2, N2 \subseteq M2,
             sealed \subseteq S2, opened[b] \subseteq O2
      PROVE  Conversation(a, b, session[a][b], session[b][a], M2, N2, S2, O2)
  BY <1>1, <1>3, MeanwhileConversation
<1>4. Conversation(a, b, session[a][b], session[b][a], Mail(a, b)', Posted(a, b)',
                   sealed', opened'[b])
  BY <1>2, <1>3
<1> QED
  BY <1>4 DEF Converse

(* A step that stores no session, seals nothing and opens nothing. *)
LEMMA QuietReads ==
    ASSUME ReadInv, SecrecyInv', session' = session, sealed' = sealed, opened' = opened,
           OwnMail',
           \A a, b \in User : /\ Mail(a, b)' \subseteq Mail(a, b)
                              /\ Posted(a, b) \subseteq Posted(a, b)'
    PROVE  ReadInv'
<1>1. \A a, b \in User : a # b => Converse(a, b)'
  BY ConverseStays
<1> QED
  BY <1>1 DEF ReadInv

(* The session of p for q is stored in state new. *)
LEMMA StoreReads ==
    ASSUME ReadInv, SecrecyInv, SecrecyInv', NEW p \in User, NEW q \in User, p # q,
           NEW new, session' = [session EXCEPT ![p][q] = new],
           \A a, b \in User : <<a, b>> # <<p, q>> =>
               /\ Mail(a, b)' \subseteq Mail(a, b)
               /\ Posted(a, b) \subseteq Posted(a, b)',
           sealed \subseteq sealed', \A b \in User : opened[b] \subseteq opened'[b],
           \A u \in User : outbox'[u] # None => outbox'[u].from = u /\ outbox'[u].to # u,
           net' = net,
           Conversation(p, q, new, session[q][p], Mail(p, q)', Posted(p, q)',
                        sealed', opened'[q]),
           Conversation(q, p, session[q][p], new, Mail(q, p)', Posted(q, p)',
                        sealed', opened'[p])
    PROVE  ReadInv'
<1>1. session \in [User -> [User -> RatchetState \cup {None}]]
  BY SecrecyTypes
<1>2. /\ session'[p][q] = new
      /\ \A a, b \in User : <<a, b>> # <<p, q>> => session'[a][b] = session[a][b]
  BY <1>1
<1>3. OwnMail'
  BY <1>2 DEF ReadInv, OwnMail
<1>4. Converse(p, q)' /\ Converse(q, p)'
  BY <1>2 DEF Converse
<1>5. ASSUME NEW a \in User, NEW b \in User, a # b, <<a, b>> # <<p, q>>, <<a, b>> # <<q, p>>
      PROVE  Converse(a, b)'
  BY <1>2, <1>5, ConverseStays
<1> QED
  BY <1>3, <1>4, <1>5 DEF ReadInv

(* At the start there is no mail and no session. *)
LEMMA ReadInit == Init => ReadInv
<1> SUFFICES ASSUME Init PROVE ReadInv
  OBVIOUS
<1>1. /\ \A p, q \in User : session[p][q] = None
      /\ \A p \in User : outbox[p] = None
      /\ net = {}
  BY DEF Init
<1>2. \A a, b \in User : Mail(a, b) = {} /\ Posted(a, b) = {}
  BY <1>1 DEF Mail, Posted
<1>3. OwnMail
  BY <1>1 DEF OwnMail
<1>4. \A a, b \in User : Converse(a, b)
  BY <1>1, <1>2 DEF Converse, Conversation, MailInOrder
<1> QED
  BY <1>3, <1>4 DEF ReadInv

-----------------------------------------------------------------------------
(* The actions. *)

(* p seals its next text for q in a state that could have been stored. *)
LEMMA SealReads ==
    ASSUME SecrecyInv, SecrecyInv', ReadInv, NEW p \in User, NEW q \in User, p # q,
           NEW st, st # None, CanEncrypt(st), NEW x3dh \in X3dhHeader \cup {None},
           Conversation(p, q, st, session[q][p], Mail(p, q), Posted(p, q),
                        sealed, opened[q]),
           Conversation(q, p, session[q][p], st, Mail(q, p), Posted(q, p),
                        sealed, opened[p]),
           Seal(p, q, st, x3dh), net' = net, opened' = opened
    PROVE  ReadInv'
<1> DEFINE new == AfterEncrypt(st)
           m   == outbox'[p]
           x   == [key |-> SealingKey(st),
                   text |-> [from |-> p, to |-> q, no |-> typed[p]]]
<1>1. /\ outbox \in [User -> Payload \cup {None}]
      /\ net \in SUBSET Payload
      /\ (outbox \in [User -> Payload \cup {None}])'
  BY SecrecyTypes DEF SecrecyInv, KeyInv, TypeInv, TypeOK
<1>2. /\ session' = [session EXCEPT ![p][q] = new]
      /\ sealed' = sealed \cup {x}
      /\ \A u \in User : u # p => outbox'[u] = outbox[u]
      /\ m = [from |-> p, to |-> q, hdr |-> SealedHeader(st), x3dh |-> x3dh,
              key |-> SealingKey(st),
              text |-> [from |-> p, to |-> q, no |-> typed[p]]]
  BY <1>1 DEF Seal, SaveSession
<1>3. m.from = p /\ m.to = q /\ m.hdr = SealedHeader(st) /\ m.key = SealingKey(st)
  BY <1>2
<1>4. x.text.from = p /\ x.key = SealingKey(st)
  OBVIOUS
<1>5. m \in Payload
  <2>1. WellFormed(st)
    BY DEF Conversation
  <2>2. SealingKey(st) \in MessageKey /\ SealedHeader(st) \in Header
    BY <2>1, AfterEncryptType
  <2>3. typed[p] \in Nat
    BY SecrecyTypes DEF TypeInv, TypeOK
  <2> QED
    BY <1>2, <2>2, <2>3 DEF Payload, Text
<1> HIDE DEF m, x, new
<1>6. /\ Mail(p, q)' \subseteq Mail(p, q) \cup {m}
      /\ \A a, b \in User : <<a, b>> # <<p, q>> =>
            Mail(a, b)' \subseteq Mail(a, b)
      /\ \A a, b \in User : Posted(a, b)' = Posted(a, b)
  BY <1>2, <1>3 DEF Mail, Posted, m
<1>7. None \notin net
  BY <1>1, NoneIsNoPayload
<1>8. Posted(p, q) \subseteq Mail(p, q)' /\ Posted(q, p) \subseteq Mail(q, p)'
  BY <1>6, PostedIsMailNext
<1>9. Conversation(p, q, new, session[q][p], Mail(p, q)', Posted(p, q)',
                   sealed', opened'[q])
  <2>1. ASSUME NEW S2, sealed \subseteq S2, x \in S2
        PROVE  Conversation(p, q, new, session[q][p], Mail(p, q) \cup {m}, Posted(p, q),
                            S2, opened[q])
    BY <1>3, <1>4, <1>5, <2>1, SealConversation DEF new
  <2>2. Conversation(p, q, new, session[q][p], Mail(p, q) \cup {m}, Posted(p, q),
                     sealed', opened[q])
    BY <1>2, <2>1
  <2>3. ASSUME NEW M2, M2 \subseteq Mail(p, q) \cup {m}, Posted(p, q) \subseteq M2
        PROVE  Conversation(p, q, new, session[q][p], M2, Posted(p, q), sealed', opened[q])
    BY <2>2, <2>3, MeanwhileConversation
  <2> QED
    BY <1>6, <1>8, <2>3
<1>10. Conversation(q, p, session[q][p], new, Mail(q, p)', Posted(q, p)',
                    sealed', opened'[p])
  <2>1. ASSUME NEW S2, sealed \subseteq S2
        PROVE  Conversation(q, p, session[q][p], new, Mail(q, p), Posted(q, p),
                            S2, opened[p])
    BY <2>1, AnswerConversation DEF new
  <2>2. Conversation(q, p, session[q][p], new, Mail(q, p), Posted(q, p),
                     sealed', opened[p])
    BY <1>2, <2>1
  <2>3. ASSUME NEW M2, M2 \subseteq Mail(q, p), Posted(q, p) \subseteq M2
        PROVE  Conversation(q, p, session[q][p], new, M2, Posted(q, p), sealed', opened[p])
    BY <2>2, <2>3, MeanwhileConversation
  <2> QED
    BY <1>6, <1>8, <2>3
<1>11. \A u \in User : outbox'[u] # None => outbox'[u].from = u /\ outbox'[u].to # u
  BY <1>2, <1>3 DEF ReadInv, OwnMail, m
<1>12. sealed \subseteq sealed' /\ \A u \in User : opened[u] \subseteq opened'[u]
  BY <1>2
<1>13. \A a, b \in User : <<a, b>> # <<p, q>> =>
          /\ Mail(a, b)' \subseteq Mail(a, b)
          /\ Posted(a, b) \subseteq Posted(a, b)'
  BY <1>6
<1>14. session' = [session EXCEPT ![p][q] = new]
  BY <1>2
<1> QED
  BY <1>9, <1>10, <1>11, <1>12, <1>13, <1>14, StoreReads

(* p seals in the session it has. *)
LEMMA SendReads ==
    ASSUME SecrecyInv, SecrecyInv', ReadInv, NEW p \in User, NEW q \in User, Send(p, q)
    PROVE  ReadInv'
<1> DEFINE st == session[p][q]
<1>1. /\ st # None /\ CanEncrypt(st) /\ Seal(p, q, st, None)
      /\ net' = net /\ opened' = opened
  BY DEF Send, HasSession
<1>2. p # q
  BY <1>1 DEF ReadInv, OwnMail
<1>3. Converse(p, q) /\ Converse(q, p)
  BY <1>2 DEF ReadInv
<1> QED
  BY <1>1, <1>2, <1>3, SealReads DEF Converse

(* Nobody can have the secret p would compute from the bundle. *)
LEMMA NobodyKnows ==
    ASSUME SecrecyInv, NEW p \in User, awaiting[p] # None
    PROVE  LET sk == X3dhSecretSend(IK(p, identity[p]), awaiting[p].bundle,
                                    EK(p, keygen[p]))
           IN  sk \in SecretKey /\ \A u \in User : ~ Knows(u, sk)
BY InitiatorSecret DEF SecrecyInv, SecretsOld

(* The secret of a user's payload is one it knows. *)
LEMMA MailIsKnown ==
    ASSUME SecrecyInv, ReadInv, NEW a \in User, NEW b \in User, a # b, NEW m \in Mail(a, b)
    PROVE  Knows(a, m.key.root.sk)
<1>1. MailInOrder(a, b, Mail(a, b), sealed)
  BY DEF ReadInv, Converse, Conversation
<1>2. PICK x \in sealed : x.text.from = a /\ x.key = m.key
  BY <1>1 DEF MailInOrder
<1> QED
  BY <1>2 DEF Knows, Used

(* It was sealed with a ratchet key that has been generated. *)
LEMMA MailIsOld ==
    ASSUME SecrecyInv, NEW a \in User, NEW b \in User, NEW m \in Mail(a, b), NEW p \in User
    PROVE  m.hdr.dh_pub # RatchetKey(p, keygen[p])
<1>1. KeyIn(keygen, m.hdr.dh_pub)
  BY DEF SecrecyInv, KeyInv, KeysGenerated, Mail
<1>2. keygen[p] \in Nat
  BY SecrecyTypes
<1>3. ~ KeyIn(keygen, RatchetKey(p, keygen[p]))
  BY <1>2 DEF KeyIn, RatchetKey
<1> QED
  BY <1>1, <1>3

(* The state p computes from the bundle could be stored. *)
LEMMA InitiatorConverses ==
    ASSUME SecrecyInv, ReadInv, NEW p \in User, awaiting[p] # None
    PROVE  LET q  == awaiting[p].peer
               st == InitiatorState(p)
           IN  /\ q \in User /\ p # q
               /\ Conversation(p, q, st, session[q][p], Mail(p, q), Posted(p, q),
                               sealed, opened[q])
               /\ Conversation(q, p, session[q][p], st, Mail(q, p), Posted(q, p),
                               sealed, opened[p])
<1> DEFINE q      == awaiting[p].peer
           b      == awaiting[p].bundle
           ek     == EK(p, keygen[p])
           sk     == X3dhSecretSend(IK(p, identity[p]), b, ek)
           remote == b.spk
           fresh  == RatchetKey(p, keygen[p])
<1>1. /\ q \in User /\ p # q /\ remote \in Key
      /\ remote.kind = "spk" /\ remote.owner = q
  <2>1. q \in User /\ b \in Bundle
    BY SecrecyTypes
  <2>2. PICK g \in Nat, S \in SUBSET Nat : b = PublicBundle(q, g, S)
    BY DEF SecrecyInv, BundlesGenuine
  <2>3. q # p
    BY DEF SecrecyInv, BundlesGenuine
  <2> QED
    BY <2>1, <2>2, <2>3 DEF PublicBundle, SPK, Bundle
<1>2. fresh \in Key /\ fresh.kind = "dh"
  <2>1. keygen[p] \in Nat
    BY SecrecyTypes
  <2> QED
    BY <2>1 DEF RatchetKey, Key, Kind
<1>3. InitiatorState(p) = InitSender(sk, remote, fresh)
  BY DEF InitiatorState
<1>4. remote \in PrekeysOf(q, sk)
  BY <1>1 DEF PrekeysOf, X3dhSecretSend, DH
<1>5. sk \in SecretKey /\ \A u \in User : ~ Knows(u, sk)
  BY NobodyKnows
<1> HIDE DEF q, b, ek, sk, remote, fresh
<1>6. Converse(p, q) /\ Converse(q, p)
  BY <1>1 DEF ReadInv
<1>7. \A m \in Mail(p, q) : m.key.root.sk # sk /\ m.hdr.dh_pub # fresh
  BY <1>1, <1>5, MailIsKnown, MailIsOld DEF fresh
<1>8. \A m \in Mail(q, p) : m.key.root.sk # sk
  BY <1>1, <1>5, MailIsKnown
<1>9. session[q][p] # None => session[q][p].root_key.sk # sk
  BY <1>1, <1>5 DEF Knows
<1>10. Conversation(p, q, InitSender(sk, remote, fresh), session[q][p],
                    Mail(p, q), Posted(p, q), sealed, opened[q])
  BY <1>1, <1>2, <1>4, <1>5, <1>6, <1>7, <1>9, InitiateConversation DEF Converse
<1>11. Conversation(q, p, session[q][p], InitSender(sk, remote, fresh),
                    Mail(q, p), Posted(q, p), sealed, opened[p])
  BY <1>1, <1>2, <1>5, <1>6, <1>8, <1>9, InitiateReads DEF Converse
<1> QED
  BY <1>1, <1>3, <1>10, <1>11 DEF q

(* p stores it and seals the first text in it. *)
LEMMA InitiateKeepsReads ==
    ASSUME SecrecyInv, SecrecyInv', ReadInv, NEW p \in User, Initiate(p)
    PROVE  ReadInv'
<1> DEFINE q  == awaiting[p].peer
           st == InitiatorState(p)
           h  == X3dhHeaderSend(IK(p, identity[p]), awaiting[p].bundle,
                                EK(p, keygen[p]))
<1>1. /\ awaiting[p] # None /\ Seal(p, q, st, h)
      /\ net' = net /\ opened' = opened
  BY DEF Initiate
<1>2. WellFormed(st) /\ CanEncrypt(st) /\ h \in X3dhHeader
  BY <1>1, SecrecyTypes, InitiatorStateType
<1>3. st # None
  BY <1>2, NoneIsNoState DEF WellFormed
<1>4. /\ q \in User /\ p # q
      /\ Conversation(p, q, st, session[q][p], Mail(p, q), Posted(p, q),
                      sealed, opened[q])
      /\ Conversation(q, p, session[q][p], st, Mail(q, p), Posted(q, p),
                      sealed, opened[p])
  BY <1>1, InitiatorConverses
<1> HIDE DEF q, st, h
<1> QED
  BY <1>1, <1>2, <1>3, <1>4, SealReads

(* A state that could be stored is, and what p had not sent is lost. *)
LEMMA StoredReads ==
    ASSUME SecrecyInv, SecrecyInv', ReadInv, NEW p \in User, NEW q \in User, p # q,
           NEW st,
           Conversation(p, q, st, session[q][p], Mail(p, q), Posted(p, q),
                        sealed, opened[q]),
           Conversation(q, p, session[q][p], st, Mail(q, p), Posted(q, p),
                        sealed, opened[p]),
           session' = [session EXCEPT ![p][q] = st],
           \A u \in User : outbox'[u] \in {outbox[u], None},
           net' = net, sealed' = sealed, opened' = opened
    PROVE  ReadInv'
<1>1. \A a, b \in User : /\ Mail(a, b)' \subseteq Mail(a, b)
                         /\ Posted(a, b) \subseteq Posted(a, b)'
  BY MailSheds
<1>2. \A a, b \in User : Posted(a, b)' \subseteq Mail(a, b)'
  BY PostedIsMailNext
<1>3. ASSUME NEW M2, NEW N2, M2 \subseteq Mail(p, q), Posted(p, q) \subseteq N2,
             N2 \subseteq M2
      PROVE  Conversation(p, q, st, session[q][p], M2, N2, sealed, opened[q])
  BY <1>3, MeanwhileConversation
<1>4. ASSUME NEW M2, NEW N2, M2 \subseteq Mail(q, p), Posted(q, p) \subseteq N2,
             N2 \subseteq M2
      PROVE  Conversation(q, p, session[q][p], st, M2, N2, sealed, opened[p])
  BY <1>4, MeanwhileConversation
<1>5. Conversation(p, q, st, session[q][p], Mail(p, q)', Posted(p, q)',
                   sealed', opened'[q])
  BY <1>1, <1>2, <1>3
<1>6. Conversation(q, p, session[q][p], st, Mail(q, p)', Posted(q, p)',
                   sealed', opened'[p])
  BY <1>1, <1>2, <1>4
<1>7. \A u \in User : outbox'[u] # None => outbox'[u].from = u /\ outbox'[u].to # u
  BY DEF ReadInv, OwnMail
<1> QED
  BY <1>1, <1>5, <1>6, <1>7, StoreReads

(* What a message that opens tells of the secret: it is that of the state. *)
LEMMA OpensSecret ==
    ASSUME NEW st, WellFormed(st), InOrder(st), NEW m \in Payload, NEW fresh \in Key,
           Opens(st, m.hdr, m.key, fresh)
    PROVE  m.key.root.sk = st.root_key.sk
<1>1. m.hdr \in Header
  BY PayloadFields
<1>2. ~ Raises(st, m.hdr, fresh) /\ OpeningKey(st, m.hdr, fresh) = m.key
  BY DEF Opens
<1>3. Derivable(st, m.key)
  BY <1>1, <1>2, DecryptInOrder
<1> QED
  BY <1>3, DerivableSecret

(* The state that is to decrypt a payload could be stored. *)
LEMMA ReceiverConverses ==
    ASSUME SecrecyInv, SecretsWithPrekey, ReadInv, NEW p \in User, NEW m \in net,
           m.to = p, Accepts(p, m)
    PROVE  LET q  == m.from
               st == ReceiverState(p, m)
           IN  /\ q \in User /\ p # q /\ m \in Posted(q, p) /\ m \in Payload
               /\ st # None /\ WellFormed(st) /\ InOrder(st)
               /\ Conversation(p, q, st, session[q][p], Mail(p, q), Posted(p, q),
                               sealed, opened[q])
               /\ Conversation(q, p, session[q][p], st, Mail(q, p), Posted(q, p),
                               sealed, opened[p])
<1> DEFINE q  == m.from
           st == ReceiverState(p, m)
<1>1. /\ q \in User /\ p # q /\ m \in Posted(q, p) /\ m \in Payload
      /\ m.x3dh \in X3dhHeader \cup {None} /\ identity[p] \in Nat
  BY SecrecyTypes DEF Payload, Posted, ReadInv, OwnMail
<1>2. WellFormed(st) /\ st # None
  BY SecrecyTypes, ReceiverStateType, NoneIsNoState DEF WellFormed
<1>3. Converse(p, q) /\ Converse(q, p)
  BY <1>1 DEF ReadInv
<1>4. CASE m.x3dh = None
  <2>1. st = session[p][q] /\ InOrder(st)
    BY <1>1, <1>2, <1>4 DEF ReceiverState, SecrecyInv, SessionsInOrder
  <2> HIDE DEF q, st
  <2> QED
    BY <1>1, <1>2, <1>3, <2>1 DEF Converse, q, st
<1>5. CASE m.x3dh # None
  <2> DEFINE sk  == X3dhSecretReceive(p, identity[p], m.x3dh)
             spk == SPK(p, identity[p])
  <2>1. st = InitReceiver(sk, spk) /\ InOrder(st)
    BY <1>5, FirstStatesInOrder DEF ReceiverState
  <2>2. sk \in SecretKey /\ ~ Knows(p, sk)
    BY <1>5, ResponderSecret, ResponderPrekey
  <2>3. ~ HasSealed(p, sk, sealed)
    BY <2>2 DEF HasSealed, Knows, Used
  <2>4. spk \in Key /\ spk.kind = "spk" /\ spk.owner = p
    BY <1>1 DEF SPK, Key, Kind
  <2>5. m.x3dh.ek.kind = "ek"
    <3>1. HeaderGenuine(keygen, m)
      BY DEF SecrecyInv, HeadersGenuine
    <3>2. PICK g, i, b : FirstPayload(m, b, g, i)
      BY <1>5, <3>1 DEF HeaderGenuine
    <3> QED
      BY <3>2 DEF FirstPayload, X3dhHeaderSend, EK
  <2>6. /\ spk \in PrekeysOf(p, sk) /\ \A j \in PrekeysOf(p, sk) : j = spk
    BY <2>4, <2>5 DEF PrekeysOf, X3dhSecretReceive, DH
  <2> HIDE DEF sk, spk
  <2>7. Conversation(p, q, InitReceiver(sk, spk), session[q][p], Mail(p, q), Posted(p, q),
                     sealed, opened[q])
    BY <1>3, <2>2, <2>3, <2>4, <2>6, RespondConversation DEF Converse
  <2>8. Conversation(q, p, session[q][p], InitReceiver(sk, spk), Mail(q, p), Posted(q, p),
                     sealed, opened[p])
    BY <1>3, <2>2, <2>3, <2>4, <2>6, RespondReads DEF Converse
  <2> QED
    BY <1>1, <1>2, <2>1, <2>7, <2>8
<1> QED
  BY <1>4, <1>5

(* p processes a payload. *)
LEMMA ReceiveReads ==
    ASSUME SecrecyInv, SecrecyInv', SecretsWithPrekey, ReadInv,
           NEW p \in User, NEW m \in net, Receive(p, m)
    PROVE  ReadInv'
<1> DEFINE q     == m.from
           st    == ReceiverState(p, m)
           fresh == RatchetKey(p, keygen[p])
           opens == Opens(st, m.hdr, m.key, fresh)
           after == IF opens THEN AfterDecrypt(st, m.hdr, fresh) ELSE st
<1>1. /\ m.to = p /\ Accepts(p, m)
      /\ session' = [session EXCEPT ![p][q] = after]
      /\ opened' = [opened EXCEPT ![p] = IF opens THEN @ \cup {m.key} ELSE @]
      /\ UNCHANGED <<net, outbox, sealed>>
  BY DEF Receive, SaveSession
<1>2. /\ q \in User /\ p # q /\ m \in Posted(q, p) /\ m \in Payload
      /\ st # None /\ WellFormed(st) /\ InOrder(st)
      /\ Conversation(p, q, st, session[q][p], Mail(p, q), Posted(p, q),
                      sealed, opened[q])
      /\ Conversation(q, p, session[q][p], st, Mail(q, p), Posted(q, p),
                      sealed, opened[p])
  BY <1>1, ReceiverConverses
<1>3. /\ fresh \in Key /\ fresh.kind = "dh"
  BY SecrecyTypes DEF RatchetKey, Key, Kind
<1>4. \A f \in Mail(p, q) : f.hdr.dh_pub # fresh
  BY <1>2, MailIsOld
<1>5. opened \in [User -> SUBSET MessageKey]
  BY SecrecyTypes DEF TypeInv, TypeOK
<1> HIDE DEF q, st, fresh
<1>6. CASE ~ opens
  <2>1. after = st /\ opened' = opened
    BY <1>1, <1>5, <1>6
  <2> HIDE DEF opens, after
  <2> QED
    BY <1>1, <1>2, <2>1, StoredReads
<1>7. CASE opens
  <2> DEFINE O2 == opened[p] \cup {m.key}
  <2>1. /\ after = AfterDecrypt(st, m.hdr, fresh) /\ opened'[p] = O2
        /\ \A u \in User : u # p => opened'[u] = opened[u]
    BY <1>1, <1>5, <1>7
  <2>2. m.key.root.sk = st.root_key.sk
    BY <1>2, <1>3, <1>7, OpensSecret
  <2>3. Conversation(q, p, session[q][p], after, Mail(q, p), Posted(q, p), sealed, O2)
    BY <1>2, <1>3, <1>7, <2>1, <2>2, ReadConversation
  <2>4. Conversation(p, q, after, session[q][p], Mail(p, q), Posted(p, q), sealed, opened[q])
    BY <1>2, <1>3, <1>4, <1>7, <2>1, <2>2, WriterConversation
  <2> HIDE DEF opens, after, O2
  <2>5. \A a, b \in User : Mail(a, b)' = Mail(a, b) /\ Posted(a, b)' = Posted(a, b)
    BY <1>1 DEF Mail, Posted
  <2>6. \A u \in User : opened[u] \subseteq opened'[u]
    BY <2>1 DEF O2
  <2>7. \A u \in User : outbox'[u] # None => outbox'[u].from = u /\ outbox'[u].to # u
    BY <1>1 DEF ReadInv, OwnMail
  <2>8. Conversation(p, q, after, session[q][p], Mail(p, q)', Posted(p, q)',
                     sealed', opened'[q])
    BY <1>1, <1>2, <2>1, <2>4, <2>5
  <2>9. Conversation(q, p, session[q][p], after, Mail(q, p)', Posted(q, p)',
                     sealed', opened'[p])
    BY <1>1, <1>2, <2>1, <2>3, <2>5
  <2>10. /\ session' = [session EXCEPT ![p][q] = after]
         /\ sealed \subseteq sealed' /\ net' = net
         /\ \A a, b \in User : /\ Mail(a, b)' \subseteq Mail(a, b)
                                /\ Posted(a, b) \subseteq Posted(a, b)'
    BY <1>1, <2>5
  <2> QED
    BY <1>2, <2>6, <2>7, <2>8, <2>9, <2>10, StoreReads
<1> QED
  BY <1>6, <1>7

(* The relay gets what waits: nothing is written by that. *)
LEMMA TransmitReads ==
    ASSUME SecrecyInv, SecrecyInv', ReadInv, NEW p \in User, Transmit(p)
    PROVE  ReadInv'
<1>1. /\ outbox[p] # None /\ net' = net \cup {outbox[p]}
      /\ \A u \in User : outbox'[u] = IF u = p THEN None ELSE outbox[u]
      /\ session' = session /\ sealed' = sealed /\ opened' = opened
  BY SecrecyTypes DEF Transmit, history
<1>2. outbox[p].from = p /\ outbox[p].to # p
  BY <1>1 DEF ReadInv, OwnMail
<1>3. \A a, b \in User : /\ Mail(a, b)' \subseteq Mail(a, b)
                         /\ Posted(a, b) \subseteq Posted(a, b)'
  BY <1>1, <1>2 DEF Mail, Posted
<1>4. OwnMail'
  BY <1>1, <1>2 DEF ReadInv, OwnMail
<1> QED
  BY <1>1, <1>3, <1>4, QuietReads

(* Steps that only lose what waits. *)
LEMMA SheddingReads ==
    ASSUME SecrecyInv', ReadInv,
           UNCHANGED <<session, net, sealed, opened>>,
           \A u \in User : outbox'[u] \in {outbox[u], None}
    PROVE  ReadInv'
<1>1. \A a, b \in User : /\ Mail(a, b)' \subseteq Mail(a, b)
                         /\ Posted(a, b) \subseteq Posted(a, b)'
  BY MailSheds
<1>2. OwnMail'
  BY DEF ReadInv, OwnMail
<1> QED
  BY <1>1, <1>2, QuietReads

(* Every step keeps the conversations. *)
LEMMA ReadStep ==
    ASSUME SecrecyInv, SecretsWithPrekey, ReadInv, [Next]_vars
    PROVE  ReadInv'
<1>0. SecrecyInv'
  BY SecrecyInvStep
<1>1. outbox \in [User -> Payload \cup {None}]
  BY SecrecyTypes
<1>2. ASSUME NEW p \in User, Die(p)
      PROVE  /\ \A u \in User : outbox'[u] \in {outbox[u], None}
             /\ UNCHANGED <<net, sealed, opened>>
  BY <1>1, <1>2 DEF Die, history
<1>3. CASE UNCHANGED vars
  BY <1>0, <1>3, SheddingReads DEF vars
<1>4. ASSUME NEW p \in User,
             Register(p) \/ Publish(p) \/ \E q \in User : GetBundle(p, q)
      PROVE  ReadInv'
  <2>1. UNCHANGED <<session, net, sealed, opened, outbox>>
    BY <1>4 DEF Register, Publish, GetBundle, history
  <2> QED
    BY <1>0, <2>1, SheddingReads
<1>5. ASSUME NEW p \in User, Crash(p) \/ \E m \in net : CrashAfterPop(p, m)
      PROVE  ReadInv'
  <2>1. Die(p) /\ session' = session
    BY <1>5 DEF Crash, CrashAfterPop
  <2> QED
    BY <1>0, <1>2, <2>1, SheddingReads
<1>6. ASSUME NEW p \in User, CrashInInitiate(p) PROVE ReadInv'
  <2>1. /\ Die(p) /\ awaiting[p] # None
        /\ session' = [session EXCEPT ![p][awaiting[p].peer] = InitiatorState(p)]
    BY <1>6 DEF CrashInInitiate, SaveSession
  <2> QED
    BY <1>0, <1>2, <2>1, InitiatorConverses, StoredReads
<1>7. ASSUME NEW p \in User, NEW m \in net, CrashAfterRespond(p, m) PROVE ReadInv'
  <2>1. /\ Die(p) /\ m.to = p /\ Accepts(p, m)
        /\ session' = [session EXCEPT ![p][m.from] = ReceiverState(p, m)]
    BY <1>7 DEF CrashAfterRespond, SaveSession
  <2> QED
    BY <1>0, <1>2, <2>1, ReceiverConverses, StoredReads
<1> QED
  BY <1>0, <1>3, <1>4, <1>5, <1>6, <1>7, SendReads, InitiateKeepsReads, TransmitReads,
     ReceiveReads DEF Next

(* In a conversation every payload is readable. *)
LEMMA ReadInvReadable == SecrecyInv /\ ReadInv => PayloadsStayReadable
<1> SUFFICES ASSUME SecrecyInv, ReadInv, NEW m \in net,
                    m.x3dh = None, session[m.to][m.from] # None,
                    m.key \notin opened[m.to],
                    session[m.to][m.from].root_key.sk = m.key.root.sk
             PROVE  LET st    == session[m.to][m.from]
                        fresh == RatchetKey(m.to, keygen[m.to])
                    IN  Opens(st, m.hdr, m.key, fresh) \/ TooFarAhead(st, m)
  BY DEF PayloadsStayReadable
<1>1. /\ m.from \in User /\ m.to \in User /\ m.from # m.to /\ m # None
      /\ keygen[m.to] \in Nat
  BY SecrecyTypes, NoneIsNoPayload DEF Payload, ReadInv, OwnMail
<1>2. m \in Mail(m.from, m.to)
  BY <1>1 DEF Mail
<1>3. Converse(m.from, m.to)
  BY <1>1 DEF ReadInv
<1>4. RatchetKey(m.to, keygen[m.to]) \in Key
  BY <1>1 DEF RatchetKey, Key, Kind
<1> QED
  BY <1>2, <1>3, <1>4, MailIsReadable DEF Converse

(* While the relay has prekeys, a payload of a session that was not opened *)
(* can be: whatever was lost, repeated or reordered, whatever either side  *)
(* sent since, and whenever a process died.  Excused are only payloads     *)
(* more than MAX_SKIP keys ahead: in the chain the session receives, or in *)
(* a later chain, numbered above MAX_SKIP or with more than MAX_SKIP of    *)
(* the chain before it missing.                                            *)
THEOREM UnreadIsReadable == Spec /\ []AlwaysAPrekey => []PayloadsStayReadable
<1>1. SecrecyInv /\ AlwaysAPrekey /\ SecretsWithPrekey /\ [Next]_vars
      => SecretsWithPrekey'
  BY PrekeysStepKept
<1>2. SecrecyInv /\ SecretsWithPrekey /\ ReadInv /\ [Next]_vars => ReadInv'
  BY ReadStep
<1> QED
  BY SecrecyInvInit, SecrecyInvStep, PrekeysInit, ReadInit, ReadInvReadable,
     <1>1, <1>2, PTL DEF Spec
=============================================================================
