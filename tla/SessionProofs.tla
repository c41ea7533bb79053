--------------------------- MODULE SessionProofs ---------------------------
(***************************************************************************)
(* Theorems about Session, for every set of users and every bound.         *)
(***************************************************************************)
EXTENDS Session, RatchetProofs, SequenceTheorems

-----------------------------------------------------------------------------
(* Types. *)

(* A bundle that is served has the right type. *)
LEMMA PublicBundleType ==
    ASSUME NEW q \in User, NEW g \in Nat, NEW S \in SUBSET Nat
    PROVE  PublicBundle(q, g, IF S = {} THEN {} ELSE {FirstOpk(S)}) \in Bundle
<1>1. S # {} => FirstOpk(S) \in Nat
  BY FirstOpkIsMember
<1>2. IK(q, g) \in Key /\ SPK(q, g) \in Key
  BY DEF IK, SPK, Key, Kind
<1> QED
  BY <1>1, <1>2 DEF PublicBundle, Bundle

(* What an initiator computes from a bundle. *)
LEMMA InitiatorType ==
    ASSUME NEW p \in User, NEW g \in Nat, NEW b \in Bundle, NEW i \in Nat
    PROVE  /\ X3dhSecretSend(IK(p, g), b, EK(p, i)) \in SecretKey
           /\ X3dhHeaderSend(IK(p, g), b, EK(p, i)) \in X3dhHeader
           /\ WellFormed(InitSender(X3dhSecretSend(IK(p, g), b, EK(p, i)),
                                    b.spk, RatchetKey(p, i)))
<1> DEFINE ik == IK(p, g)
           ek == EK(p, i)
<1>1. /\ ik \in Key /\ ek \in Key /\ RatchetKey(p, i) \in Key
      /\ b.ik \in Key /\ b.spk \in Key /\ b.opks \in SUBSET Nat
  BY DEF IK, EK, RatchetKey, Key, Kind, Bundle
<1>2. ChosenOpk(b) \in Nat \cup {None}
  BY <1>1, FirstOpkIsMember DEF ChosenOpk
<1>3. b.spk.owner \in User /\ b.spk.gen \in Nat
  BY <1>1 DEF Key
<1>4. ChosenOpk(b) # None => BundleOpk(b) \in Key
  BY <1>2, <1>3 DEF BundleOpk, OPK, Key, Kind
<1> HIDE DEF ik, ek
<1>5. X3dhSecretSend(ik, b, ek) \in SecretKey
  BY <1>1, <1>4 DEF X3dhSecretSend, SecretKey, DH
<1>6. X3dhHeaderSend(ik, b, ek) \in X3dhHeader
  BY <1>1, <1>2 DEF X3dhHeaderSend, X3dhHeader
<1>7. WellFormed(InitSender(X3dhSecretSend(ik, b, ek), b.spk, RatchetKey(p, i)))
  BY <1>1, <1>5, InitSenderType
<1> QED
  BY <1>5, <1>6, <1>7 DEF ik, ek

(* What a responder computes from a header. *)
LEMMA ResponderType ==
    ASSUME NEW p \in User, NEW g \in Nat, NEW header \in X3dhHeader
    PROVE  WellFormed(InitReceiver(X3dhSecretReceive(p, g, header), SPK(p, g)))
<1>1. /\ IK(p, g) \in Key /\ SPK(p, g) \in Key
      /\ header.ik \in Key /\ header.ek \in Key
      /\ header.opk_id \in Nat \cup {None}
  BY DEF IK, SPK, Key, Kind, X3dhHeader
<1>2. header.opk_id # None => OPK(p, g, header.opk_id) \in Key
  BY <1>1 DEF OPK, Key, Kind
<1>3. X3dhSecretReceive(p, g, header) \in SecretKey
  BY <1>1, <1>2 DEF X3dhSecretReceive, SecretKey, DH
<1> QED
  BY <1>1, <1>3, InitReceiverType

-----------------------------------------------------------------------------
(* The inductive invariant: types, and no receive chain without a remote   *)
(* key to file skipped keys under.                                         *)
SessionsWellFormed ==
    \A p, q \in User : session[p][q] # None => WellFormed(session[p][q])

TypeInv == TypeOK /\ SessionsWellFormed

(* Sealing a text in a well-formed state keeps the types. *)
LEMMA SealType ==
    ASSUME TypeInv, NEW p \in User, NEW q \in User,
           NEW st, WellFormed(st), CanEncrypt(st),
           NEW x3dh \in X3dhHeader \cup {None}, Seal(p, q, st, x3dh)
    PROVE  /\ session' \in [User -> [User -> RatchetState \cup {None}]]
           /\ SessionsWellFormed'
           /\ typed' \in [User -> Nat]
           /\ sealed' \in SUBSET [key : MessageKey, text : Text]
           /\ outbox' \in [User -> Payload \cup {None}]
<1> DEFINE text == [from |-> p, to |-> q, no |-> typed[p]]
           m    == [from |-> p, to |-> q, hdr |-> SealedHeader(st),
                    x3dh |-> x3dh, key |-> SealingKey(st), text |-> text]
<1>1. /\ WellFormed(AfterEncrypt(st)) /\ SealingKey(st) \in MessageKey
      /\ SealedHeader(st) \in Header
  BY AfterEncryptType
<1>2. text \in Text
  BY DEF Text, TypeInv, TypeOK
<1>3. m \in Payload
  BY <1>1, <1>2 DEF Payload
<1>4. /\ session' = [session EXCEPT ![p][q] = AfterEncrypt(st)]
      /\ typed' = [typed EXCEPT ![p] = @ + 1]
      /\ sealed' = sealed \cup {[key |-> SealingKey(st), text |-> text]}
      /\ outbox' = [outbox EXCEPT ![p] = m]
  BY DEF Seal, SaveSession
<1> HIDE DEF m, text
<1>5. AfterEncrypt(st) \in RatchetState
  BY <1>1 DEF WellFormed
<1>6. session' \in [User -> [User -> RatchetState \cup {None}]]
  BY <1>4, <1>5 DEF TypeInv, TypeOK
<1>7. SessionsWellFormed'
  BY <1>1, <1>4 DEF SessionsWellFormed, TypeInv, TypeOK
<1>8. /\ typed' \in [User -> Nat]
      /\ sealed' \in SUBSET [key : MessageKey, text : Text]
      /\ outbox' \in [User -> Payload \cup {None}]
  BY <1>1, <1>2, <1>3, <1>4 DEF TypeInv, TypeOK
<1> QED
  BY <1>6, <1>7, <1>8

(* Storing a well-formed state keeps the types. *)
LEMMA StoreType ==
    ASSUME TypeInv, NEW p \in User, NEW q \in User, NEW st, WellFormed(st),
           session' = [session EXCEPT ![p][q] = st]
    PROVE  /\ session' \in [User -> [User -> RatchetState \cup {None}]]
           /\ SessionsWellFormed'
<1>1. st \in RatchetState
  BY DEF WellFormed
<1> QED
  BY <1>1 DEF SessionsWellFormed, TypeInv, TypeOK

(* The state a user who awaits a bundle saves. *)
LEMMA InitiatorStateType ==
    ASSUME TypeInv, NEW p \in User, awaiting[p] # None
    PROVE  /\ awaiting[p].peer \in User
           /\ WellFormed(InitiatorState(p))
           /\ CanEncrypt(InitiatorState(p))
           /\ X3dhHeaderSend(IK(p, identity[p]), awaiting[p].bundle,
                             EK(p, keygen[p])) \in X3dhHeader
<1>1. /\ awaiting[p].peer \in User /\ awaiting[p].bundle \in Bundle
      /\ keygen[p] \in Nat /\ identity[p] \in Nat
  BY DEF TypeInv, TypeOK
<1>2. WellFormed(InitiatorState(p))
  BY <1>1, InitiatorType DEF InitiatorState
<1>3. InitiatorState(p).send_ck = FirstChainKey(InitiatorState(p).root_key)
  BY DEF InitiatorState, InitSender
<1>4. FirstChainKey(InitiatorState(p).root_key) \in ChainKey
  BY <1>2, FirstChainKeyType DEF WellFormed, RatchetState
<1>5. CanEncrypt(InitiatorState(p))
  BY <1>3, <1>4, NoneIsNoChainKey DEF CanEncrypt
<1> QED
  BY <1>1, <1>2, <1>5, InitiatorType

(* The state an accepted payload is decrypted with. *)
LEMMA ReceiverStateType ==
    ASSUME TypeInv, NEW p \in User, NEW m \in net, Accepts(p, m)
    PROVE  WellFormed(ReceiverState(p, m))
<1>1. /\ m.from \in User /\ m.x3dh \in X3dhHeader \cup {None}
      /\ identity[p] \in Nat
  BY DEF TypeInv, TypeOK, Payload
<1>2. CASE m.x3dh = None
  BY <1>1, <1>2 DEF ReceiverState, Accepts, HasSession, TypeInv, SessionsWellFormed
<1>3. CASE m.x3dh # None
  BY <1>1, <1>3, ResponderType DEF ReceiverState
<1> QED
  BY <1>2, <1>3

(* The types hold at the start. *)
LEMMA TypeInvInit == Init => TypeInv
<1> SUFFICES ASSUME Init PROVE TypeInv
  OBVIOUS
<1>1. GeneratedOpks(NumOpks) \in SUBSET Nat
  BY SessionAssumption DEF GeneratedOpks
<1> QED
  BY <1>1 DEF Init, TypeInv, TypeOK, SessionsWellFormed

(* Every step keeps the types. *)
LEMMA TypeInvStep == TypeInv /\ [Next]_vars => TypeInv'
<1> SUFFICES ASSUME TypeInv, [Next]_vars PROVE TypeInv'
  OBVIOUS
<1> USE DEF TypeInv
<1>1. ASSUME NEW p \in User, Publish(p) PROVE TypeInv'
  BY <1>1 DEF Publish, TypeOK, SessionsWellFormed, history
<1>2. ASSUME NEW p \in User, NEW q \in User, GetBundle(p, q) PROVE TypeInv'
  <2> DEFINE served == IF stock[q] = {} THEN {} ELSE {FirstOpk(stock[q])}
             b      == PublicBundle(q, published[q], served)
  <2>1. b \in Bundle
    BY PublicBundleType DEF TypeOK
  <2>2. /\ awaiting' = [awaiting EXCEPT ![p] = [peer |-> q, bundle |-> b]]
        /\ stock' = [stock EXCEPT ![q] = @ \ served]
        /\ UNCHANGED <<session, identity, opks, published, outbox, net, keygen,
                       typed, crashes, sealed, opened, shown>>
    BY <1>2 DEF GetBundle, history
  <2> HIDE DEF served, b
  <2> QED
    BY <2>1, <2>2 DEF TypeOK, SessionsWellFormed
<1>3. ASSUME NEW p \in User, NEW q \in User, Send(p, q) PROVE TypeInv'
  <2>1. /\ WellFormed(session[p][q]) /\ CanEncrypt(session[p][q])
        /\ Seal(p, q, session[p][q], None)
        /\ UNCHANGED <<identity, opks, published, stock, awaiting, net, keygen,
                       crashes, opened, shown>>
    BY <1>3 DEF Send, HasSession, SessionsWellFormed, bundles
  <2>2. /\ session' \in [User -> [User -> RatchetState \cup {None}]]
        /\ SessionsWellFormed'
        /\ typed' \in [User -> Nat]
        /\ sealed' \in SUBSET [key : MessageKey, text : Text]
        /\ outbox' \in [User -> Payload \cup {None}]
    BY <2>1, SealType
  <2> QED
    BY <2>1, <2>2 DEF TypeOK
<1>4. ASSUME NEW p \in User, Initiate(p) PROVE TypeInv'
  <2> DEFINE q == awaiting[p].peer
             h == X3dhHeaderSend(IK(p, identity[p]), awaiting[p].bundle,
                                 EK(p, keygen[p]))
  <2>1. /\ q \in User /\ h \in X3dhHeader
        /\ WellFormed(InitiatorState(p)) /\ CanEncrypt(InitiatorState(p))
    BY <1>4, InitiatorStateType DEF Initiate
  <2>2. /\ Seal(p, q, InitiatorState(p), h)
        /\ keygen' = [keygen EXCEPT ![p] = @ + 1]
        /\ awaiting' = [awaiting EXCEPT ![p] = None]
        /\ UNCHANGED <<identity, opks, published, stock, net, crashes, opened,
                       shown>>
    BY <1>4 DEF Initiate, bundles
  <2> HIDE DEF q, h
  <2>3. /\ session' \in [User -> [User -> RatchetState \cup {None}]]
        /\ SessionsWellFormed'
        /\ typed' \in [User -> Nat]
        /\ sealed' \in SUBSET [key : MessageKey, text : Text]
        /\ outbox' \in [User -> Payload \cup {None}]
    BY <2>1, <2>2, SealType
  <2>4. /\ keygen' \in [User -> Nat]
        /\ awaiting' \in [User -> [peer : User, bundle : Bundle] \cup {None}]
    BY <2>2 DEF TypeOK
  <2>5. /\ opks' \in [User -> SUBSET Nat] /\ stock' \in [User -> SUBSET Nat]
        /\ identity' \in [User -> Nat] /\ published' \in [User -> Nat]
        /\ net' \in SUBSET Payload /\ crashes' \in Nat
        /\ opened' \in [User -> SUBSET MessageKey]
        /\ shown' \in [User -> Seq(Text)]
    BY <2>2 DEF TypeOK
  <2> QED
    BY <2>3, <2>4, <2>5 DEF TypeOK
<1>5. ASSUME NEW p \in User, Transmit(p) PROVE TypeInv'
  BY <1>5 DEF Transmit, TypeOK, SessionsWellFormed, history, bundles
<1>6. ASSUME NEW p \in User, NEW m \in net, Receive(p, m) PROVE TypeInv'
  <2> DEFINE st    == ReceiverState(p, m)
             fresh == RatchetKey(p, keygen[p])
             opens == Opens(st, m.hdr, m.key, fresh)
             after == IF opens THEN AfterDecrypt(st, m.hdr, fresh) ELSE st
  <2>1. /\ m \in Payload /\ m.from \in User /\ m.hdr \in Header
        /\ m.key \in MessageKey /\ m.text \in Text
        /\ m.x3dh \in X3dhHeader \cup {None}
    BY DEF TypeOK, Payload
  <2>2. fresh \in Key
    BY DEF TypeOK, RatchetKey, Key, Kind
  <2>3. WellFormed(st)
    BY <1>6, ReceiverStateType DEF Receive
  <2>4. WellFormed(after)
    BY <2>1, <2>2, <2>3, AfterDecryptType DEF Opens
  <2>5. /\ session' = [session EXCEPT ![p][m.from] = after]
        /\ opks' = [opks EXCEPT ![p] = OpksAfter(p, m)]
        /\ keygen' = [keygen EXCEPT
                        ![p] = IF after.dh_self = fresh THEN @ + 1 ELSE @]
        /\ opened' = [opened EXCEPT ![p] = IF opens THEN @ \cup {m.key} ELSE @]
        /\ shown' = [shown EXCEPT ![p] = IF opens THEN Append(@, m.text) ELSE @]
        /\ UNCHANGED <<identity, published, stock, awaiting, outbox, net, typed,
                       crashes, sealed>>
    BY <1>6 DEF Receive, SaveSession, bundles
  <2> HIDE DEF st, fresh, opens, after
  <2>6. /\ session' \in [User -> [User -> RatchetState \cup {None}]]
        /\ SessionsWellFormed'
    BY <2>1, <2>4, <2>5, StoreType
  <2>7. opks' \in [User -> SUBSET Nat]
    BY <2>5 DEF TypeOK, OpksAfter, PopOpk
  <2>8. keygen' \in [User -> Nat]
    BY <2>5 DEF TypeOK
  <2>9. opened' \in [User -> SUBSET MessageKey]
    BY <2>1, <2>5 DEF TypeOK
  <2>10. shown' \in [User -> Seq(Text)]
    BY <2>1, <2>5 DEF TypeOK
  <2> QED
    BY <2>5, <2>6, <2>7, <2>8, <2>9, <2>10 DEF TypeOK
<1>7. ASSUME NEW p \in User, Die(p),
             opks' \in [User -> SUBSET Nat], keygen' \in [User -> Nat],
             session' \in [User -> [User -> RatchetState \cup {None}]],
             SessionsWellFormed'
      PROVE  TypeInv'
  BY <1>7 DEF Die, TypeOK, history, bundles
<1>8. ASSUME NEW p \in User, Crash(p) PROVE TypeInv'
  BY <1>7, <1>8 DEF Crash, TypeOK, SessionsWellFormed
<1>9. ASSUME NEW p \in User, CrashInInitiate(p) PROVE TypeInv'
  <2>1. /\ awaiting[p].peer \in User /\ WellFormed(InitiatorState(p))
        /\ session' = [session EXCEPT ![p][awaiting[p].peer] = InitiatorState(p)]
    BY <1>9, InitiatorStateType DEF CrashInInitiate, SaveSession
  <2>2. /\ session' \in [User -> [User -> RatchetState \cup {None}]]
        /\ SessionsWellFormed'
    BY <2>1, StoreType
  <2>3. /\ opks' \in [User -> SUBSET Nat] /\ keygen' \in [User -> Nat]
    BY <1>9 DEF CrashInInitiate, TypeOK
  <2> QED
    BY <1>7, <1>9, <2>2, <2>3 DEF CrashInInitiate
<1>10. ASSUME NEW p \in User, NEW m \in net, CrashAfterPop(p, m) PROVE TypeInv'
  <2>1. /\ opks' \in [User -> SUBSET Nat] /\ keygen' \in [User -> Nat]
        /\ session' = session
    BY <1>10 DEF CrashAfterPop, TypeOK, OpksAfter, PopOpk
  <2>2. SessionsWellFormed'
    BY <2>1 DEF SessionsWellFormed
  <2> QED
    BY <1>7, <1>10, <2>1, <2>2 DEF CrashAfterPop, TypeOK
<1>11. ASSUME NEW p \in User, NEW m \in net, CrashAfterRespond(p, m) PROVE TypeInv'
  <2>1. WellFormed(ReceiverState(p, m)) /\ m.from \in User
    BY <1>11, ReceiverStateType DEF CrashAfterRespond, TypeOK, Payload
  <2>2. /\ session' \in [User -> [User -> RatchetState \cup {None}]]
        /\ SessionsWellFormed'
    BY <1>11, <2>1, StoreType DEF CrashAfterRespond, SaveSession
  <2>3. /\ opks' \in [User -> SUBSET Nat] /\ keygen' \in [User -> Nat]
    BY <1>11 DEF CrashAfterRespond, TypeOK, OpksAfter, PopOpk
  <2> QED
    BY <1>7, <1>11, <2>2, <2>3 DEF CrashAfterRespond
<1>12. CASE UNCHANGED vars
  BY <1>12 DEF vars, bundles, TypeOK, SessionsWellFormed
<1>13. ASSUME NEW p \in User, Register(p) PROVE TypeInv'
  <2>1. GeneratedOpks(NumOpks) \in SUBSET Nat
    BY SessionAssumption DEF GeneratedOpks
  <2> QED
    BY <1>13, <2>1 DEF Register, TypeOK, SessionsWellFormed, history, bundles
<1> QED
  BY <1>13, <1>1, <1>2, <1>3, <1>4, <1>5, <1>6, <1>8, <1>9, <1>10, <1>11, <1>12 DEF Next

(* The state of every user, and what is on its way, has the right type,    *)
(* whatever the number of users, prekeys, messages and crashes.            *)
THEOREM TypeCorrect == Spec => []TypeOK
<1>1. TypeInv => TypeOK
  BY DEF TypeInv
<1> QED
  BY TypeInvInit, TypeInvStep, <1>1, PTL DEF Spec

-----------------------------------------------------------------------------
(* No message key seals two texts.  A send chain hangs on a root key that  *)
(* a fresh ratchet key went into, so no other chain can have that root;    *)
(* and of the keys of one chain only those behind its head have been used. *)
(* "Fresh" is said with the counters kg of generated key pairs.            *)

(* Key k is not a ratchet key that is yet to be generated. *)
KeyIn(kg, k) == k.kind = "dh" => k.id < kg[k.owner]

(* Only such keys went into a root key, or are in a ratchet state. *)
RootIn(kg, root) ==
    \A i \in 1 .. Len(root.dhs) : \A k \in root.dhs[i] : KeyIn(kg, k)

StateIn(kg, st) ==
    /\ KeyIn(kg, st.dh_self)
    /\ st.dh_remote # None => KeyIn(kg, st.dh_remote)
    /\ RootIn(kg, st.root_key)
    /\ st.send_ck # None => RootIn(kg, st.send_ck.root)

(* Generating more keys takes none of them back. *)
LEMMA MoreKeys ==
    ASSUME NEW kg \in [User -> Nat], NEW kh \in [User -> Nat],
           \A u \in User : kg[u] <= kh[u]
    PROVE  /\ \A k \in Key : KeyIn(kg, k) => KeyIn(kh, k)
           /\ \A root \in RootKey : RootIn(kg, root) => RootIn(kh, root)
           /\ \A st \in RatchetState : StateIn(kg, st) => StateIn(kh, st)
<1>1. ASSUME NEW k \in Key, KeyIn(kg, k) PROVE KeyIn(kh, k)
  <2>1. k.owner \in User /\ k.id \in Nat
    BY DEF Key
  <2>2. kg[k.owner] \in Nat /\ kh[k.owner] \in Nat /\ kg[k.owner] <= kh[k.owner]
    BY <2>1
  <2> QED
    BY <1>1, <2>1, <2>2 DEF KeyIn
<1>2. ASSUME NEW root \in RootKey, RootIn(kg, root) PROVE RootIn(kh, root)
  <2>1. root.dhs \in Seq(SUBSET Key)
    BY DEF RootKey
  <2>2. ASSUME NEW i \in 1 .. Len(root.dhs), NEW k \in root.dhs[i]
        PROVE  KeyIn(kh, k)
    <3>1. k \in Key
      BY <2>1, ElementOfSeq
    <3> QED
      BY <1>1, <1>2, <3>1 DEF RootIn
  <2> QED
    BY <2>2 DEF RootIn
<1>3. ASSUME NEW st \in RatchetState, StateIn(kg, st) PROVE StateIn(kh, st)
  <2>1. /\ st.dh_self \in Key /\ st.root_key \in RootKey
        /\ st.dh_remote # None => st.dh_remote \in Key
        /\ st.send_ck # None => st.send_ck.root \in RootKey
    BY DEF RatchetState, ChainKey
  <2> QED
    BY <1>1, <1>2, <1>3, <2>1 DEF StateIn
<1> QED
  BY <1>1, <1>2, <1>3

(* A root key into which a fresh ratchet key goes is new. *)
LEMMA FreshRoot ==
    ASSUME NEW kg \in [User -> Nat], NEW p \in User,
           NEW root \in RootKey, RootIn(kg, root),
           NEW remote \in Key, KeyIn(kg, remote)
    PROVE  LET fresh == RatchetKey(p, kg[p])
               kh    == [kg EXCEPT ![p] = @ + 1]
               new   == KdfRk(root, DH(fresh, remote))
           IN  /\ KeyIn(kh, fresh) /\ ~ KeyIn(kg, fresh)
               /\ RootIn(kh, new) /\ ~ RootIn(kg, new)
<1> DEFINE fresh == RatchetKey(p, kg[p])
           kh    == [kg EXCEPT ![p] = @ + 1]
           new   == KdfRk(root, DH(fresh, remote))
<1>1. fresh \in Key /\ KeyIn(kh, fresh) /\ ~ KeyIn(kg, fresh)
  BY DEF RatchetKey, Key, Kind, KeyIn
<1>2. kh \in [User -> Nat] /\ \A u \in User : kg[u] <= kh[u]
  OBVIOUS
<1>3. RootIn(kh, root) /\ KeyIn(kh, remote)
  BY <1>2, MoreKeys
<1> DEFINE dh == DH(fresh, remote)
<1>4. dh \in SUBSET Key /\ \A k \in dh : KeyIn(kh, k)
  BY <1>1, <1>3 DEF DH
<1>5. fresh \in dh
  BY DEF DH
<1>6. root.dhs \in Seq(SUBSET Key) /\ new.dhs = Append(root.dhs, dh)
  BY <1>4, KdfRkType DEF RootKey
<1>7. /\ Len(new.dhs) = Len(root.dhs) + 1
      /\ new.dhs[Len(root.dhs) + 1] = dh
      /\ \A i \in 1 .. Len(root.dhs) : new.dhs[i] = root.dhs[i]
      /\ Len(root.dhs) \in Nat
  <2> HIDE DEF new, dh
  <2> QED
    BY <1>4, <1>6
<1> HIDE DEF new, dh, kh, fresh
<1>8. RootIn(kh, new)
  BY <1>3, <1>4, <1>7 DEF RootIn
<1>9. ~ RootIn(kg, new)
  BY <1>1, <1>5, <1>7 DEF RootIn
<1> QED
  BY <1>1, <1>8, <1>9 DEF new, dh, kh, fresh

(* An initiator's first state hangs on a fresh root key. *)
LEMMA InitSenderFresh ==
    ASSUME NEW kg \in [User -> Nat], NEW p \in User, NEW sk \in SecretKey,
           NEW remote \in Key, KeyIn(kg, remote)
    PROVE  LET kh == [kg EXCEPT ![p] = @ + 1]
               st == InitSender(sk, remote, RatchetKey(p, kg[p]))
           IN  StateIn(kh, st) /\ ~ RootIn(kg, st.send_ck.root)
<1> DEFINE kh    == [kg EXCEPT ![p] = @ + 1]
           fresh == RatchetKey(p, kg[p])
           root0 == [sk |-> sk, dhs |-> << >>]
           root  == KdfRk(root0, DH(fresh, remote))
           st    == InitSender(sk, remote, fresh)
<1>1. root0 \in RootKey /\ RootIn(kg, root0)
  BY DEF RootKey, RootIn
<1>2. KeyIn(kh, fresh) /\ RootIn(kh, root) /\ ~ RootIn(kg, root)
  BY <1>1, FreshRoot
<1>3. /\ kh \in [User -> Nat] /\ \A u \in User : kg[u] <= kh[u]
  OBVIOUS
<1>4. KeyIn(kh, remote)
  BY <1>3, MoreKeys
<1>5. /\ st.dh_self = fresh /\ st.dh_remote = remote /\ st.root_key = root
      /\ st.send_ck.root = root
  BY DEF InitSender, FirstChainKey
<1> HIDE DEF root, st, kh, fresh
<1> QED
  BY <1>2, <1>4, <1>5 DEF StateIn, root, st, kh, fresh

(* Decrypting leaves the send chain alone, or hangs it on a fresh root.    *)
LEMMA AfterDecryptFresh ==
    ASSUME NEW kg \in [User -> Nat], NEW p \in User,
           NEW st, WellFormed(st), StateIn(kg, st),
           NEW hdr \in Header, KeyIn(kg, hdr.dh_pub),
           ~ Raises(st, hdr, RatchetKey(p, kg[p]))
    PROVE  LET fresh == RatchetKey(p, kg[p])
               kh    == [kg EXCEPT ![p] = @ + 1]
               new   == AfterDecrypt(st, hdr, fresh)
           IN  \/ /\ new.dh_self # fresh
                  /\ new.send_ck = st.send_ck
                  /\ StateIn(kg, new)
               \/ /\ new.dh_self = fresh
                  /\ StateIn(kh, new)
                  /\ ~ RootIn(kg, new.send_ck.root)
<1> DEFINE fresh == RatchetKey(p, kg[p])
           kh    == [kg EXCEPT ![p] = @ + 1]
           new   == AfterDecrypt(st, hdr, fresh)
           remote == hdr.dh_pub
           recv_root == KdfRk(st.root_key, DH(st.dh_self, remote))
           send_root == KdfRk(recv_root, DH(fresh, remote))
<1>1. /\ fresh \in Key /\ remote \in Key
      /\ st.dh_self \in Key /\ st.root_key \in RootKey
  BY DEF RatchetKey, Key, Kind, Header, WellFormed, RatchetState
<1>2. KeyIn(kg, st.dh_self) /\ KeyIn(kg, remote) /\ RootIn(kg, st.root_key)
  BY DEF StateIn
<1>3. ~ KeyIn(kg, fresh)
  BY DEF KeyIn, RatchetKey
<1>4. recv_root \in RootKey /\ RootIn(kg, recv_root)
  <2> DEFINE dh == DH(st.dh_self, remote)
  <2>1. dh \in SUBSET Key /\ \A k \in dh : KeyIn(kg, k)
    BY <1>1, <1>2 DEF DH
  <2>2. /\ recv_root \in RootKey
        /\ recv_root.dhs = Append(st.root_key.dhs, dh)
        /\ st.root_key.dhs \in Seq(SUBSET Key)
    BY <1>1, <2>1, KdfRkType DEF RootKey
  <2> HIDE DEF dh, recv_root
  <2>3. /\ Len(recv_root.dhs) = Len(st.root_key.dhs) + 1
        /\ recv_root.dhs[Len(st.root_key.dhs) + 1] = dh
        /\ \A i \in 1 .. Len(st.root_key.dhs) : recv_root.dhs[i] = st.root_key.dhs[i]
        /\ Len(st.root_key.dhs) \in Nat
    BY <2>1, <2>2
  <2> QED
    BY <1>2, <2>1, <2>2, <2>3 DEF RootIn
<1> HIDE DEF recv_root
<1>5. /\ KeyIn(kh, fresh) /\ RootIn(kh, send_root) /\ ~ RootIn(kg, send_root)
  BY <1>1, <1>2, <1>4, FreshRoot
<1>6. KeyIn(kh, remote)
  <2>1. kh \in [User -> Nat] /\ \A u \in User : kg[u] <= kh[u]
    OBVIOUS
  <2> QED
    BY <1>1, <1>2, <2>1, MoreKeys
<1>7. \/ /\ new.dh_self = st.dh_self /\ new.dh_remote = st.dh_remote
         /\ new.root_key = st.root_key /\ new.send_ck = st.send_ck
      \/ /\ new.dh_self = fresh /\ new.dh_remote = remote
         /\ new.root_key = send_root
         /\ new.send_ck = FirstChainKey(send_root)
  BY <1>1, AfterDecryptType DEF recv_root
<1>8. FirstChainKey(send_root).root = send_root
  BY DEF FirstChainKey
<1> HIDE DEF new, kh, fresh, remote, send_root
<1>9. CASE /\ new.dh_self = st.dh_self /\ new.dh_remote = st.dh_remote
           /\ new.root_key = st.root_key /\ new.send_ck = st.send_ck
  <2>1. new.dh_self # fresh
    BY <1>2, <1>3, <1>9
  <2>2. StateIn(kg, new)
    BY <1>9 DEF StateIn
  <2> QED
    BY <1>9, <2>1, <2>2 DEF new, kh, fresh, remote
<1>10. CASE /\ new.dh_self = fresh /\ new.dh_remote = remote
            /\ new.root_key = send_root
            /\ new.send_ck = FirstChainKey(send_root)
  <2>1. StateIn(kh, new) /\ ~ RootIn(kg, new.send_ck.root)
    BY <1>5, <1>6, <1>8, <1>10 DEF StateIn
  <2> QED
    BY <1>10, <2>1 DEF new, kh, fresh, remote
<1> QED
  BY <1>7, <1>9, <1>10

-----------------------------------------------------------------------------
HasSendChain(p, q) == session[p][q] # None /\ session[p][q].send_ck # None

(* Every ratchet key there is has been generated. *)
KeysGenerated ==
    /\ \A p, q \in User : session[p][q] # None => StateIn(keygen, session[p][q])
    /\ \A p \in User : awaiting[p] # None => KeyIn(keygen, awaiting[p].bundle.spk)
    /\ \A p \in User : outbox[p] # None => KeyIn(keygen, outbox[p].hdr.dh_pub)
    /\ \A m \in net : KeyIn(keygen, m.hdr.dh_pub)
    /\ \A s \in sealed : RootIn(keygen, s.key.root)

(* No two sessions have a send chain in common. *)
ChainsApart ==
    \A p, q, u, v \in User :
        (/\ HasSendChain(p, q) /\ HasSendChain(u, v)
         /\ session[p][q].send_ck.root = session[u][v].send_ck.root)
        => p = u /\ q = v

(* The keys of a send chain that were used are behind its head. *)
SealedBehind ==
    \A p, q \in User : HasSendChain(p, q) =>
        \A s \in sealed :
            s.key.root = session[p][q].send_ck.root
                => s.key.n < session[p][q].send_ck.n

KeyInv == TypeInv /\ KeysGenerated /\ ChainsApart /\ SealedBehind /\ NoKeyReuse

(* The send chain of st may go where that of p for q is: it is the same,   *)
(* or nobody has its root yet.                                             *)
MayFollow(p, q, st) ==
    st.send_ck # None =>
        \/ HasSendChain(p, q) /\ st.send_ck = session[p][q].send_ck
        \/ ~ RootIn(keygen, st.send_ck.root)

(* Storing such a state keeps the chains apart and ahead. *)
LEMMA StoreKeepsChains ==
    ASSUME KeyInv, NEW p \in User, NEW q \in User,
           NEW st, MayFollow(p, q, st),
           session' = [session EXCEPT ![p][q] = st], sealed' = sealed
    PROVE  ChainsApart' /\ SealedBehind' /\ NoKeyReuse'
<1>1. /\ session'[p][q] = st
      /\ \A u, v \in User : <<u, v>> # <<p, q>> => session'[u][v] = session[u][v]
  BY DEF KeyInv, TypeInv, TypeOK
<1>2. ASSUME NEW u \in User, NEW v \in User, HasSendChain(u, v),
             <<u, v>> # <<p, q>>, st.send_ck # None
      PROVE  st.send_ck.root # session[u][v].send_ck.root
  <2>1. RootIn(keygen, session[u][v].send_ck.root)
    BY <1>2 DEF HasSendChain, KeyInv, KeysGenerated, StateIn
  <2> QED
    BY <1>2, <2>1 DEF MayFollow, KeyInv, ChainsApart
<1>3. ChainsApart'
  BY <1>1, <1>2 DEF ChainsApart, HasSendChain, KeyInv
<1>4. SealedBehind'
  <2>1. ASSUME NEW u \in User, NEW v \in User, HasSendChain(u, v)', NEW s \in sealed,
               s.key.root = session'[u][v].send_ck.root
        PROVE  s.key.n < session'[u][v].send_ck.n
    <3>1. RootIn(keygen, s.key.root)
      BY DEF KeyInv, KeysGenerated
    <3>2. CASE <<u, v>> # <<p, q>>
      BY <1>1, <2>1, <3>2 DEF HasSendChain, KeyInv, SealedBehind
    <3>3. CASE <<u, v>> = <<p, q>>
      BY <1>1, <2>1, <3>1, <3>3 DEF HasSendChain, MayFollow, KeyInv, SealedBehind
    <3> QED
      BY <3>2, <3>3
  <2> QED
    BY <2>1 DEF SealedBehind
<1>5. NoKeyReuse'
  BY DEF KeyInv, NoKeyReuse
<1> QED
  BY <1>3, <1>4, <1>5

(* So does sealing in such a state, and the key is a new one. *)
LEMMA SealKeepsChains ==
    ASSUME KeyInv, NEW p \in User, NEW q \in User,
           NEW st, WellFormed(st), CanEncrypt(st), MayFollow(p, q, st),
           NEW x3dh, Seal(p, q, st, x3dh)
    PROVE  ChainsApart' /\ SealedBehind' /\ NoKeyReuse'
<1> DEFINE ck  == st.send_ck
           new == [key  |-> ck,
                   text |-> [from |-> p, to |-> q, no |-> typed[p]]]
<1>1. /\ ck \in ChainKey /\ ck # None
  BY DEF WellFormed, RatchetState, CanEncrypt
<1>2. /\ session'[p][q] = AfterEncrypt(st)
      /\ \A u, v \in User : <<u, v>> # <<p, q>> => session'[u][v] = session[u][v]
      /\ sealed' = sealed \cup {new}
  BY DEF Seal, SaveSession, SealingKey, KeyInv, TypeInv, TypeOK
<1>3. session'[p][q].send_ck = KdfCk(ck)
  BY <1>2, AfterEncryptType
<1>4. /\ ck.n \in Nat /\ KdfCk(ck).root = ck.root /\ KdfCk(ck).n = ck.n + 1
  BY <1>1 DEF KdfCk, ChainKey
<1>5. ASSUME NEW s \in sealed, s.key.root = ck.root
      PROVE  s.key.n < ck.n
  <2>1. RootIn(keygen, s.key.root)
    BY DEF KeyInv, KeysGenerated
  <2> QED
    BY <1>1, <1>5, <2>1 DEF MayFollow, KeyInv, SealedBehind
<1>6. ASSUME NEW u \in User, NEW v \in User, HasSendChain(u, v),
             <<u, v>> # <<p, q>>
      PROVE  ck.root # session[u][v].send_ck.root
  <2>1. RootIn(keygen, session[u][v].send_ck.root)
    BY <1>6 DEF HasSendChain, KeyInv, KeysGenerated, StateIn
  <2> QED
    BY <1>1, <1>6, <2>1 DEF MayFollow, KeyInv, ChainsApart
<1> HIDE DEF ck
<1>7. ChainsApart'
  BY <1>2, <1>3, <1>4, <1>6 DEF ChainsApart, HasSendChain, KeyInv
<1>8. ASSUME NEW u \in User, NEW v \in User, HasSendChain(u, v)', NEW s \in sealed',
             s.key.root = session'[u][v].send_ck.root
      PROVE  s.key.n < session'[u][v].send_ck.n
  <2>1. CASE <<u, v>> = <<p, q>> /\ s \in sealed
    <3>1. s.key.n < ck.n /\ session'[u][v].send_ck.n = ck.n + 1
      BY <1>3, <1>4, <1>5, <1>8, <2>1
    <3>2. s.key.n \in Nat
      BY <2>1 DEF KeyInv, TypeInv, TypeOK, MessageKey, ChainKey
    <3> QED
      BY <1>4, <3>1, <3>2
  <2>2. CASE <<u, v>> = <<p, q>> /\ s = new
    BY <1>3, <1>4, <2>2
  <2>3. CASE <<u, v>> # <<p, q>> /\ s \in sealed
    BY <1>2, <1>8, <2>3 DEF HasSendChain, KeyInv, SealedBehind
  <2>4. CASE <<u, v>> # <<p, q>> /\ s = new
    BY <1>2, <1>6, <1>8, <2>4 DEF HasSendChain
  <2> QED
    BY <1>2, <1>8, <2>1, <2>2, <2>3, <2>4
<1>9. SealedBehind'
  BY <1>8 DEF SealedBehind
<1>10. \A s \in sealed : s.key # new.key
  <2>1. ASSUME NEW s \in sealed, s.key = ck PROVE FALSE
    BY <1>4, <1>5, <2>1
  <2> QED
    BY <2>1
<1>11. NoKeyReuse'
  BY <1>2, <1>10 DEF KeyInv, NoKeyReuse
<1> QED
  BY <1>7, <1>9, <1>11

(* KeysGenerated holds on if what a step adds is made of generated keys. *)
LEMMA KeysGeneratedStep ==
    ASSUME KeyInv, keygen' \in [User -> Nat],
           \A u \in User : keygen[u] <= keygen'[u],
           \A u, v \in User : \/ session'[u][v] = session[u][v]
                              \/ StateIn(keygen', session'[u][v]),
           \A u \in User : \/ awaiting'[u] \in {awaiting[u], None}
                           \/ KeyIn(keygen', awaiting'[u].bundle.spk),
           \A u \in User : \/ outbox'[u] \in {outbox[u], None}
                           \/ KeyIn(keygen', outbox'[u].hdr.dh_pub),
           \A m \in net' : m \in net \/ KeyIn(keygen', m.hdr.dh_pub),
           \A s \in sealed' : s \in sealed \/ RootIn(keygen', s.key.root)
    PROVE  KeysGenerated'
<1>1. /\ keygen \in [User -> Nat]
      /\ session \in [User -> [User -> RatchetState \cup {None}]]
      /\ awaiting \in [User -> [peer : User, bundle : Bundle] \cup {None}]
      /\ outbox \in [User -> Payload \cup {None}]
      /\ net \in SUBSET Payload
      /\ sealed \in SUBSET [key : MessageKey, text : Text]
      /\ KeysGenerated
  BY DEF KeyInv, TypeInv, TypeOK
<1>2. /\ \A k \in Key : KeyIn(keygen, k) => KeyIn(keygen', k)
      /\ \A root \in RootKey : RootIn(keygen, root) => RootIn(keygen', root)
      /\ \A st \in RatchetState : StateIn(keygen, st) => StateIn(keygen', st)
  BY <1>1, MoreKeys
<1>3. ASSUME NEW u \in User, NEW v \in User, session'[u][v] # None
      PROVE  StateIn(keygen', session'[u][v])
  BY <1>1, <1>2, <1>3 DEF KeysGenerated
<1>4. ASSUME NEW u \in User, awaiting'[u] # None
      PROVE  KeyIn(keygen', awaiting'[u].bundle.spk)
  <2>1. awaiting[u] # None => awaiting[u].bundle.spk \in Key
    BY <1>1 DEF Bundle
  <2> QED
    BY <1>1, <1>2, <1>4, <2>1 DEF KeysGenerated
<1>5. ASSUME NEW u \in User, outbox'[u] # None
      PROVE  KeyIn(keygen', outbox'[u].hdr.dh_pub)
  <2>1. outbox[u] # None => outbox[u].hdr.dh_pub \in Key
    BY <1>1 DEF Payload, Header
  <2> QED
    BY <1>1, <1>2, <1>5, <2>1 DEF KeysGenerated
<1>6. ASSUME NEW m \in net' PROVE KeyIn(keygen', m.hdr.dh_pub)
  <2>1. m \in net => m.hdr.dh_pub \in Key
    BY <1>1 DEF Payload, Header
  <2> QED
    BY <1>1, <1>2, <2>1 DEF KeysGenerated
<1>7. ASSUME NEW s \in sealed' PROVE RootIn(keygen', s.key.root)
  <2>1. s \in sealed => s.key.root \in RootKey
    BY <1>1 DEF MessageKey, ChainKey
  <2> QED
    BY <1>1, <1>2, <2>1 DEF KeysGenerated
<1> QED
  BY <1>3, <1>4, <1>5, <1>6, <1>7 DEF KeysGenerated

(* Sealing adds nothing but generated keys. *)
LEMMA SealGenerated ==
    ASSUME KeyInv, NEW p \in User, NEW q \in User,
           NEW st, WellFormed(st), CanEncrypt(st), StateIn(keygen', st),
           NEW x3dh, Seal(p, q, st, x3dh)
    PROVE  /\ \A u, v \in User : \/ session'[u][v] = session[u][v]
                                \/ StateIn(keygen', session'[u][v])
           /\ \A u \in User : \/ outbox'[u] \in {outbox[u], None}
                             \/ KeyIn(keygen', outbox'[u].hdr.dh_pub)
           /\ \A s \in sealed' : s \in sealed \/ RootIn(keygen', s.key.root)
<1> DEFINE new == AfterEncrypt(st)
<1>1. /\ new.dh_self = st.dh_self /\ new.dh_remote = st.dh_remote
      /\ new.root_key = st.root_key /\ new.send_ck = KdfCk(st.send_ck)
  BY AfterEncryptType
<1>2. st.send_ck \in ChainKey /\ KdfCk(st.send_ck).root = st.send_ck.root
  BY DEF WellFormed, RatchetState, CanEncrypt, KdfCk, ChainKey
<1> HIDE DEF new
<1>3. StateIn(keygen', new) /\ RootIn(keygen', st.send_ck.root)
  BY <1>1, <1>2 DEF StateIn, CanEncrypt
<1>4. \A u, v \in User : session'[u][v] \in {session[u][v], new}
  BY DEF Seal, SaveSession, KeyInv, TypeInv, TypeOK, new
<1>5. \A u \in User : \/ outbox'[u] = outbox[u]
                      \/ outbox'[u].hdr.dh_pub = st.dh_self
  BY DEF Seal, SealedHeader, KeyInv, TypeInv, TypeOK
<1>6. \A s \in sealed' : s \in sealed \/ s.key = st.send_ck
  BY DEF Seal, SealingKey
<1>7. KeyIn(keygen', st.dh_self)
  BY DEF StateIn
<1> QED
  BY <1>3, <1>4, <1>5, <1>6, <1>7

-----------------------------------------------------------------------------

(* At the start no key is in use. *)
LEMMA KeyInvInit == Init => KeyInv
<1> SUFFICES ASSUME Init PROVE KeyInv
  OBVIOUS
<1>1. /\ \A p, q \in User : session[p][q] = None
      /\ \A p \in User : awaiting[p] = None /\ outbox[p] = None
      /\ net = {} /\ sealed = {}
  BY DEF Init
<1> QED
  BY <1>1, TypeInvInit DEF KeyInv, KeysGenerated, ChainsApart, SealedBehind,
     NoKeyReuse, HasSendChain

(* A step that leaves the sessions and the sealed texts alone. *)
LEMMA ChainsUntouched ==
    ASSUME KeyInv, session' = session, sealed' = sealed
    PROVE  ChainsApart' /\ SealedBehind' /\ NoKeyReuse'
BY DEF KeyInv, ChainsApart, SealedBehind, NoKeyReuse, HasSendChain

(* A user who awaits a bundle would save a state with a fresh root. *)
LEMMA InitiatorStateFresh ==
    ASSUME KeyInv, NEW p \in User, awaiting[p] # None
    PROVE  /\ StateIn([keygen EXCEPT ![p] = @ + 1], InitiatorState(p))
           /\ ~ RootIn(keygen, InitiatorState(p).send_ck.root)
<1>1. /\ awaiting[p].peer \in User /\ awaiting[p].bundle \in Bundle
      /\ keygen \in [User -> Nat] /\ identity[p] \in Nat
  BY DEF KeyInv, TypeInv, TypeOK
<1>2. /\ awaiting[p].bundle.spk \in Key
      /\ KeyIn(keygen, awaiting[p].bundle.spk)
  BY <1>1 DEF Bundle, KeyInv, KeysGenerated
<1>3. X3dhSecretSend(IK(p, identity[p]), awaiting[p].bundle,
                     EK(p, keygen[p])) \in SecretKey
  BY <1>1, InitiatorType
<1> QED
  BY <1>1, <1>2, <1>3, InitSenderFresh DEF InitiatorState

(* The state an accepted payload is decrypted with is made of generated    *)
(* keys, and has the send chain of the stored one, or none.                *)
LEMMA ReceiverStateGenerated ==
    ASSUME KeyInv, NEW p \in User, NEW m \in net, Accepts(p, m)
    PROVE  /\ StateIn(keygen, ReceiverState(p, m))
           /\ \/ ReceiverState(p, m).send_ck = None
              \/ /\ HasSendChain(p, m.from)
                 /\ ReceiverState(p, m).send_ck = session[p][m.from].send_ck
<1>1. m.from \in User
  BY DEF KeyInv, TypeInv, TypeOK, Payload
<1>2. CASE m.x3dh = None
  BY <1>1, <1>2 DEF ReceiverState, Accepts, HasSession, KeyInv, KeysGenerated, HasSendChain
<1>3. CASE m.x3dh # None
  <2> DEFINE st == ReceiverState(p, m)
  <2>1. /\ st.send_ck = None /\ st.dh_remote = None /\ st.dh_self = SPK(p, identity[p])
        /\ st.root_key.dhs = << >>
    BY <1>3 DEF ReceiverState, InitReceiver
  <2>2. KeyIn(keygen, SPK(p, identity[p]))
    BY DEF KeyIn, SPK
  <2> HIDE DEF st
  <2>3. StateIn(keygen, st)
    BY <2>1, <2>2 DEF StateIn, RootIn
  <2> QED
    BY <2>1, <2>3 DEF st
<1> QED
  BY <1>2, <1>3

(* What processing a payload leaves: the send chain the session had, on    *)
(* the counters as they are, or one with a fresh root.                     *)
LEMMA ReceivedState ==
    ASSUME KeyInv, NEW p \in User, NEW m \in net, Receive(p, m)
    PROVE  /\ keygen' \in [User -> Nat]
           /\ \A u \in User : keygen[u] <= keygen'[u]
           /\ m.from \in User
           /\ \E new : /\ session' = [session EXCEPT ![p][m.from] = new]
                       /\ StateIn(keygen', new)
                       /\ MayFollow(p, m.from, new)
<1> DEFINE st    == ReceiverState(p, m)
           fresh == RatchetKey(p, keygen[p])
           opens == Opens(st, m.hdr, m.key, fresh)
           after == IF opens THEN AfterDecrypt(st, m.hdr, fresh) ELSE st
           kh    == [keygen EXCEPT ![p] = @ + 1]
<1>1. /\ keygen \in [User -> Nat] /\ m.from \in User /\ m.hdr \in Header
      /\ KeyIn(keygen, m.hdr.dh_pub)
  BY DEF KeyInv, TypeInv, TypeOK, Payload, KeysGenerated
<1>2. /\ session' = [session EXCEPT ![p][m.from] = after]
      /\ keygen' = [keygen EXCEPT ![p] = IF after.dh_self = fresh THEN @ + 1 ELSE @]
      /\ Accepts(p, m)
  BY DEF Receive, SaveSession
<1>3. /\ WellFormed(st) /\ StateIn(keygen, st)
      /\ \/ st.send_ck = None
         \/ HasSendChain(p, m.from) /\ st.send_ck = session[p][m.from].send_ck
  BY <1>2, ReceiverStateType, ReceiverStateGenerated DEF KeyInv
<1>4. \/ after.dh_self # fresh /\ after.send_ck = st.send_ck /\ StateIn(keygen, after)
      \/ /\ after.dh_self = fresh /\ StateIn(kh, after)
         /\ ~ RootIn(keygen, after.send_ck.root)
  <2>1. CASE opens
    <3>1. ~ Raises(st, m.hdr, fresh)
      BY <2>1 DEF Opens
    <3>2. after = AfterDecrypt(st, m.hdr, fresh)
      BY <2>1
    <3> HIDE DEF st, after, opens
    <3> QED
      BY <1>1, <1>3, <3>1, <3>2, AfterDecryptFresh
  <2>2. CASE ~ opens
    <3>1. after = st
      BY <2>2
    <3>2. ~ KeyIn(keygen, fresh)
      BY <1>1 DEF KeyIn, RatchetKey
    <3> QED
      BY <1>3, <3>1, <3>2 DEF StateIn
  <2> QED
    BY <2>1, <2>2
<1> HIDE DEF st, fresh, opens, after
<1>5. CASE after.dh_self # fresh /\ after.send_ck = st.send_ck /\ StateIn(keygen, after)
  <2>1. keygen' = keygen
    BY <1>1, <1>2, <1>5
  <2>2. MayFollow(p, m.from, after)
    BY <1>3, <1>5 DEF MayFollow
  <2>3. /\ keygen' \in [User -> Nat] /\ \A u \in User : keygen[u] <= keygen'[u]
        /\ StateIn(keygen', after)
    BY <1>1, <1>5, <2>1
  <2> QED
    BY <1>1, <1>2, <2>2, <2>3
<1>6. CASE /\ after.dh_self = fresh /\ StateIn(kh, after)
           /\ ~ RootIn(keygen, after.send_ck.root)
  <2>1. keygen' = kh
    BY <1>1, <1>2, <1>6
  <2>2. MayFollow(p, m.from, after)
    BY <1>6 DEF MayFollow
  <2>3. /\ keygen' \in [User -> Nat] /\ \A u \in User : keygen[u] <= keygen'[u]
        /\ StateIn(keygen', after)
    BY <1>1, <1>6, <2>1
  <2> QED
    BY <1>1, <1>2, <2>2, <2>3
<1> QED
  BY <1>4, <1>5, <1>6

(* Storing a state made of generated keys, with a send chain that may      *)
(* follow the stored one, and sending nothing new, keeps the invariant.    *)
LEMMA StoreStep ==
    ASSUME KeyInv, TypeInv', keygen' \in [User -> Nat],
           \A u \in User : keygen[u] <= keygen'[u],
           NEW p \in User, NEW q \in User,
           NEW st, StateIn(keygen', st), MayFollow(p, q, st),
           session' = [session EXCEPT ![p][q] = st],
           \A u \in User : awaiting'[u] \in {awaiting[u], None},
           \A u \in User : outbox'[u] \in {outbox[u], None},
           net' = net, sealed' = sealed
    PROVE  KeyInv'
<1>1. ChainsApart' /\ SealedBehind' /\ NoKeyReuse'
  BY StoreKeepsChains
<1>2. \A u, v \in User : \/ session'[u][v] = session[u][v]
                         \/ StateIn(keygen', session'[u][v])
  BY DEF KeyInv, TypeInv, TypeOK
<1>3. KeysGenerated'
  BY <1>2, KeysGeneratedStep
<1> QED
  BY <1>1, <1>3 DEF KeyInv

(* A step that only drops what waits, or touches what KeyInv leaves out.   *)
LEMMA QuietStep ==
    ASSUME KeyInv, TypeInv', keygen' = keygen,
           session' = session, sealed' = sealed,
           \A u \in User : awaiting'[u] \in {awaiting[u], None},
           \A u \in User : outbox'[u] \in {outbox[u], None},
           net' = net
    PROVE  KeyInv'
<1>1. keygen \in [User -> Nat]
  BY DEF KeyInv, TypeInv, TypeOK
<1>2. keygen' \in [User -> Nat] /\ \A u \in User : keygen[u] <= keygen'[u]
  BY <1>1
<1>3. KeysGenerated'
  BY <1>2, KeysGeneratedStep
<1> QED
  BY <1>3, ChainsUntouched DEF KeyInv

(* Every step keeps the invariant. *)
LEMMA KeyInvStep == KeyInv /\ [Next]_vars => KeyInv'
<1> SUFFICES ASSUME KeyInv, [Next]_vars PROVE KeyInv'
  OBVIOUS
<1>0. TypeInv /\ TypeInv'
  BY TypeInvStep DEF KeyInv
<1>a. /\ keygen \in [User -> Nat]
      /\ awaiting \in [User -> [peer : User, bundle : Bundle] \cup {None}]
      /\ outbox \in [User -> Payload \cup {None}]
  BY <1>0 DEF TypeInv, TypeOK
<1>1. ASSUME NEW p \in User, Publish(p) PROVE KeyInv'
  BY <1>0, <1>1, QuietStep DEF Publish, history
<1>2. ASSUME NEW p \in User, NEW q \in User, GetBundle(p, q) PROVE KeyInv'
  <2> DEFINE served == IF stock[q] = {} THEN {} ELSE {FirstOpk(stock[q])}
             a      == [peer |-> q, bundle |-> PublicBundle(q, published[q], served)]
  <2>1. /\ awaiting' = [awaiting EXCEPT ![p] = a]
        /\ UNCHANGED <<session, outbox, net, keygen, sealed>>
    BY <1>2 DEF GetBundle, history
  <2>2. KeyIn(keygen', a.bundle.spk)
    BY DEF PublicBundle, SPK, KeyIn
  <2> HIDE DEF a
  <2>3. \A u \in User : \/ awaiting'[u] \in {awaiting[u], None}
                        \/ KeyIn(keygen', awaiting'[u].bundle.spk)
    BY <1>a, <2>1, <2>2
  <2>4. keygen' \in [User -> Nat] /\ \A u \in User : keygen[u] <= keygen'[u]
    BY <1>a, <2>1
  <2>5. KeysGenerated'
    BY <2>1, <2>3, <2>4, KeysGeneratedStep
  <2> QED
    BY <1>0, <2>1, <2>5, ChainsUntouched DEF KeyInv
<1>3. ASSUME NEW p \in User, NEW q \in User, NEW st, NEW x3dh,
             WellFormed(st), CanEncrypt(st), StateIn(keygen', st),
             MayFollow(p, q, st), Seal(p, q, st, x3dh),
             keygen' \in [User -> Nat], \A u \in User : keygen[u] <= keygen'[u],
             \A u \in User : awaiting'[u] \in {awaiting[u], None}, net' = net
      PROVE  KeyInv'
  <2>1. ChainsApart' /\ SealedBehind' /\ NoKeyReuse'
    BY <1>3, SealKeepsChains
  <2>2. /\ \A u, v \in User : \/ session'[u][v] = session[u][v]
                             \/ StateIn(keygen', session'[u][v])
        /\ \A u \in User : \/ outbox'[u] \in {outbox[u], None}
                          \/ KeyIn(keygen', outbox'[u].hdr.dh_pub)
        /\ \A s \in sealed' : s \in sealed \/ RootIn(keygen', s.key.root)
    BY <1>3, SealGenerated
  <2>3. KeysGenerated'
    BY <1>3, <2>2, KeysGeneratedStep
  <2> QED
    BY <1>0, <2>1, <2>3 DEF KeyInv
<1>4. ASSUME NEW p \in User, NEW q \in User, Send(p, q) PROVE KeyInv'
  <2> DEFINE st == session[p][q]
  <2>1. /\ st # None /\ CanEncrypt(st) /\ Seal(p, q, st, None)
        /\ keygen' = keygen /\ awaiting' = awaiting /\ net' = net
    BY <1>4 DEF Send, HasSession
  <2>2. WellFormed(st) /\ StateIn(keygen, st)
    BY <1>0, <2>1 DEF TypeInv, SessionsWellFormed, KeyInv, KeysGenerated
  <2>3. MayFollow(p, q, st)
    BY <2>1 DEF MayFollow, HasSendChain
  <2> HIDE DEF st
  <2>4. keygen' \in [User -> Nat] /\ \A u \in User : keygen[u] <= keygen'[u]
    BY <1>a, <2>1
  <2> QED
    BY <1>3, <2>1, <2>2, <2>3, <2>4
<1>5. ASSUME NEW p \in User, awaiting[p] # None,
             keygen' = [keygen EXCEPT ![p] = @ + 1]
      PROVE  /\ awaiting[p].peer \in User
             /\ WellFormed(InitiatorState(p)) /\ CanEncrypt(InitiatorState(p))
             /\ StateIn(keygen', InitiatorState(p))
             /\ MayFollow(p, awaiting[p].peer, InitiatorState(p))
             /\ keygen' \in [User -> Nat]
             /\ \A u \in User : keygen[u] <= keygen'[u]
  <2>1. keygen' \in [User -> Nat] /\ \A u \in User : keygen[u] <= keygen'[u]
    BY <1>a, <1>5
  <2> QED
    BY <1>0, <1>5, <2>1, InitiatorStateType, InitiatorStateFresh DEF MayFollow
<1>6. ASSUME NEW p \in User, Initiate(p) PROVE KeyInv'
  <2> DEFINE h == X3dhHeaderSend(IK(p, identity[p]), awaiting[p].bundle,
                                 EK(p, keygen[p]))
  <2>1. /\ awaiting[p] # None
        /\ Seal(p, awaiting[p].peer, InitiatorState(p), h)
        /\ keygen' = [keygen EXCEPT ![p] = @ + 1]
        /\ awaiting' = [awaiting EXCEPT ![p] = None]
        /\ net' = net
    BY <1>6 DEF Initiate
  <2> HIDE DEF h
  <2>2. \A u \in User : awaiting'[u] \in {awaiting[u], None}
    BY <1>a, <2>1
  <2> QED
    BY <1>3, <1>5, <2>1, <2>2
<1>7. ASSUME NEW p \in User, Transmit(p) PROVE KeyInv'
  <2>1. /\ outbox[p] # None /\ net' = net \cup {outbox[p]}
        /\ outbox' = [outbox EXCEPT ![p] = None]
        /\ UNCHANGED <<session, awaiting, keygen, sealed>>
    BY <1>7 DEF Transmit, history
  <2>2. KeyIn(keygen', outbox[p].hdr.dh_pub)
    BY <2>1 DEF KeyInv, KeysGenerated
  <2>3. /\ keygen' \in [User -> Nat] /\ \A u \in User : keygen[u] <= keygen'[u]
        /\ \A u \in User : outbox'[u] \in {outbox[u], None}
        /\ \A m \in net' : m \in net \/ KeyIn(keygen', m.hdr.dh_pub)
    BY <1>a, <2>1, <2>2
  <2>4. KeysGenerated'
    BY <2>1, <2>3, KeysGeneratedStep
  <2> QED
    BY <1>0, <2>1, <2>4, ChainsUntouched DEF KeyInv
<1>8. ASSUME NEW p \in User, NEW m \in net, Receive(p, m) PROVE KeyInv'
  <2>1. UNCHANGED <<awaiting, outbox, net, sealed>>
    BY <1>8 DEF Receive, SaveSession
  <2>2. PICK st : /\ session' = [session EXCEPT ![p][m.from] = st]
                  /\ StateIn(keygen', st)
                  /\ MayFollow(p, m.from, st)
    BY <1>8, ReceivedState
  <2>3. /\ m.from \in User /\ keygen' \in [User -> Nat]
        /\ \A u \in User : keygen[u] <= keygen'[u]
    BY <1>8, ReceivedState
  <2> QED
    BY <1>0, <2>1, <2>2, <2>3, StoreStep
<1>9. ASSUME NEW p \in User, Die(p)
      PROVE  /\ \A u \in User : awaiting'[u] \in {awaiting[u], None}
             /\ \A u \in User : outbox'[u] \in {outbox[u], None}
             /\ net' = net /\ sealed' = sealed
  BY <1>a, <1>9 DEF Die, history
<1>10. ASSUME NEW p \in User, Crash(p) PROVE KeyInv'
  BY <1>0, <1>9, <1>10, QuietStep DEF Crash
<1>11. ASSUME NEW p \in User, CrashInInitiate(p) PROVE KeyInv'
  <2>1. /\ awaiting[p] # None /\ Die(p)
        /\ session' = [session EXCEPT ![p][awaiting[p].peer] = InitiatorState(p)]
        /\ keygen' = [keygen EXCEPT ![p] = @ + 1]
    BY <1>11 DEF CrashInInitiate, SaveSession
  <2> QED
    BY <1>0, <1>5, <1>9, <2>1, StoreStep
<1>12. ASSUME NEW p \in User, NEW m \in net, CrashAfterPop(p, m) PROVE KeyInv'
  BY <1>0, <1>9, <1>12, QuietStep DEF CrashAfterPop
<1>13. ASSUME NEW p \in User, NEW m \in net, CrashAfterRespond(p, m) PROVE KeyInv'
  <2>1. /\ Accepts(p, m) /\ Die(p) /\ keygen' = keygen
        /\ session' = [session EXCEPT ![p][m.from] = ReceiverState(p, m)]
    BY <1>13 DEF CrashAfterRespond, SaveSession
  <2>2. m.from \in User
    BY <1>0 DEF TypeInv, TypeOK, Payload
  <2>3. StateIn(keygen', ReceiverState(p, m)) /\ MayFollow(p, m.from, ReceiverState(p, m))
    BY <2>1, ReceiverStateGenerated DEF MayFollow
  <2>4. keygen' \in [User -> Nat] /\ \A u \in User : keygen[u] <= keygen'[u]
    BY <1>a, <2>1
  <2> QED
    BY <1>0, <1>9, <2>1, <2>2, <2>3, <2>4, StoreStep
<1>14. CASE UNCHANGED vars
  BY <1>0, <1>14, QuietStep DEF vars
<1>15. ASSUME NEW p \in User, Register(p) PROVE KeyInv'
  BY <1>0, <1>15, QuietStep DEF Register, history
<1> QED
  BY <1>15, <1>1, <1>2, <1>4, <1>6, <1>7, <1>8, <1>10, <1>11, <1>12, <1>13, <1>14 DEF Next

(* No message key ever seals two texts, for any number of users, texts and *)
(* crashes, whichever payloads are lost, repeated or come out of order.    *)
THEOREM NoKeyIsReused == Spec => []NoKeyReuse
<1>1. KeyInv => NoKeyReuse
  BY DEF KeyInv
<1> QED
  BY KeyInvInit, KeyInvStep, <1>1, PTL DEF Spec
=============================================================================
