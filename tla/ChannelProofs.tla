--------------------------- MODULE ChannelProofs ---------------------------
(***************************************************************************)
(* Theorems about Session as long as the relay has a one-time prekey for   *)
(* whoever asks for a bundle: sessions only advance, and the messenger     *)
(* keeps the promise of SecureChannel.                                     *)
(***************************************************************************)
EXTENDS SecrecyProofs

(* The hypothesis: every bundle the relay served had a prekey.  Without    *)
(* one x3dh_receive keeps nothing that would tell a first payload that was *)
(* delivered again from a new one.                                         *)
AlwaysAPrekey ==
    \A p \in User : awaiting[p] # None => awaiting[p].bundle.opks # {}

(* Then every session took one, and every header names one. *)
SecretsWithPrekey ==
    /\ \A p, q \in User :
          session[p][q] # None => session[p][q].root_key.sk.dh4 # {}
    /\ \A p \in User : (outbox[p] # None /\ outbox[p].x3dh # None) =>
          outbox[p].x3dh.opk_id # None
    /\ \A m \in net : m.x3dh # None => m.x3dh.opk_id # None

(* The initiator's secret takes the prekey of the bundle, and is new. *)
LEMMA InitiatorPrekey ==
    ASSUME SecrecyInv, AlwaysAPrekey, NEW p \in User, awaiting[p] # None
    PROVE  /\ InitiatorState(p).root_key.sk.dh4 # {}
           /\ ~ Knows(p, InitiatorState(p).root_key.sk)
           /\ X3dhHeaderSend(IK(p, identity[p]), awaiting[p].bundle,
                             EK(p, keygen[p])).opk_id # None
<1> DEFINE b  == awaiting[p].bundle
           sk == X3dhSecretSend(IK(p, identity[p]), b, EK(p, keygen[p]))
<1>1. b.opks \in SUBSET Nat /\ b.opks # {}
  BY SecrecyTypes DEF AlwaysAPrekey, Bundle
<1>2. ChosenOpk(b) # None
  BY <1>1, FirstOpkIsMember, NoneAssumption DEF ChosenOpk
<1>3. InitiatorState(p).root_key.sk = sk
  BY FirstStatesInOrder DEF InitiatorState
<1>4. sk.dh4 # {}
  BY <1>2 DEF X3dhSecretSend, DH
<1>5. ~ SecretIn(keygen, sk) /\ sk \in SecretKey
  BY InitiatorSecret
<1> HIDE DEF sk
<1>6. ~ Knows(p, sk)
  BY <1>5 DEF SecrecyInv, SecretsOld
<1>7. X3dhHeaderSend(IK(p, identity[p]), b, EK(p, keygen[p])).opk_id # None
  BY <1>2 DEF X3dhHeaderSend
<1> QED
  BY <1>3, <1>4, <1>6, <1>7

(* The secret of a header that names a prekey takes it. *)
LEMMA ResponderPrekey ==
    ASSUME SecretsWithPrekey, NEW p \in User, NEW m \in net, m.x3dh # None
    PROVE  X3dhSecretReceive(p, identity[p], m.x3dh).dh4 # {}
<1>1. m.x3dh.opk_id # None
  BY DEF SecretsWithPrekey
<1> QED
  BY <1>1 DEF X3dhSecretReceive, DH

(* A state that descends from a secret with a prekey and new to p. *)
Fresh(p, new) ==
    /\ new # None
    /\ new.root_key.sk.dh4 # {}
    /\ ~ Knows(p, new.root_key.sk)

Moves(p, q, new) ==
    new # None /\ (Continues(p, q, new) \/ Fresh(p, new))

(* A step leaves a session, moves it on, or begins it anew. *)
LEMMA SessionsMove ==
    ASSUME SecrecyInv, AlwaysAPrekey, SecretsWithPrekey, [Next]_vars,
           NEW p \in User, NEW q \in User
    PROVE  session'[p][q] = session[p][q] \/ Moves(p, q, session'[p][q])
<1>0. session \in [User -> [User -> RatchetState \cup {None}]]
  BY SecrecyTypes
<1>1. ASSUME NEW u \in User, NEW v \in User, NEW new, Moves(u, v, new),
             session' = [session EXCEPT ![u][v] = new]
      PROVE  session'[p][q] = session[p][q] \/ Moves(p, q, session'[p][q])
  <2>1. CASE u = p /\ v = q
    BY <1>0, <1>1, <2>1
  <2>2. CASE ~ (u = p /\ v = q)
    BY <1>0, <1>1, <2>2
  <2> QED
    BY <2>1, <2>2
<1>2. ASSUME NEW new, WellFormed(new) PROVE new # None
  BY <1>2, NoneIsNoState DEF WellFormed
<1>3. ASSUME NEW u \in User, NEW v \in User, Send(u, v)
      PROVE  session'[p][q] = session[p][q] \/ Moves(p, q, session'[p][q])
  <2> DEFINE new == AfterEncrypt(session[u][v])
  <2>1. WellFormed(new) /\ Continues(u, v, new)
    BY <1>3, SendSecret
  <2>2. session' = [session EXCEPT ![u][v] = new]
    BY <1>3 DEF Send, Seal, SaveSession
  <2> HIDE DEF new
  <2> QED
    BY <1>1, <1>2, <2>1, <2>2 DEF Moves
<1>4. ASSUME NEW u \in User, awaiting[u] # None, NEW new, WellFormed(new),
             new.root_key = InitiatorState(u).root_key,
             session' = [session EXCEPT ![u][awaiting[u].peer] = new]
      PROVE  session'[p][q] = session[p][q] \/ Moves(p, q, session'[p][q])
  <2>1. awaiting[u].peer \in User
    BY <1>4, SecrecyTypes
  <2>2. Fresh(u, new)
    BY <1>2, <1>4, InitiatorPrekey DEF Fresh
  <2> QED
    BY <1>1, <1>2, <1>4, <2>1, <2>2 DEF Moves
<1>5. ASSUME NEW u \in User, Initiate(u)
      PROVE  session'[p][q] = session[p][q] \/ Moves(p, q, session'[p][q])
  <2> DEFINE new == AfterEncrypt(InitiatorState(u))
  <2>1. /\ awaiting[u] # None
        /\ session' = [session EXCEPT ![u][awaiting[u].peer] = new]
    BY <1>5 DEF Initiate, Seal, SaveSession
  <2>2. WellFormed(new) /\ new.root_key = InitiatorState(u).root_key
    BY <1>5, InitiateSecret
  <2> HIDE DEF new
  <2> QED
    BY <1>4, <2>1, <2>2
<1>6. ASSUME NEW u \in User, CrashInInitiate(u)
      PROVE  session'[p][q] = session[p][q] \/ Moves(p, q, session'[p][q])
  <2>1. /\ awaiting[u] # None
        /\ session' = [session EXCEPT ![u][awaiting[u].peer] = InitiatorState(u)]
    BY <1>6 DEF CrashInInitiate, SaveSession
  <2>2. WellFormed(InitiatorState(u))
    BY <2>1, SecrecyTypes, InitiatorStateType
  <2> QED
    BY <1>4, <2>1, <2>2
<1>7. ASSUME NEW u \in User, NEW m \in net, NEW new, WellFormed(new),
             session' = [session EXCEPT ![u][m.from] = new],
             \/ Continues(u, m.from, new)
             \/ /\ Begins(u, new) /\ m.x3dh # None
                /\ new.root_key.sk = X3dhSecretReceive(u, identity[u], m.x3dh)
      PROVE  session'[p][q] = session[p][q] \/ Moves(p, q, session'[p][q])
  <2>1. m.from \in User
    BY SecrecyTypes DEF Payload
  <2>2. Continues(u, m.from, new) \/ Fresh(u, new)
    BY <1>2, <1>7, ResponderPrekey DEF Begins, Fresh
  <2> QED
    BY <1>1, <1>2, <1>7, <2>1, <2>2 DEF Moves
<1>8. ASSUME NEW u \in User, NEW m \in net, Receive(u, m)
      PROVE  session'[p][q] = session[p][q] \/ Moves(p, q, session'[p][q])
  <2>1. PICK new :
          /\ WellFormed(new)
          /\ session' = [session EXCEPT ![u][m.from] = new]
          /\ \/ Continues(u, m.from, new)
             \/ /\ Begins(u, new) /\ m.x3dh # None
                /\ new.root_key.sk = X3dhSecretReceive(u, identity[u], m.x3dh)
    BY <1>8, ReceiveSecret
  <2> QED
    BY <1>7, <2>1
<1>9. ASSUME NEW u \in User, NEW m \in net, CrashAfterRespond(u, m)
      PROVE  session'[p][q] = session[p][q] \/ Moves(p, q, session'[p][q])
  <2> DEFINE new == ReceiverState(u, m)
             sk  == X3dhSecretReceive(u, identity[u], m.x3dh)
  <2>1. /\ m.x3dh # None /\ Accepts(u, m)
        /\ session' = [session EXCEPT ![u][m.from] = new]
    BY <1>9 DEF CrashAfterRespond, SaveSession
  <2>2. WellFormed(new)
    BY <2>1, SecrecyTypes, ReceiverStateType
  <2>3. new.root_key.sk = sk
    BY <2>1, FirstStatesInOrder DEF ReceiverState
  <2>4. sk.dh4 # {} => ~ Knows(u, sk)
    BY <2>1, ResponderSecret
  <2> HIDE DEF new
  <2>5. Begins(u, new)
    BY <2>3, <2>4 DEF Begins
  <2> QED
    BY <1>7, <2>1, <2>2, <2>3, <2>5
<1>10. ASSUME session' = session
       PROVE  session'[p][q] = session[p][q] \/ Moves(p, q, session'[p][q])
  BY <1>10
<1>11. CASE UNCHANGED vars
  BY <1>10, <1>11 DEF vars
<1>12. ASSUME NEW u \in User,
              \/ Register(u) \/ Publish(u) \/ Transmit(u) \/ Crash(u)
              \/ \E v \in User : GetBundle(u, v)
              \/ \E m \in net : CrashAfterPop(u, m)
       PROVE  session' = session
  BY <1>12 DEF Register, Publish, Transmit, Crash, GetBundle, CrashAfterPop
<1> QED
  BY <1>3, <1>5, <1>6, <1>8, <1>9, <1>10, <1>11, <1>12 DEF Next

(* Sessions and headers go on having prekeys. *)
LEMMA PrekeysStepKept ==
    ASSUME SecrecyInv, AlwaysAPrekey, SecretsWithPrekey, [Next]_vars
    PROVE  SecretsWithPrekey'
<1>0. /\ outbox \in [User -> Payload \cup {None}] /\ net \in SUBSET Payload
      /\ session \in [User -> [User -> RatchetState \cup {None}]]
  BY SecrecyTypes
<1>1. ASSUME NEW p \in User, NEW q \in User, session'[p][q] # None
      PROVE  session'[p][q].root_key.sk.dh4 # {}
  <2>1. CASE session'[p][q] = session[p][q]
    BY <1>1, <2>1 DEF SecretsWithPrekey
  <2>2. CASE Moves(p, q, session'[p][q])
    BY <2>2 DEF Moves, Continues, Fresh, SecretsWithPrekey
  <2> QED
    BY <2>1, <2>2, SessionsMove
<1>2. ASSUME \A u \in User : \/ outbox'[u] \in {outbox[u], None}
                             \/ outbox'[u].x3dh = None
                             \/ outbox'[u].x3dh.opk_id # None,
             \A m \in net' : m \in net \/ \E u \in User : outbox[u] # None /\ m = outbox[u]
      PROVE  SecretsWithPrekey'
  <2>1. ASSUME NEW u \in User, outbox'[u] # None, outbox'[u].x3dh # None
        PROVE  outbox'[u].x3dh.opk_id # None
    BY <1>2, <2>1 DEF SecretsWithPrekey
  <2>2. ASSUME NEW m \in net', m.x3dh # None PROVE m.x3dh.opk_id # None
    BY <1>2, <2>2 DEF SecretsWithPrekey
  <2> QED
    BY <1>1, <2>1, <2>2 DEF SecretsWithPrekey
<1>3. ASSUME NEW p \in User, Initiate(p) PROVE SecretsWithPrekey'
  <2>1. /\ awaiting[p] # None /\ net' = net
        /\ \A u \in User : u # p => outbox'[u] = outbox[u]
        /\ outbox'[p].x3dh = X3dhHeaderSend(IK(p, identity[p]), awaiting[p].bundle,
                                            EK(p, keygen[p]))
    BY <1>0, <1>3 DEF Initiate, Seal
  <2>2. outbox'[p].x3dh.opk_id # None
    BY <2>1, InitiatorPrekey
  <2> QED
    BY <1>2, <2>1, <2>2
<1>4. ASSUME NEW p \in User, NEW q \in User, Send(p, q) PROVE SecretsWithPrekey'
  <2>1. /\ net' = net
        /\ \A u \in User : u # p => outbox'[u] = outbox[u]
        /\ outbox'[p].x3dh = None
    BY <1>0, <1>4 DEF Send, Seal
  <2> QED
    BY <1>2, <2>1
<1>5. ASSUME NEW p \in User, Transmit(p) PROVE SecretsWithPrekey'
  <2>1. /\ net' = net \cup {outbox[p]} /\ outbox[p] # None
        /\ \A u \in User : outbox'[u] \in {outbox[u], None}
    BY <1>0, <1>5 DEF Transmit
  <2> QED
    BY <1>2, <2>1
<1>6. ASSUME \A u \in User : outbox'[u] \in {outbox[u], None}, net' = net
      PROVE  SecretsWithPrekey'
  BY <1>2, <1>6
<1>7. ASSUME NEW p \in User, Die(p) PROVE SecretsWithPrekey'
  BY <1>0, <1>6, <1>7 DEF Die
<1>8. CASE UNCHANGED vars
  BY <1>6, <1>8 DEF vars
<1>9. ASSUME NEW p \in User,
             \/ Register(p) \/ Publish(p)
             \/ \E q \in User : GetBundle(p, q)
             \/ \E m \in net : Receive(p, m)
      PROVE  SecretsWithPrekey'
  <2>1. outbox' = outbox /\ net' = net
    BY <1>9 DEF Register, Publish, GetBundle, Receive
  <2> QED
    BY <1>6, <2>1
<1>10. ASSUME NEW p \in User,
              \/ Crash(p) \/ CrashInInitiate(p)
              \/ \E m \in net : CrashAfterPop(p, m) \/ CrashAfterRespond(p, m)
       PROVE  SecretsWithPrekey'
  <2>1. Die(p)
    BY <1>10 DEF Crash, CrashInInitiate, CrashAfterPop, CrashAfterRespond
  <2> QED
    BY <1>7, <2>1
<1> QED
  BY <1>3, <1>4, <1>5, <1>8, <1>9, <1>10 DEF Next

(* At the start there is no session and no header. *)
LEMMA PrekeysInit == Init => SecretsWithPrekey
BY DEF Init, SecretsWithPrekey

-----------------------------------------------------------------------------
(* Sessions advance. *)

(* What SessionsOnlyAdvance says of one session in one step. *)
Advances(s, t) ==
    s # None =>
        /\ t # None
        /\ t.root_key.sk = s.root_key.sk =>
             /\ IsPrefix(s.root_key.dhs, t.root_key.dhs)
             /\ t.root_key = s.root_key =>
                  s.send_n <= t.send_n /\ s.recv_n <= t.recv_n

(* A session that is left alone, moved on or begun anew has advanced. *)
LEMMA MovesAdvance ==
    ASSUME SecrecyInv, AlwaysAPrekey, SecretsWithPrekey, [Next]_vars,
           NEW p \in User, NEW q \in User
    PROVE  Advances(session[p][q], session'[p][q])
<1> DEFINE s == session[p][q]
           t == session'[p][q]
<1>1. SUFFICES ASSUME s # None
               PROVE  /\ t # None
                      /\ t.root_key.sk = s.root_key.sk =>
                           /\ IsPrefix(s.root_key.dhs, t.root_key.dhs)
                           /\ t.root_key = s.root_key =>
                                s.send_n <= t.send_n /\ s.recv_n <= t.recv_n
  BY DEF Advances
<1>2. /\ s \in RatchetState /\ s.root_key.dhs \in Seq(SUBSET Key)
      /\ s.send_n \in Nat /\ s.recv_n \in Nat
  BY <1>1, SecrecyTypes DEF WellFormed, RatchetState, RootKey
<1>3. IsPrefix(s.root_key.dhs, s.root_key.dhs)
  <2>1. Len(s.root_key.dhs) \in Nat
    BY <1>2, LenProperties
  <2> QED
    BY <1>2, <2>1, PrefixByPlaces
<1>4. t = s \/ Moves(p, q, t)
  BY SessionsMove
<1> HIDE DEF s, t
<1>5. CASE t = s
  BY <1>1, <1>2, <1>3, <1>5
<1>6. CASE t # None /\ Continues(p, q, t)
  <2>1. MovesOn(s, t)
    BY <1>6 DEF Continues, s
  <2>2. CASE /\ t.root_key = s.root_key
             /\ s.send_n <= t.send_n /\ s.recv_n <= t.recv_n
    BY <1>3, <1>6, <2>2
  <2>3. CASE Behind(s.root_key, t.root_key)
    BY <1>6, <2>3, NotBehindItself DEF Behind, IsStrictPrefix
  <2> QED
    BY <2>1, <2>2, <2>3 DEF MovesOn
<1>7. CASE t # None /\ Fresh(p, t)
  <2>1. t.root_key.sk # s.root_key.sk
    BY <1>1, <1>7 DEF Fresh, Knows, s
  <2> QED
    BY <1>7, <2>1
<1> QED
  BY <1>4, <1>5, <1>6, <1>7 DEF Moves

(* While the relay has prekeys, a stored session is never dropped, and     *)
(* under one X3DH secret never goes back to an earlier root or counter,    *)
(* whatever is lost or repeated and whenever a process dies.               *)
THEOREM SessionsAdvance == Spec /\ []AlwaysAPrekey => SessionsOnlyAdvance
<1>1. /\ SecrecyInv /\ AlwaysAPrekey /\ SecretsWithPrekey /\ [Next]_vars
      => SecretsWithPrekey'
  BY PrekeysStepKept
<1>2. /\ SecrecyInv /\ AlwaysAPrekey /\ SecretsWithPrekey /\ [Next]_vars
      => [\A p, q \in User :
            LET s == session[p][q]
                t == session'[p][q]
            IN  s # None =>
                   /\ t # None
                   /\ t.root_key.sk = s.root_key.sk =>
                        /\ IsPrefix(s.root_key.dhs, t.root_key.dhs)
                        /\ t.root_key = s.root_key =>
                             s.send_n <= t.send_n /\ s.recv_n <= t.recv_n]_vars
  BY MovesAdvance DEF Advances
<1> QED
  BY SecrecyInvInit, SecrecyInvStep, PrekeysInit, <1>1, <1>2, PTL
     DEF Spec, SessionsOnlyAdvance

-----------------------------------------------------------------------------
(* The promise of the messenger. *)

(* A user's texts are numbered as they are sealed. *)
TextsNumbered ==
    /\ \A p \in User : typed[p] <= MaxTexts
    /\ \A s \in sealed : s.text.no < typed[s.text.from]

TextsSealedOnce == \A s, t \in sealed : s.text = t.text => s.key = t.key

(* A payload carries what was sealed, to whom it was written. *)
SealedIn(m, S) ==
    /\ [key |-> m.key, text |-> m.text] \in S
    /\ m.text.to = m.to

PayloadsSealed ==
    /\ \A p \in User : outbox[p] # None => SealedIn(outbox[p], sealed)
    /\ \A m \in net : SealedIn(m, sealed)

(* What a terminal shows was opened with the key that sealed it. *)
ShownOpened ==
    \A p \in User : \A i \in DOMAIN shown[p] :
        \E k \in opened[p] : [key |-> k, text |-> shown[p][i]] \in sealed

ChannelInv ==
    SecretsWithPrekey /\ TextsNumbered /\ TextsSealedOnce /\ PayloadsSealed
        /\ ShownOpened

(* A step that seals, opens and shows nothing. *)
LEMMA NothingShown ==
    ASSUME SecrecyInv, ChannelInv, SecretsWithPrekey',
           UNCHANGED <<sealed, opened, shown, typed>>,
           \A u \in User : outbox'[u] \in {outbox[u], None},
           \A m \in net' : m \in net \/ \E u \in User : outbox[u] # None /\ m = outbox[u]
    PROVE  /\ ChannelInv'
           /\ [Channel!Next]_<<{s.text : s \in sealed}, shown>>
<1>1. TextsNumbered' /\ TextsSealedOnce' /\ ShownOpened'
  BY DEF ChannelInv, TextsNumbered, TextsSealedOnce, ShownOpened
<1>2. PayloadsSealed'
  <2>1. \A u \in User : outbox'[u] # None => SealedIn(outbox'[u], sealed')
    BY DEF ChannelInv, PayloadsSealed
  <2>2. \A m \in net' : SealedIn(m, sealed')
    BY DEF ChannelInv, PayloadsSealed
  <2> QED
    BY <2>1, <2>2 DEF PayloadsSealed
<1> QED
  BY <1>1, <1>2 DEF ChannelInv

(* Sealing writes the next text. *)
LEMMA SealWrites ==
    ASSUME SecrecyInv, ChannelInv, SecretsWithPrekey',
           NEW p \in User, NEW q \in User, NEW st, NEW x3dh,
           Seal(p, q, st, x3dh), UNCHANGED <<net, opened, shown>>
    PROVE  ChannelInv' /\ Channel!Write
<1> DEFINE t == [from |-> p, to |-> q, no |-> typed[p]]
           new == [key |-> SealingKey(st), text |-> t]
           m == outbox'[p]
<1>1. /\ typed \in [User -> Nat] /\ outbox \in [User -> Payload \cup {None}]
      /\ sealed \in SUBSET [key : MessageKey, text : Text]
  BY SecrecyTypes DEF TypeInv, TypeOK
<1>2. /\ typed[p] < MaxTexts
      /\ typed' = [typed EXCEPT ![p] = @ + 1]
      /\ sealed' = sealed \cup {new}
      /\ \A u \in User : u # p => outbox'[u] = outbox[u]
      /\ m.key = SealingKey(st) /\ m.text = t /\ m.to = q
  BY <1>1 DEF Seal
<1>3. t.from = p /\ t.to = q /\ t.no = typed[p] /\ new.text = t /\ new.key = SealingKey(st)
  OBVIOUS
<1>4. \A s \in sealed : s.text.from \in User /\ s.text.no \in Nat
  BY <1>1 DEF Text
<1>5. typed[p] \in Nat /\ MaxTexts \in Nat
  BY <1>1, SessionAssumption
<1> HIDE DEF t
<1>6. \A s \in sealed : s.text # t
  <2>1. SUFFICES ASSUME NEW s \in sealed, s.text = t PROVE FALSE
    OBVIOUS
  <2>2. s.text.no < typed[s.text.from]
    BY DEF ChannelInv, TextsNumbered
  <2> QED
    BY <1>3, <1>5, <2>1, <2>2
<1>7. TextsNumbered'
  <2>1. \A u \in User : typed'[u] <= MaxTexts /\ typed[u] <= typed'[u]
    BY <1>1, <1>2, <1>5 DEF ChannelInv, TextsNumbered
  <2>2. ASSUME NEW s \in sealed PROVE s.text.no < typed'[s.text.from]
    <3>1. s.text.no < typed[s.text.from] /\ s.text.from \in User /\ s.text.no \in Nat
      BY <1>4 DEF ChannelInv, TextsNumbered
    <3>2. /\ typed[s.text.from] \in Nat
          /\ \/ typed'[s.text.from] = typed[s.text.from]
             \/ typed'[s.text.from] = typed[s.text.from] + 1
      BY <1>1, <1>2, <3>1
    <3> QED
      BY <3>1, <3>2
  <2>3. new.text.no < typed'[new.text.from]
    BY <1>1, <1>2, <1>3, <1>5
  <2> QED
    BY <1>2, <2>1, <2>2, <2>3 DEF TextsNumbered
<1>8. TextsSealedOnce'
  BY <1>2, <1>3, <1>6 DEF ChannelInv, TextsSealedOnce
<1>9. \A f : SealedIn(f, sealed) => SealedIn(f, sealed')
  BY <1>2 DEF SealedIn
<1>10. SealedIn(m, sealed')
  BY <1>2, <1>3 DEF SealedIn
<1>11. PayloadsSealed'
  <2>1. ASSUME NEW u \in User, outbox'[u] # None PROVE SealedIn(outbox'[u], sealed')
    BY <1>2, <1>9, <1>10, <2>1 DEF ChannelInv, PayloadsSealed
  <2>2. ASSUME NEW f \in net' PROVE SealedIn(f, sealed')
    BY <1>9 DEF ChannelInv, PayloadsSealed
  <2> QED
    BY <2>1, <2>2 DEF PayloadsSealed
<1>12. ShownOpened'
  BY <1>2 DEF ChannelInv, ShownOpened
<1>13. Channel!Write
  <2> DEFINE W == {s.text : s \in sealed}
  <2>1. t \in [from : User, to : User, no : 0 .. MaxTexts - 1]
    BY <1>2, <1>5 DEF t
  <2>2. t \notin W /\ {s.text : s \in sealed'} = W \cup {t}
    BY <1>2, <1>3, <1>6
  <2> QED
    BY <2>1, <2>2 DEF Channel!Write, Channel!Text
<1> QED
  BY <1>7, <1>8, <1>11, <1>12, <1>13 DEF ChannelInv

(* Opening shows a text that was sealed for its reader and not yet shown:  *)
(* a key that opens was not used before.                                   *)
LEMMA ReceiveShows ==
    ASSUME SecrecyInv, ChannelInv, SecretsWithPrekey', NEW p \in User,
           NEW m \in net, Receive(p, m),
           AlwaysAPrekey
    PROVE  /\ ChannelInv'
           /\ [Channel!Next]_<<{s.text : s \in sealed}, shown>>
<1> DEFINE t == m.text
           k == m.key
<1>1. /\ opened \in [User -> SUBSET MessageKey] /\ shown \in [User -> Seq(Text)]
      /\ m.from \in User /\ t \in Text
  BY SecrecyTypes DEF TypeInv, TypeOK, Payload
<1>2. m.to = p /\ UNCHANGED <<sealed, typed, outbox, net>>
  BY DEF Receive, SaveSession
<1>3. TextsNumbered' /\ TextsSealedOnce' /\ PayloadsSealed'
  BY <1>2 DEF ChannelInv, TextsNumbered, TextsSealedOnce, PayloadsSealed, SealedIn
<1>4. PICK new :
        /\ \/ Continues(p, m.from, new)
           \/ /\ Begins(p, new) /\ m.x3dh # None
              /\ new.root_key.sk = X3dhSecretReceive(p, identity[p], m.x3dh)
        /\ \/ opened' = opened /\ shown' = shown
           \/ /\ opened' = [opened EXCEPT ![p] = @ \cup {k}]
              /\ shown' = [shown EXCEPT ![p] = Append(@, t)]
              /\ k.root.sk = new.root_key.sk
              /\ \/ Begins(p, new)
                 \/ /\ session[p][m.from] # None
                    /\ Derivable(session[p][m.from], k)
  BY ReceiveSecret
<1>5. CASE opened' = opened /\ shown' = shown
  BY <1>2, <1>3, <1>5 DEF ChannelInv, ShownOpened
<1>6. CASE /\ opened' = [opened EXCEPT ![p] = @ \cup {k}]
           /\ shown' = [shown EXCEPT ![p] = Append(@, t)]
           /\ k.root.sk = new.root_key.sk
           /\ \/ Begins(p, new)
              \/ /\ session[p][m.from] # None
                 /\ Derivable(session[p][m.from], k)
  <2>1. new.root_key.sk.dh4 # {}
    <3>1. SecretsWithPrekey
      BY DEF ChannelInv
    <3>2. CASE Continues(p, m.from, new)
      BY <1>1, <3>1, <3>2 DEF Continues, SecretsWithPrekey
    <3>3. CASE /\ m.x3dh # None
               /\ new.root_key.sk = X3dhSecretReceive(p, identity[p], m.x3dh)
      <4>1. X3dhSecretReceive(p, identity[p], m.x3dh).dh4 # {}
        BY <3>1, <3>3, ResponderPrekey
      <4> QED
        BY <3>3, <4>1
    <3> QED
      BY <1>4, <3>2, <3>3
  <2>2. k \notin opened[p]
    <3>1. SUFFICES ASSUME k \in opened[p] PROVE FALSE
      OBVIOUS
    <3>2. k \in Used(p) /\ WithOpk(k)
      BY <1>6, <2>1, <3>1 DEF Used, WithOpk
    <3>3. CASE Begins(p, new)
      BY <1>6, <2>1, <3>2, <3>3 DEF Begins, Knows
    <3>4. CASE session[p][m.from] # None /\ Derivable(session[p][m.from], k)
      BY <1>1, <3>2, <3>4 DEF SecrecyInv, ForwardSecrecy, Used
    <3> QED
      BY <1>6, <3>3, <3>4
  <2>3. [key |-> k, text |-> t] \in sealed /\ t.to = p
    BY <1>2 DEF ChannelInv, PayloadsSealed, SealedIn
  <2>4. \A i \in DOMAIN shown[p] : shown[p][i] # t
    <3>1. SUFFICES ASSUME NEW i \in DOMAIN shown[p], shown[p][i] = t PROVE FALSE
      OBVIOUS
    <3>2. PICK l \in opened[p] : [key |-> l, text |-> t] \in sealed
      BY <3>1 DEF ChannelInv, ShownOpened
    <3>3. l = k
      <4> DEFINE a == [key |-> l, text |-> t]
                 b == [key |-> k, text |-> t]
      <4>1. a \in sealed /\ b \in sealed /\ a.text = b.text
        BY <2>3, <3>2
      <4>2. a.key = b.key
        BY <4>1 DEF ChannelInv, TextsSealedOnce
      <4> QED
        BY <4>2
    <3> QED
      BY <2>2, <3>2, <3>3
  <2>5. /\ shown[p] \in Seq(Text) /\ Len(shown[p]) \in Nat
        /\ DOMAIN shown[p] = 1 .. Len(shown[p])
        /\ shown'[p] = Append(shown[p], t)
        /\ DOMAIN Append(shown[p], t) = 1 .. (Len(shown[p]) + 1)
        /\ \A i \in 1 .. Len(shown[p]) : Append(shown[p], t)[i] = shown[p][i]
        /\ Append(shown[p], t)[Len(shown[p]) + 1] = t
    BY <1>1, <1>6, AppendProperties, LenProperties
  <2>6. ShownOpened'
    <3>1. SUFFICES ASSUME NEW u \in User, NEW i \in DOMAIN shown'[u]
                   PROVE  \E l \in opened'[u] : [key |-> l, text |-> shown'[u][i]] \in sealed'
      BY DEF ShownOpened
    <3>2. CASE u # p
      BY <1>1, <1>2, <1>6, <3>1, <3>2 DEF ChannelInv, ShownOpened
    <3>3. CASE u = p /\ i \in DOMAIN shown[p]
      <4>1. PICK l \in opened[p] : [key |-> l, text |-> shown[p][i]] \in sealed
        BY <3>3 DEF ChannelInv, ShownOpened
      <4>2. l \in opened'[p] /\ shown'[p][i] = shown[p][i]
        BY <1>1, <1>6, <2>5, <3>3
      <4> QED
        BY <1>2, <3>3, <4>1, <4>2
    <3>4. CASE u = p /\ i = Len(shown[p]) + 1
      <4>1. k \in opened'[p] /\ shown'[p][i] = t
        BY <1>1, <1>6, <2>5, <3>4
      <4> QED
        BY <1>2, <2>3, <3>4, <4>1
    <3> QED
      BY <2>5, <3>1, <3>2, <3>3, <3>4
  <2>7. Channel!Show
    <3> DEFINE W == {s.text : s \in sealed}
    <3>1. t \in W
      <4>1. [key |-> k, text |-> t].text = t
        OBVIOUS
      <4> QED
        BY <2>3, <4>1
    <3>2. t \notin {shown[t.to][i] : i \in DOMAIN shown[t.to]}
      BY <2>3, <2>4
    <3>3. shown' = [shown EXCEPT ![t.to] = Append(@, t)]
      BY <1>6, <2>3
    <3>4. {s.text : s \in sealed'} = W
      BY <1>2
    <3> QED
      BY <3>1, <3>2, <3>3, <3>4 DEF Channel!Show, Channel!Shown
  <2> QED
    BY <1>3, <2>6, <2>7 DEF ChannelInv, Channel!Next
<1> QED
  BY <1>4, <1>5, <1>6
(* No text is written at the start. *)
LEMMA ChannelInit == Init => ChannelInv /\ Channel!Init
<1>1. SUFFICES ASSUME Init PROVE ChannelInv /\ Channel!Init
  OBVIOUS
<1>2. SecretsWithPrekey
  BY <1>1, PrekeysInit
<1>3. TextsNumbered /\ TextsSealedOnce
  BY <1>1, SessionAssumption DEF Init, TextsNumbered, TextsSealedOnce
<1>4. PayloadsSealed /\ ShownOpened
  BY <1>1 DEF Init, PayloadsSealed, ShownOpened
<1>5. Channel!Init
  BY <1>1 DEF Init, Channel!Init
<1> QED
  BY <1>2, <1>3, <1>4, <1>5 DEF ChannelInv

(* Every step of a session writes a text, shows one, or stutters. *)
LEMMA ChannelStep ==
    ASSUME SecrecyInv, ChannelInv, AlwaysAPrekey, [Next]_vars
    PROVE  /\ ChannelInv'
           /\ [Channel!Next]_<<{s.text : s \in sealed}, shown>>
<1>0. outbox \in [User -> Payload \cup {None}]
  BY SecrecyTypes
<1>1. SecretsWithPrekey'
  BY PrekeysStepKept DEF ChannelInv
<1> DEFINE Kept == /\ ChannelInv'
                   /\ [Channel!Next]_<<{s.text : s \in sealed}, shown>>
<1>2. ASSUME NEW p \in User, NEW q \in User, NEW st, NEW x3dh,
             Seal(p, q, st, x3dh), UNCHANGED <<net, opened, shown>>
      PROVE  Kept
  BY <1>1, <1>2, SealWrites DEF Channel!Next
<1>3. ASSUME NEW p \in User, Initiate(p) PROVE Kept
  <2>1. /\ awaiting[p].peer \in User
        /\ UNCHANGED <<net, opened, shown>>
    BY <1>3, SecrecyTypes DEF Initiate
  <2> QED
    BY <1>2, <1>3, <2>1 DEF Initiate
<1>4. ASSUME NEW p \in User, NEW q \in User, Send(p, q) PROVE Kept
  BY <1>2, <1>4 DEF Send
<1>5. ASSUME NEW p \in User, NEW m \in net, Receive(p, m) PROVE Kept
  BY <1>1, <1>5, ReceiveShows
<1>6. ASSUME UNCHANGED <<sealed, opened, shown, typed>>,
             \A u \in User : outbox'[u] \in {outbox[u], None},
             \A m \in net' : m \in net \/ \E u \in User : outbox[u] # None /\ m = outbox[u]
      PROVE  Kept
  BY <1>1, <1>6, NothingShown
<1> HIDE DEF Kept
<1>7. ASSUME NEW p \in User, Transmit(p) PROVE Kept
  <2>1. /\ UNCHANGED <<sealed, opened, shown, typed>>
        /\ net' = net \cup {outbox[p]} /\ outbox[p] # None
        /\ \A u \in User : outbox'[u] \in {outbox[u], None}
    BY <1>0, <1>7 DEF Transmit, history
  <2> QED
    BY <1>6, <2>1
<1>8. ASSUME NEW p \in User, Die(p) PROVE Kept
  <2>1. /\ UNCHANGED <<sealed, opened, shown, typed, net>>
        /\ \A u \in User : outbox'[u] \in {outbox[u], None}
    BY <1>0, <1>8 DEF Die, history
  <2> QED
    BY <1>6, <2>1
<1>9. ASSUME NEW p \in User,
             \/ Crash(p) \/ CrashInInitiate(p)
             \/ \E m \in net : CrashAfterPop(p, m) \/ CrashAfterRespond(p, m)
      PROVE  Kept
  <2>1. Die(p)
    BY <1>9 DEF Crash, CrashInInitiate, CrashAfterPop, CrashAfterRespond
  <2> QED
    BY <1>8, <2>1
<1>10. ASSUME UNCHANGED <<sealed, opened, shown, typed, net, outbox>> PROVE Kept
  BY <1>6, <1>10
<1>11. ASSUME NEW p \in User,
              Register(p) \/ Publish(p) \/ \E q \in User : GetBundle(p, q)
       PROVE  Kept
  <2>1. UNCHANGED <<sealed, opened, shown, typed, net, outbox>>
    BY <1>11 DEF Register, Publish, GetBundle, history
  <2> QED
    BY <1>10, <2>1
<1>12. ASSUME UNCHANGED vars PROVE Kept
  BY <1>10, <1>12 DEF vars
<1>13. ASSUME Next PROVE Kept
  BY <1>3, <1>4, <1>5, <1>7, <1>9, <1>11, <1>13 DEF Next
<1> QED
  BY <1>12, <1>13 DEF Kept

(* While the relay has prekeys, whatever the network does to the payloads  *)
(* and whenever a process dies, a terminal shows a text only to the user   *)
(* it was written for, only if its author wrote it, and once.              *)
THEOREM KeepsThePromise == Spec /\ []AlwaysAPrekey => ImplementsChannel
<1>1. SecrecyInv /\ ChannelInv /\ AlwaysAPrekey /\ [Next]_vars => ChannelInv'
  BY ChannelStep
<1>2. SecrecyInv /\ ChannelInv /\ AlwaysAPrekey /\ [Next]_vars
      => [Channel!Next]_<<{s.text : s \in sealed}, shown>>
  BY ChannelStep
<1> QED
  BY SecrecyInvInit, SecrecyInvStep, ChannelInit, <1>1, <1>2, PTL
     DEF Spec, ImplementsChannel, Channel!Spec
=============================================================================
