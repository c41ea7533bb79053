------------------------------ MODULE Session ------------------------------
(***************************************************************************)
(* The life of the sessions between users: client/cli.py from the lookup   *)
(* of a session to the payload on the wire and back, over the session      *)
(* store of client/store.py and the identity file of client/crypto/keys.py,*)
(* with the Double Ratchet and X3DH underneath.                            *)
(*                                                                         *)
(* One process per user, at most: a chat, send or fetch command.  Its      *)
(* handlers run to their next await, so an action is what happens between  *)
(* two awaits; the printer task of a chat may process an incoming message  *)
(* while the main loop awaits.  A process may die between two of its       *)
(* writes to disk, and then loses what it only held in memory.             *)
(*                                                                         *)
(* The relay is reduced to what it can do to a payload: the network is the *)
(* set of all payloads handed to the relay, each may arrive at any time,   *)
(* in any order, more than once or never.  (The relay delivers again what  *)
(* it has delivered when a sender leaves before its acknowledgement, and   *)
(* loses what it writes to a connection that is closing: see Relay.)       *)
(***************************************************************************)
EXTENDS DoubleRatchet, SequencesExt

CONSTANTS Initiations,  \* the pairs <<p, q>> of users where p writes first
          NumOpks,      \* register --opks
          MaxTexts,     \* texts a user seals, a bound of the model
          MaxKeys,      \* key pairs a user generates, a bound of the model
          MaxRegisters, \* new identities of a user, a bound of the model
          MaxCrashes    \* processes that die, a bound of the model

ASSUME SessionAssumption ==
    /\ Initiations \subseteq User \X User
    /\ \A i \in Initiations : i[1] # i[2]
    /\ NumOpks \in Nat
    /\ MaxTexts \in Nat
    /\ MaxKeys \in Nat
    /\ MaxRegisters \in Nat
    /\ MaxCrashes \in Nat

VARIABLES
    session,    \* session[p][q]: the row for peer q in p's store.db
    identity,   \* identity[p]: the number of the identity in identity.json
    opks,       \* opks[p]: ids of the one-time prekeys in p's identity.json
    published,  \* published[p]: the identity of p's bundle at the relay
    stock,      \* stock[p]: ids of p's prekeys the relay can still serve
    awaiting,   \* awaiting[p]: p's lookup in progress, peer and bundle
    outbox,     \* outbox[p]: p's sealed payload not yet handed to the relay
    net,        \* payloads handed to the relay
    keygen,     \* keygen[p]: number of p's next key pair
    typed,      \* typed[p]: number of p's next text
    crashes,    \* processes that have died so far
    sealed,     \* history: every message key used to seal, with its text
    opened,     \* history: opened[p], the message keys p opened a text with
    shown       \* history: shown[p], the texts on p's terminal

bundles == <<published, stock>>

vars == <<session, identity, opks, bundles, awaiting, outbox, net, keygen, typed,
          crashes, sealed, opened, shown>>

history == <<sealed, opened, shown>>

Text == [from : User, to : User, no : Nat]

Bundle == [ik : Key, spk : Key, opks : SUBSET Nat]

Payload == [from : User, to : User, hdr : Header,
            x3dh : X3dhHeader \cup {None}, key : MessageKey, text : Text]

(* A payload that waits to be sent is there. *)
ASSUME NoneIsNoPayload == None \notin Payload

TypeOK ==
    /\ session \in [User -> [User -> RatchetState \cup {None}]]
    /\ identity \in [User -> Nat]
    /\ opks \in [User -> SUBSET Nat]
    /\ published \in [User -> Nat]
    /\ stock \in [User -> SUBSET Nat]
    /\ awaiting \in [User -> [peer : User, bundle : Bundle] \cup {None}]
    /\ outbox \in [User -> Payload \cup {None}]
    /\ net \in SUBSET Payload
    /\ keygen \in [User -> Nat]
    /\ typed \in [User -> Nat]
    /\ crashes \in Nat
    /\ sealed \in SUBSET [key : MessageKey, text : Text]
    /\ opened \in [User -> SUBSET MessageKey]
    /\ shown \in [User -> Seq(Text)]

(* Every user has registered: identity on disk, bundle on the relay. *)
Init ==
    /\ session = [p \in User |-> [q \in User |-> None]]
    /\ identity = [p \in User |-> 0]
    /\ opks = [p \in User |-> GeneratedOpks(NumOpks)]
    /\ published = [p \in User |-> 0]
    /\ stock = [p \in User |-> GeneratedOpks(NumOpks)]
    /\ awaiting = [p \in User |-> None]
    /\ outbox = [p \in User |-> None]
    /\ net = {}
    /\ keygen = [p \in User |-> 0]
    /\ typed = [p \in User |-> 0]
    /\ crashes = 0
    /\ sealed = {}
    /\ opened = [p \in User |-> {}]
    /\ shown = [p \in User |-> << >>]

-----------------------------------------------------------------------------
(* The session store: the row of q in p's database holds all of a ratchet  *)
(* state and is committed before save_session returns.                     *)

HasSession(p, q) == session[p][q] # None

SaveSession(p, q, st) == session' = [session EXCEPT ![p][q] = st]

-----------------------------------------------------------------------------
(* Sending. *)

(* No command of p waits for the relay. *)
Idle(p) == awaiting[p] = None /\ outbox[p] = None

(* register over an existing identity: all keys are new, the sessions stay.*)
Register(p) ==
    /\ Idle(p)
    /\ identity[p] < MaxRegisters
    /\ identity' = [identity EXCEPT ![p] = @ + 1]
    /\ opks' = [opks EXCEPT ![p] = GeneratedOpks(NumOpks)]
    /\ UNCHANGED <<session, bundles, awaiting, outbox, net, keygen, typed,
                   crashes, history>>

(* Every command starts by registering the bundle of the identity file,    *)
(* and does nothing before that.                                           *)
Publish(p) ==
    /\ Idle(p)
    /\ published' = [published EXCEPT ![p] = identity[p]]
    /\ stock' = [stock EXCEPT ![p] = opks[p]]
    /\ UNCHANGED <<session, identity, opks, awaiting, outbox, net, keygen,
                   typed, crashes, history>>

Registered(p) == published[p] = identity[p]

(* The bundle is asked for although there is a session. *)
MutGetBundle(p, q) ==
    LET served == IF stock[q] = {} THEN {} ELSE {FirstOpk(stock[q])} IN
    /\ Idle(p) /\ Registered(p)
    /\ <<p, q>> \in Initiations
    /\ awaiting' = [awaiting EXCEPT
                      ![p] = [peer   |-> q,
                              bundle |-> PublicBundle(q, published[q], served)]]
    /\ stock' = [stock EXCEPT ![q] = @ \ served]
    /\ UNCHANGED <<session, identity, opks, published, outbox, net, keygen,
                   typed, crashes, history>>

(* has_session is false: ask the relay for the bundle of q.  The relay     *)
(* serves one of q's prekeys and forgets it.                               *)
GetBundle(p, q) ==
    LET served == IF stock[q] = {} THEN {} ELSE {FirstOpk(stock[q])} IN
    /\ Idle(p) /\ Registered(p)
    /\ <<p, q>> \in Initiations
    /\ ~ HasSession(p, q)
    /\ awaiting' = [awaiting EXCEPT
                      ![p] = [peer   |-> q,
                              bundle |-> PublicBundle(q, published[q], served)]]
    /\ stock' = [stock EXCEPT ![q] = @ \ served]
    /\ UNCHANGED <<session, identity, opks, published, outbox, net, keygen,
                   typed, crashes, history>>

(* The ratchet state p saves once it has the bundle it waits for. *)
InitiatorState(p) ==
    InitSender(X3dhSecretSend(IK(p, identity[p]), awaiting[p].bundle,
                              EK(p, keygen[p])),
               awaiting[p].bundle.spk, RatchetKey(p, keygen[p]))

(* The state is saved before the text is sealed, and not after. *)
MutSeal(p, q, st, x3dh) ==
    LET text == [from |-> p, to |-> q, no |-> typed[p]] IN
    /\ typed[p] < MaxTexts
    /\ typed' = [typed EXCEPT ![p] = @ + 1]
    /\ SaveSession(p, q, st)
    /\ sealed' = sealed \cup {[key |-> SealingKey(st), text |-> text]}
    /\ outbox' = [outbox EXCEPT
                    ![p] = [from |-> p, to |-> q, hdr |-> SealedHeader(st),
                            x3dh |-> x3dh, key |-> SealingKey(st),
                            text |-> text]]

(* Seal p's next text for q in state st, save the state, keep the payload. *)
Seal(p, q, st, x3dh) ==
    LET text == [from |-> p, to |-> q, no |-> typed[p]] IN
    /\ typed[p] < MaxTexts
    /\ typed' = [typed EXCEPT ![p] = @ + 1]
    /\ SaveSession(p, q, AfterEncrypt(st))
    /\ sealed' = sealed \cup {[key |-> SealingKey(st), text |-> text]}
    /\ outbox' = [outbox EXCEPT
                    ![p] = [from |-> p, to |-> q, hdr |-> SealedHeader(st),
                            x3dh |-> x3dh, key |-> SealingKey(st),
                            text |-> text]]

(* The X3DH header is not attached: there is a session by now. *)
MutInitiate(p) ==
    /\ awaiting[p] # None
    /\ keygen[p] < MaxKeys
    /\ Seal(p, awaiting[p].peer, InitiatorState(p), None)
    /\ keygen' = [keygen EXCEPT ![p] = @ + 1]
    /\ awaiting' = [awaiting EXCEPT ![p] = None]
    /\ UNCHANGED <<identity, opks, bundles, net, crashes, opened, shown>>

(* The bundle arrives: session saved, first text sealed, X3DH header       *)
(* attached.  A session the printer saved meanwhile is overwritten.        *)
Initiate(p) ==
    /\ awaiting[p] # None
    /\ keygen[p] < MaxKeys
    /\ Seal(p, awaiting[p].peer, InitiatorState(p),
            X3dhHeaderSend(IK(p, identity[p]), awaiting[p].bundle,
                           EK(p, keygen[p])))
    /\ keygen' = [keygen EXCEPT ![p] = @ + 1]
    /\ awaiting' = [awaiting EXCEPT ![p] = None]
    /\ UNCHANGED <<identity, opks, bundles, net, crashes, opened, shown>>

(* has_session is true. *)
Send(p, q) ==
    /\ Idle(p) /\ Registered(p)
    /\ HasSession(p, q)
    /\ CanEncrypt(session[p][q])
    /\ Seal(p, q, session[p][q], None)
    /\ UNCHANGED <<identity, opks, bundles, awaiting, net, keygen, crashes,
                   opened, shown>>

(* The payload is handed to the relay. *)
Transmit(p) ==
    /\ outbox[p] # None
    /\ net' = net \cup {outbox[p]}
    /\ outbox' = [outbox EXCEPT ![p] = None]
    /\ UNCHANGED <<session, identity, opks, bundles, awaiting, keygen, typed,
                   crashes, history>>

-----------------------------------------------------------------------------
(* Receiving: _process_envelope. *)

(* The payload does not stop at a failed X3DH or a missing session. *)
Accepts(p, m) ==
    IF m.x3dh = None THEN HasSession(p, m.from)
                     ELSE OpkHeld(opks[p], m.x3dh)

(* The state that decrypts m: the stored one, or that of _x3dh_respond. *)
ReceiverState(p, m) ==
    IF m.x3dh = None THEN session[p][m.from]
    ELSE InitReceiver(X3dhSecretReceive(p, identity[p], m.x3dh),
                      SPK(p, identity[p]))

(* _x3dh_respond takes the prekey out of the identity and saves it. *)
OpksAfter(p, m) ==
    IF m.x3dh = None THEN opks[p] ELSE PopOpk(opks[p], m.x3dh.opk_id)

(* m decrypts: the state it leaves is saved, the text is printed.  A       *)
(* payload that does not decrypt leaves only what _x3dh_respond saved.     *)
Receive(p, m) ==
    LET st    == ReceiverState(p, m)
        fresh == RatchetKey(p, keygen[p])
        opens == Opens(st, m.hdr, m.key, fresh)
        after == IF opens THEN AfterDecrypt(st, m.hdr, fresh) ELSE st
    IN  /\ m.to = p
        /\ Registered(p)
        /\ Accepts(p, m)
        /\ keygen[p] < MaxKeys
        /\ opens \/ m.x3dh # None
        /\ SaveSession(p, m.from, after)
        /\ opks' = [opks EXCEPT ![p] = OpksAfter(p, m)]
        /\ keygen' = [keygen EXCEPT
                        ![p] = IF after.dh_self = fresh THEN @ + 1 ELSE @]
        /\ opened' = [opened EXCEPT ![p] = IF opens THEN @ \cup {m.key} ELSE @]
        /\ shown' = [shown EXCEPT ![p] = IF opens THEN Append(@, m.text) ELSE @]
        /\ UNCHANGED <<identity, bundles, awaiting, outbox, net, typed, crashes,
                       sealed>>

-----------------------------------------------------------------------------
(* A process dies, and with it what it waited for and had not yet sent. *)

Die(p) ==
    /\ crashes < MaxCrashes
    /\ crashes' = crashes + 1
    /\ awaiting' = [awaiting EXCEPT ![p] = None]
    /\ outbox' = [outbox EXCEPT ![p] = None]
    /\ UNCHANGED <<identity, bundles, net, typed, history>>

Crash(p) ==
    /\ ~ Idle(p)
    /\ Die(p)
    /\ UNCHANGED <<session, opks, keygen>>

(* Between the save of the new session and that of the sealed text. *)
CrashInInitiate(p) ==
    /\ awaiting[p] # None
    /\ keygen[p] < MaxKeys
    /\ SaveSession(p, awaiting[p].peer, InitiatorState(p))
    /\ keygen' = [keygen EXCEPT ![p] = @ + 1]
    /\ Die(p)
    /\ UNCHANGED opks

(* In _x3dh_respond, between the save of the identity and of the session. *)
CrashAfterPop(p, m) ==
    /\ m.to = p
    /\ Registered(p)
    /\ m.x3dh # None
    /\ m.x3dh.opk_id # None
    /\ Accepts(p, m)
    /\ opks' = [opks EXCEPT ![p] = OpksAfter(p, m)]
    /\ Die(p)
    /\ UNCHANGED <<session, keygen>>

(* Between _x3dh_respond and the save of the decrypted session. *)
CrashAfterRespond(p, m) ==
    /\ m.to = p
    /\ Registered(p)
    /\ m.x3dh # None
    /\ Accepts(p, m)
    /\ opks' = [opks EXCEPT ![p] = OpksAfter(p, m)]
    /\ SaveSession(p, m.from, ReceiverState(p, m))
    /\ Die(p)
    /\ UNCHANGED keygen

-----------------------------------------------------------------------------
Next ==
    \E p \in User :
        \/ Register(p)
        \/ Publish(p)
        \/ \E q \in User : GetBundle(p, q) \/ Send(p, q)
        \/ Initiate(p)
        \/ Transmit(p)
        \/ Crash(p)
        \/ CrashInInitiate(p)
        \/ \E m \in net :
              Receive(p, m) \/ CrashAfterPop(p, m) \/ CrashAfterRespond(p, m)

Spec == Init /\ [][Next]_vars

-----------------------------------------------------------------------------
(* Properties. *)

(* What the stored state st still gives away: a cached key, the chains     *)
(* from where they stand, and whatever the root key will be ratcheted to.  *)
Derivable(st, k) ==
    \/ \E e \in st.skipped : e.key = k
    \/ \E ck \in {st.send_ck, st.recv_ck} \ {None} :
          k.root = ck.root /\ k.n >= ck.n
    \/ k.root.sk = st.root_key.sk
       /\ IsStrictPrefix(st.root_key.dhs, k.root.dhs)

(* The session key behind k took a one-time prekey. *)
WithOpk(k) == k.root.sk.dh4 # {}

(* No two texts are ever sealed with one message key, whatever is lost in  *)
(* a crash: the advanced chain is on disk before the payload leaves.       *)
NoKeyReuse == \A s, t \in sealed : s.key = t.key => s.text = t.text

(* The keys p has used, to seal or to open, cannot be had from p's store   *)
(* any more: "Old message keys deleted after use".                         *)
ForwardSecrecy ==
    \A p, q \in User :
        session[p][q] # None =>
            \A k \in opened[p] \cup {s.key : s \in {t \in sealed : t.text.from = p}} :
                WithOpk(k) => ~ Derivable(session[p][q], k)

(* Payload m is more than MAX_SKIP keys ahead of st: in the chain st       *)
(* receives, or as one of a later chain, of which st has read nothing, or  *)
(* whose header says that st misses as many of the chain before.           *)
TooFarAhead(st, m) ==
    \/ /\ m.hdr.dh_pub = st.dh_remote
       /\ m.hdr.n - st.recv_n > MAX_SKIP
    \/ /\ Len(m.key.root.dhs) > Len(st.root_key.dhs)
       /\ m.hdr.n > MAX_SKIP \/ m.hdr.pn - st.recv_n > MAX_SKIP

(* Whatever arrived, failed or was lost before, and in whatever order: a   *)
(* payload of the session its addressee has that was not opened yet can be *)
(* opened, unless it is too far ahead.  One that was passed over, or whose *)
(* chain was left, always can.  A new identity of either user changes      *)
(* nothing in that.                                                        *)
PayloadsStayReadable ==
    \A m \in net :
        LET st    == session[m.to][m.from]
            fresh == RatchetKey(m.to, keygen[m.to])
        IN  (/\ m.x3dh = None /\ st # None /\ m.key \notin opened[m.to]
             /\ st.root_key.sk = m.key.root.sk) =>
                Opens(st, m.hdr, m.key, fresh) \/ TooFarAhead(st, m)

(* The payload was made for the identity its addressee has. *)
ForIdentity(m) == SPK(m.to, identity[m.to]) \in m.key.root.sk.dh3

(* The header of a first payload, while its identity and its prekey are    *)
(* held, leads the responder to the key that sealed it: x3dh_receive and   *)
(* init_receiver mirror x3dh_send and init_sender, whatever either side    *)
(* did since.                                                              *)
AcceptedHeaderOpens ==
    \A m \in net :
        (m.x3dh # None /\ OpkHeld(opks[m.to], m.x3dh) /\ ForIdentity(m)) =>
            Opens(ReceiverState(m.to, m), m.hdr, m.key,
                  RatchetKey(m.to, keygen[m.to]))

(* Once everything sent between two users has been read, the two ends of   *)
(* their session descend from one X3DH secret.                             *)
SessionsShareSecret ==
    \A p, q \in User :
        (/\ session[p][q] # None /\ session[q][p] # None
         /\ Idle(p) /\ Idle(q)
         /\ \A m \in net : {m.from, m.to} = {p, q} => m.key \in opened[m.to])
        => session[p][q].root_key.sk = session[q][p].root_key.sk

(* No payload of an initiator's first chain leaves unless one with the     *)
(* X3DH header has left: the peer has no other way to the session key.     *)
FirstPayloadCarriesHeader ==
    \A m \in net :
        Len(m.key.root.dhs) = 1 =>
            \E f \in net : f.x3dh # None /\ f.key.root = m.key.root

(* One prekey serves one initiator. *)
PrekeysServeOnce ==
    \A m, f \in net :
        (/\ m.to = f.to /\ m.x3dh # None /\ f.x3dh # None
         /\ m.x3dh.opk_id # None /\ m.x3dh.opk_id = f.x3dh.opk_id)
        => m.x3dh.ek = f.x3dh.ek

(* A stored session is never dropped, and under one X3DH secret it only    *)
(* moves forward: no step returns to an earlier root, or counter.          *)
SessionsOnlyAdvance ==
    [][\A p, q \in User :
         LET s == session[p][q]
             t == session'[p][q]
         IN  s # None =>
                /\ t # None
                /\ t.root_key.sk = s.root_key.sk =>
                     /\ IsPrefix(s.root_key.dhs, t.root_key.dhs)
                     /\ t.root_key = s.root_key =>
                          s.send_n <= t.send_n /\ s.recv_n <= t.recv_n]_vars

(* The promise of the messenger as a whole. *)
Channel == INSTANCE SecureChannel WITH written <- {s.text : s \in sealed}

ImplementsChannel == Channel!Spec
=============================================================================
