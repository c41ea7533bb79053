------------------------------- MODULE Relay -------------------------------
(***************************************************************************)
(* The relay server, server/relay.py.  Each connection has a handler, a    *)
(* coroutine that takes the requests of its client one at a time.  Every   *)
(* _send awaits: an action is what a handler does between two awaits.      *)
(*                                                                         *)
(* The websockets library, as the relay uses it: a send on a connection    *)
(* known to be closed raises; otherwise the frame is written at once, and  *)
(* the await that follows returns, or raises when the connection closes    *)
(* meanwhile.  A connection its client has left is "leaving" until the     *)
(* library notices: what is written to it then is gone without an error.   *)
(***************************************************************************)
EXTENDS Integers, Sequences, FiniteSets, SequencesExt

CONSTANTS User,      \* usernames
          Conn,      \* connections
          None,      \* Python's None
          Owner,     \* Owner[c]: the user whose client opens connection c
          Scripts,   \* Scripts[c]: request sequences c's client may send
          NumOpks    \* prekeys in a published bundle

RequestType == {"register", "get_bundle", "send", "fetch", "unknown"}

(* "to" is the user a get_bundle or a send names; a "register" that names  *)
(* None carries no username.                                               *)
Request == [type : RequestType, to : User \cup {None}]

ASSUME RelayAssumption ==
    /\ None \notin User \cup Conn
    /\ Owner \in [Conn -> User]
    /\ Scripts \in [Conn -> SUBSET Seq(Request)]
    /\ NumOpks \in Nat

(* One request sequence for every connection. *)
ChosenScripts ==
    {s \in [Conn -> UNION Range(Scripts)] : \A c \in Conn : s[c] \in Scripts[c]}

VARIABLES
    ws,           \* ws[c]: the state of connection c
    script,       \* script[c]: the requests the client of c makes
    next,         \* next[c]: the number of the request the handler awaits
    handler,      \* handler[c]: where the coroutine of c stands
    bundles,      \* bundles[u]: the prekeys of u left to serve
    queues,       \* queues[u]: envelopes waiting for u
    connections,  \* connections[u]: u's active connection
    frames,       \* history: frames[c], all that was written to c
    accepted,     \* history: the envelopes of all accepted sends
    lost          \* history: what fetches popped for a closed connection

vars == <<ws, script, next, handler, bundles, queues, connections, frames,
          accepted, lost>>

(* An envelope is known by the request it came with. *)
Envelope == [from : User, to : User, conn : Conn, no : Nat]

(* An upload is the registration that published a bundle, at its number of *)
(* request on its connection.                                              *)
PublishedBundle == [conn : Conn, no : Nat, opks : SUBSET Nat]

Frame == [type : {"error"}]
         \cup [type : {"ok"}, msg : {"registered", "delivered", "queued"}]
         \cup [type : {"bundle"}, bundle : PublishedBundle]
         \cup [type : {"messages"}, messages : Seq(Envelope)]
         \cup [type : {"deliver"}, envelope : Envelope]

(* The locals of a handler: where it awaits, the username it has, the one  *)
(* it gets when the reply is through, the envelope and the recipient's     *)
(* connection of a send.                                                   *)
Handler == [pc : {"idle", "reply", "deliver", "ack", "done"},
            user : User \cup {None}, then : User \cup {None},
            envelope : Envelope \cup {None}, rcpt : Conn \cup {None}]

TypeOK ==
    /\ ws \in [Conn -> {"new", "open", "leaving", "closed"}]
    /\ script \in ChosenScripts
    /\ next \in [Conn -> Nat]
    /\ handler \in [Conn -> Handler]
    /\ bundles \in [User -> PublishedBundle \cup {None}]
    /\ queues \in [User -> Seq(Envelope)]
    /\ connections \in [User -> Conn \cup {None}]
    /\ frames \in [Conn -> Seq(Frame)]
    /\ accepted \in SUBSET Envelope
    /\ lost \in SUBSET Envelope

NewHandler == [pc |-> "idle", user |-> None, then |-> None,
               envelope |-> None, rcpt |-> None]

Init ==
    /\ ws = [c \in Conn |-> "new"]
    /\ script \in ChosenScripts
    /\ next = [c \in Conn |-> 1]
    /\ handler = [c \in Conn |-> NewHandler]
    /\ bundles = [u \in User |-> None]
    /\ queues = [u \in User |-> << >>]
    /\ connections = [u \in User |-> None]
    /\ frames = [c \in Conn |-> << >>]
    /\ accepted = {}
    /\ lost = {}

-----------------------------------------------------------------------------
(* Clients and the library. *)

SetWs(c, from, to) ==
    /\ ws[c] = from
    /\ ws' = [ws EXCEPT ![c] = to]
    /\ UNCHANGED <<script, next, handler, bundles, queues, connections,
                   frames, accepted, lost>>

Connect(c) == SetWs(c, "new", "open")

(* The client closes the connection, or dies. *)
Leave(c) == SetWs(c, "open", "leaving")

(* The server's end of the connection learns of it. *)
Notice(c) == SetWs(c, "leaving", "closed")

-----------------------------------------------------------------------------
(* What handlers are made of. *)

(* The active connections once the handler of c, which serves user, is     *)
(* through, whoever is registered.                                         *)
MutUnregister(conns, c, user) ==
    IF user # None THEN [conns EXCEPT ![user] = None] ELSE conns

(* The finally clause of handler: a newer connection is left alone. *)
Unregister(conns, c, user) ==
    IF user # None /\ conns[user] = c
    THEN [conns EXCEPT ![user] = None] ELSE conns

(* An exception leaves the loop of c's handler; conns are the active       *)
(* connections by then.                                                    *)
Exit(c, conns) ==
    /\ handler' = [handler EXCEPT ![c].pc = "done"]
    /\ connections' = Unregister(conns, c, handler[c].user)

(* The last send of a handler: it writes frame f to c and awaits, to serve *)
(* user from then on, or it raises.                                        *)
Reply(c, f, user, conns) ==
    \/ /\ ws[c] # "closed"
       /\ frames' = [frames EXCEPT ![c] = Append(@, f)]
       /\ handler' = [handler EXCEPT ![c] = [NewHandler EXCEPT
                        !.pc = "reply", !.user = handler[c].user,
                        !.then = user]]
       /\ connections' = conns
    \/ /\ ws[c] = "closed"
       /\ Exit(c, conns)
       /\ UNCHANGED frames

Ok(msg) == [type |-> "ok", msg |-> msg]
Error   == [type |-> "error"]

ReplyError(c) ==
    /\ Reply(c, Error, handler[c].user, connections)
    /\ UNCHANGED <<bundles, queues, accepted, lost>>

(* The handler of c takes a request of type t from the connection. *)
Takes(c, t) ==
    /\ handler[c].pc = "idle"
    /\ ws[c] # "new"
    /\ next[c] \in DOMAIN script[c]
    /\ script[c][next[c]].type = t
    /\ next' = [next EXCEPT ![c] = @ + 1]
    /\ UNCHANGED <<ws, script>>

Named(c) == script[c][next[c]].to

-----------------------------------------------------------------------------
(* _handle_register.  The handler has a username when the reply is through.*)

Register(c) ==
    LET u == Owner[c] IN
    /\ Takes(c, "register")
    /\ Named(c) # None
    /\ bundles' = [bundles EXCEPT
                     ![u] = [conn |-> c, no |-> next[c],
                             opks |-> 0 .. NumOpks - 1]]
    /\ Reply(c, Ok("registered"), u, [connections EXCEPT ![u] = c])
    /\ UNCHANGED <<queues, accepted, lost>>

(* A bundle without a username: the handler forgets the one it had. *)
RegisterNobody(c) ==
    /\ Takes(c, "register")
    /\ Named(c) = None
    /\ Reply(c, Error, None, connections)
    /\ UNCHANGED <<bundles, queues, accepted, lost>>

(* Invalid JSON, an unknown type. *)
Unknown(c) == Takes(c, "unknown") /\ ReplyError(c)

-----------------------------------------------------------------------------
(* _handle_get_bundle: the first prekey is served, the others are kept.    *)

First(opks) == IF opks = {} THEN {} ELSE {CHOOSE i \in opks : \A j \in opks : i <= j}

(* What is left of the prekeys opks when one is served: all of them. *)
MutUnserved(opks) == opks

Unserved(opks) == opks \ First(opks)

HasBundle(u) == u # None /\ bundles[u] # None

GetBundle(c) ==
    LET u == Named(c) IN
    /\ Takes(c, "get_bundle")
    /\ HasBundle(u)
    /\ bundles' = [bundles EXCEPT ![u].opks = Unserved(@)]
    /\ Reply(c, [type   |-> "bundle",
                 bundle |-> [bundles[u] EXCEPT !.opks = First(@)]],
             handler[c].user, connections)
    /\ UNCHANGED <<queues, accepted, lost>>

(* An unknown user is no reason to reply. *)
MutGetNoBundle(c) ==
    /\ Takes(c, "get_bundle")
    /\ ~ HasBundle(Named(c))
    /\ UNCHANGED <<handler, bundles, queues, connections, frames, accepted,
                   lost>>

GetNoBundle(c) ==
    /\ Takes(c, "get_bundle")
    /\ ~ HasBundle(Named(c))
    /\ ReplyError(c)

-----------------------------------------------------------------------------
(* _handle_send. *)

(* Only a user who has registered has a queue. *)
MutEnqueue(e) ==
    IF bundles[e.to] = None THEN UNCHANGED queues
    ELSE queues' = [queues EXCEPT ![e.to] = Append(@, e)]

Enqueue(e) == queues' = [queues EXCEPT ![e.to] = Append(@, e)]

RefuseSend(c) ==
    /\ Takes(c, "send")
    /\ handler[c].user = None \/ Named(c) = None
    /\ ReplyError(c)

(* A send on connection rcpt does not raise at once. *)
Works(rcpt) == rcpt # None /\ ws[rcpt] # "closed"

(* The envelope is written to the recipient's active connection, if there  *)
(* is one that works, and queued otherwise.                                *)
Send(c) ==
    LET e    == [from |-> handler[c].user, to |-> Named(c),
                 conn |-> c, no |-> next[c]]
        rcpt == connections[e.to]
    IN  /\ Takes(c, "send")
        /\ handler[c].user # None /\ Named(c) # None
        /\ accepted' = accepted \cup {e}
        /\ \/ /\ Works(rcpt)
              /\ frames' = [frames EXCEPT
                   ![rcpt] = Append(@, [type |-> "deliver", envelope |-> e])]
              /\ handler' = [handler EXCEPT ![c] = [@ EXCEPT
                               !.pc = "deliver", !.envelope = e,
                               !.rcpt = rcpt]]
              /\ UNCHANGED <<queues, connections>>
           \/ /\ ~ Works(rcpt)
              /\ Enqueue(e)
              /\ Reply(c, Ok("queued"), handler[c].user, connections)
        /\ UNCHANGED <<bundles, lost>>

(* The await of the live delivery raises: the envelope is queued. *)
DeliveryRaises(c) ==
    /\ handler[c].pc = "deliver"
    /\ ws[handler[c].rcpt] = "closed"
    /\ Enqueue(handler[c].envelope)
    /\ Reply(c, Ok("queued"), handler[c].user, connections)
    /\ UNCHANGED <<ws, script, next, bundles, accepted, lost>>

(* It returns: the sender is told, within the try clause. *)
Acknowledge(c) ==
    /\ handler[c].pc = "deliver"
    /\ ws[c] # "closed"
    /\ frames' = [frames EXCEPT ![c] = Append(@, Ok("delivered"))]
    /\ handler' = [handler EXCEPT ![c].pc = "ack"]
    /\ UNCHANGED <<ws, script, next, bundles, queues, connections, accepted,
                   lost>>

(* Telling the sender raises, before or after the frame is written: the    *)
(* envelope is queued, and telling the sender so raises again.             *)
AcknowledgeRaises(c) ==
    /\ handler[c].pc \in {"deliver", "ack"}
    /\ ws[c] = "closed"
    /\ Enqueue(handler[c].envelope)
    /\ Exit(c, connections)
    /\ UNCHANGED <<ws, script, next, bundles, frames, accepted, lost>>

-----------------------------------------------------------------------------
(* _handle_fetch: the queue is emptied, then its content sent; what was in *)
(* it is lost when the connection is closed by then: the send raises.       *)

(* The messages are sent and stay in the queue. *)
MutFetch(c) ==
    LET u == handler[c].user IN
    /\ Takes(c, "fetch")
    /\ u # None
    /\ Reply(c, [type |-> "messages", messages |-> queues[u]], u, connections)
    /\ UNCHANGED <<queues, bundles, accepted, lost>>

(* The queue is popped and not set up again. *)
MutFetchPops(c) ==
    LET u == handler[c].user IN
    /\ Takes(c, "fetch")
    /\ u # None
    /\ queues' = [queues EXCEPT ![u] = None]
    /\ Reply(c, [type |-> "messages", messages |-> queues[u]], u, connections)
    /\ lost' = IF ws[c] = "closed" THEN lost \cup Range(queues[u]) ELSE lost
    /\ UNCHANGED <<bundles, accepted>>

Fetch(c) ==
    LET u == handler[c].user IN
    /\ Takes(c, "fetch")
    /\ u # None
    /\ queues' = [queues EXCEPT ![u] = << >>]
    /\ Reply(c, [type |-> "messages", messages |-> queues[u]], u, connections)
    /\ lost' = IF ws[c] = "closed" THEN lost \cup Range(queues[u]) ELSE lost
    /\ UNCHANGED <<bundles, accepted>>

RefuseFetch(c) ==
    /\ Takes(c, "fetch")
    /\ handler[c].user = None
    /\ ReplyError(c)

-----------------------------------------------------------------------------
(* The last send of a request returns: on to the next request. *)
Resume(c) ==
    /\ handler[c].pc \in {"reply", "ack"}
    /\ handler' = [handler EXCEPT ![c] = [NewHandler EXCEPT
                     !.user = IF handler[c].pc = "ack" THEN handler[c].user
                              ELSE handler[c].then]]
    /\ UNCHANGED <<ws, script, next, bundles, queues, connections, frames,
                   accepted, lost>>

(* The loop over the requests of a closed connection ends, or its last     *)
(* send raises.                                                            *)
Disconnected(c) ==
    /\ handler[c].pc \in {"idle", "reply"}
    /\ ws[c] = "closed"
    /\ Exit(c, connections)
    /\ UNCHANGED <<ws, script, next, bundles, queues, frames, accepted, lost>>

TakeRequest(c) ==
    \/ Register(c) \/ RegisterNobody(c) \/ Unknown(c)
    \/ GetBundle(c) \/ GetNoBundle(c)
    \/ Send(c) \/ RefuseSend(c)
    \/ Fetch(c) \/ RefuseFetch(c)

(* Whatever ends an await of a handler that is busy with a request. *)
Continue(c) ==
    \/ Resume(c) \/ Disconnected(c)
    \/ DeliveryRaises(c) \/ Acknowledge(c) \/ AcknowledgeRaises(c)

Next ==
    \E c \in Conn :
        \/ Connect(c) \/ Leave(c) \/ Notice(c)
        \/ TakeRequest(c) \/ Continue(c)

Spec == Init /\ [][Next]_vars

-----------------------------------------------------------------------------
(* Properties. *)

Queued(e) == \E i \in DOMAIN queues[e.to] : queues[e.to][i] = e

(* Frame f brings e to a client. *)
Carries(f, e) ==
    \/ f.type = "deliver" /\ f.envelope = e
    \/ f.type = "messages" /\ \E i \in DOMAIN f.messages : f.messages[i] = e

(* Where e was written: the connection, and the number of the frame. *)
Writings(e) ==
    UNION {{c} \X {i \in DOMAIN frames[c] : Carries(frames[c][i], e)} :
             c \in Conn}

(* An envelope the relay accepted is waiting in the queue of its addressee *)
(* or was written to a connection, unless this envelope was popped by a    *)
(* fetch whose connection was closed, which wrote no messages: no other    *)
(* step loses one, and the fetches that get through excuse nothing.        *)
LostOnlyInFetch ==
    \A e \in accepted : Queued(e) \/ Writings(e) # {} \/ e \in lost

(* An envelope goes to its addressee alone.  It is delivered live or       *)
(* queued, and written once, unless the handler of the sender ended or a   *)
(* connection it was written to closed.                                    *)
HandledOnceWhileOpen ==
    \A e \in accepted :
        LET w == Writings(e) IN
        /\ \A x \in w : Owner[x[1]] = e.to
        /\ (w # {} /\ Queued(e)) \/ Cardinality(w) > 1 =>
               \/ handler[e.conn].pc = "done"
               \/ \E x \in w : ws[x[1]] = "closed"

(* A handler has one reply written for each request it took, none or one   *)
(* for that it works on: a client that sends and waits for one reply does  *)
(* not fall out of step with the relay on account of the relay's replies.  *)
OneReplyPerRequest ==
    \A c \in Conn :
        LET replies == {i \in DOMAIN frames[c] : frames[c][i].type # "deliver"}
            behind  == (next[c] - 1) - Cardinality(replies)
        IN  /\ handler[c].pc \in {"idle", "reply", "ack"} => behind = 0
            /\ handler[c].pc = "deliver" => behind = 1

(* A prekey of one upload is served to one client. *)
PrekeysServedOnce ==
    \A c, d \in Conn : \A i \in DOMAIN frames[c], j \in DOMAIN frames[d] :
        (/\ frames[c][i].type = "bundle" /\ frames[d][j].type = "bundle"
         /\ frames[c][i].bundle.opks # {}
         /\ frames[c][i].bundle = frames[d][j].bundle)
        => <<c, i>> = <<d, j>>

(* A client registers at most once on a connection, as every command does. *)
RegistersOnce ==
    \A c \in Conn : \A s \in Scripts[c] : \A i, j \in DOMAIN s :
        (/\ s[i].type = "register" /\ s[i].to # None
         /\ s[j].type = "register" /\ s[j].to # None) => i = j

(* A user's active connection is only taken off when it is closed: the     *)
(* handler of an older connection leaves the newer one in place.           *)
OpenConnectionStays ==
    [][\A u \in User :
         (connections[u] # None /\ connections'[u] = None)
            => ws[connections[u]] = "closed"]_vars
=============================================================================
