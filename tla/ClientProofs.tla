---------------------------- MODULE ClientProofs ----------------------------
(***************************************************************************)
(* Theorems about Client, for any users, connections, commands and number  *)
(* of failures: what clients take for replies, what becomes of messages,   *)
(* and what a send reports.                                                *)
(***************************************************************************)
EXTENDS Client, RelayProofs

-----------------------------------------------------------------------------
(* The invariant. *)

(* The requests a client has made, and what it took the replies for: each  *)
(* starts with its one register, and a send comes last.                    *)
Requested(c) ==
    /\ \A k \in DOMAIN script[c] :
          /\ script[c][k].type \in Waiting
          /\ script[c][k].type = "register" <=> k = 1
          /\ script[c][k].type = "send" =>
                /\ k = Len(script[c])
                /\ script[c][k].to = command[c].peer /\ script[c][k].to \in User
    /\ \A i \in DOMAIN taken[c] :
          taken[c][i] = IF i \in DOMAIN script[c] THEN script[c][i].type ELSE "chatting"

(* Where a client stands. *)
Stands(c) ==
    /\ pc[c] = "new" => ws[c] = "new" /\ script[c] = << >> /\ taken[c] = << >>
    /\ pc[c] # "new" => command[c] # None
    /\ pc[c] \in Waiting =>
          /\ Len(script[c]) = Len(taken[c]) + 1
          /\ script[c][Len(script[c])].type = pc[c]
    /\ pc[c] \in {"get_bundle", "send"} => command[c].name = "send"
    /\ pc[c] = "fetch" => command[c].name \in {"fetch", "chat"}
    /\ pc[c] = "chatting" => Len(script[c]) <= Len(taken[c])

InLine == \A c \in Conn : Requested(c) /\ Stands(c) /\ Len(taken[c]) <= Len(frames[c])

(* The envelope of request k of connection c. *)
EnvelopeOf(c, k) == [from |-> Owner[c], to |-> script[c][k].to, conn |-> c, no |-> k]

IsSend(c, k) == k \in DOMAIN script[c] /\ script[c][k].type = "send"

(* Envelope e was written to an active connection, or in answer to a fetch.*)
IsLive(e) ==
    \E d \in Conn : \E i \in DOMAIN frames[d] :
        frames[d][i].type = "deliver" /\ Carries(frames[d][i], e)

IsFetched(e) ==
    \E d \in Conn : \E i \in DOMAIN frames[d] :
        frames[d][i].type = "messages" /\ Carries(frames[d][i], e)

(* What becomes of an envelope that was queued. *)
WasQueued(e) ==
    Queued(e) \/ e \in forgotten \/ e \in lost \/ IsFetched(e)

(* A handler that delivers does so for the request it took last. *)
HandTrue(c) ==
    Delivering(c) => \E k \in DOMAIN script[c] :
        /\ k = next[c] - 1 /\ IsSend(c, k)
        /\ handler[c].envelope = EnvelopeOf(c, k) /\ IsLive(EnvelopeOf(c, k))

HandSent == \A c \in Conn : HandTrue(c)

(* Nothing is delivered on a connection before its register is answered.   *)
FirstFrames ==
    /\ \A c \in Conn :
          /\ next[c] <= Len(script[c]) + 1
          /\ next[c] = 1 => frames[c] = << >>
          /\ frames[c] # << >> => frames[c][1].type # "deliver"
    /\ \A u \in User : connections[u] # None =>
          frames[connections[u]] # << >> \/ ws[connections[u]] = "closed"

(* Until something is delivered, frames and requests are in step. *)
NoDelivery(c, n) == \A j \in 1 .. n : frames[c][j].type # "deliver"

NoneDelivered(c) == \A j \in DOMAIN frames[c] : frames[c][j].type # "deliver"

AnsweredSoFar(c) ==
    /\ \A i \in DOMAIN frames[c] : NoDelivery(c, i) =>
          i < next[c] /\ Answers(frames[c][i], script[c][i].type)
    /\ NoneDelivered(c) =>
          /\ handler[c].pc \in {"idle", "reply", "ack"} => Len(frames[c]) = next[c] - 1
          /\ handler[c].pc = "deliver" => Len(frames[c]) = next[c] - 2

Answered == \A c \in Conn : AnsweredSoFar(c)

(* The relay says the truth of what it did with a message. *)
ToldTrue(c, i) ==
    LET f == frames[c][i] IN
    f.type = "ok" =>
        \/ f.msg = "registered" /\ i = 1
        \/ /\ f.msg = "delivered"
           /\ \E k \in DOMAIN script[c] : IsSend(c, k) /\ IsLive(EnvelopeOf(c, k))
        \/ /\ f.msg = "queued"
           /\ \E k \in DOMAIN script[c] : IsSend(c, k) /\ WasQueued(EnvelopeOf(c, k))

Told == \A c \in Conn : \A i \in DOMAIN frames[c] : ToldTrue(c, i)

(* And so does the client, of its last request. *)
ReportTrue(c) ==
    status[c] \in {"delivered", "queued"} =>
        /\ pc[c] = "ended"
        /\ \E k \in DOMAIN script[c] :
              /\ k = Len(script[c]) /\ IsSend(c, k)
              /\ status[c] = "delivered" => IsLive(EnvelopeOf(c, k))
              /\ status[c] = "queued" => WasQueued(EnvelopeOf(c, k))

Reports == \A c \in Conn : ReportTrue(c)

(* No envelope is lost by the relay, but in its restart or in a fetch. *)
NoneMissing == \A e \in accepted : Placed(e) \/ e \in forgotten

(* What was written is waiting for its reader, processed or let go of. *)
Accounted(e, c, i) ==
    \/ e \in processed[e.to]
    \/ LetGo(e, c, i)
    \/ i > Len(taken[c]) /\ pc[c] # "ended"

WrittenAccounted ==
    \A e \in accepted : \A c \in Conn : \A i \in CarriersIn(frames[c], e) :
        Accounted(e, c, i)

ServerInv == RelayInv /\ Owned /\ Located

ClientInv ==
    /\ ServerInv /\ ClientTypeOK /\ InLine
    /\ HandSent /\ FirstFrames /\ Answered /\ Told /\ Reports
    /\ NoneMissing /\ WrittenAccounted

-----------------------------------------------------------------------------
(* Steps of the relay. *)

(* A reply to a request of type t. *)
IsReplyTo(f, t) == t \in Waiting => Answers(f, t)

(* The envelope of the send that c's handler takes is in its queue then. *)
QueuesSent(c) == \E e \in Envelope : e = SentEnvelope(c) /\ Queued(e)'

(* The reply f to a request that c's handler takes. *)
TakenReply(c, f) ==
    LET t == script[c][next[c]].type IN
    /\ Replied(c, f) /\ f.type # "deliver" /\ IsReplyTo(f, t)
    /\ f.type = "ok" =>
          \/ f.msg = "registered" /\ t = "register"
          \/ f.msg = "queued" /\ t = "send" /\ QueuesSent(c)
    /\ \A u \in User : connections'[u] \in {connections[u], None, c}

(* Its send is delivered to connection r. *)
Delivered(c, r) ==
    LET e == SentEnvelope(c) IN
    /\ script[c][next[c]].type = "send" /\ e \in Envelope
    /\ r = connections[e.to] /\ ws[r] # "closed"
    /\ frames' = [frames EXCEPT ![r] = Append(@, [type |-> "deliver", envelope |-> e])]
    /\ handler'[c].pc = "deliver" /\ handler'[c].envelope = e
    /\ connections' = connections

(* A request that is answered at once. *)
LEMMA AnsweredAtOnce ==
    ASSUME RelayType, NEW c \in Conn, NEW t, Takes(c, t),
           NEW f \in Frame, NEW user \in User \cup {None},
           NEW conns \in [User -> Conn \cup {None}],
           \A u \in User : conns[u] \in {connections[u], c},
           Reply(c, f, user, conns), IsReplyTo(f, t), f.type # "deliver",
           f.type = "ok" => \/ f.msg = "registered" /\ t = "register"
                            \/ f.msg = "queued" /\ t = "send" /\ QueuesSent(c)
    PROVE  TakenReply(c, f)
<1>1. script[c][next[c]].type = t
  BY DEF Takes
<1>2. Replied(c, f)
  BY RepliedFacts
<1>3. connections' = conns \/ connections' = Unregister(conns, c, handler[c].user)
  BY ReplyFacts
<1>4. \A u \in User : connections'[u] \in {conns[u], None}
  BY <1>3 DEF Unregister
<1>5. \A u \in User : connections'[u] \in {connections[u], None, c}
  BY <1>4
<1> QED
  BY <1>1, <1>2, <1>5 DEF TakenReply

(* What taking a request comes to. *)
LEMMA TakeEffect ==
    ASSUME RelayInv, NEW c \in Conn, TakeRequest(c)
    PROVE  /\ RelayType' /\ Took(c) /\ OthersStay(c)
           /\ \/ \E f \in Frame : TakenReply(c, f)
              \/ \E r \in Conn : Delivered(c, r)
<1>1. /\ RelayType /\ handler[c].user \in User \cup {None} /\ Owner[c] \in User
      /\ connections \in [User -> Conn \cup {None}]
  BY RelayAssumption DEF RelayInv, RelayType, Handler
<1>2. Error \in Frame /\ Error.type = "error"
  BY FrameFacts DEF Error
<1>3. \A t : IsReplyTo(Error, t)
  BY <1>2 DEF IsReplyTo, Answers, Waiting
<1>4. CASE Register(c)
  <2> DEFINE conns == [connections EXCEPT ![Owner[c]] = c]
  <2>1. Takes(c, "register") /\ Reply(c, Ok("registered"), Owner[c], conns)
    BY <1>4 DEF Register
  <2>2. conns \in [User -> Conn \cup {None}] /\ \A u \in User : conns[u] \in {connections[u], c}
    BY <1>1
  <2>3. /\ Ok("registered") \in Frame /\ Ok("registered").type = "ok"
        /\ Ok("registered").msg = "registered"
        /\ IsReplyTo(Ok("registered"), "register")
    BY FrameFacts DEF Ok, IsReplyTo, Answers
  <2> HIDE DEF conns
  <2>4. TakenReply(c, Ok("registered"))
    BY <1>1, <2>1, <2>2, <2>3, AnsweredAtOnce
  <2> QED
    BY <1>1, <1>4, <2>3, <2>4, RegisterEffect DEF QuietTake
<1>5. CASE GetBundle(c)
  <2> DEFINE u == Named(c)
             b == [bundles[u] EXCEPT !.opks = First(@)]
             f == [type |-> "bundle", bundle |-> b]
  <2>1. Takes(c, "get_bundle") /\ HasBundle(u) /\ Reply(c, f, handler[c].user, connections)
    BY <1>5 DEF GetBundle
  <2>2. b \in PublishedBundle
    BY <1>1, <2>1, TakesFacts, ServedFacts DEF HasBundle
  <2>3. f \in Frame /\ f.type = "bundle" /\ IsReplyTo(f, "get_bundle")
    BY <2>2, FrameFacts DEF IsReplyTo, Answers
  <2> HIDE DEF f
  <2>4. TakenReply(c, f)
    BY <1>1, <2>1, <2>3, AnsweredAtOnce
  <2> QED
    BY <1>1, <1>5, <2>3, <2>4, GetBundleEffect DEF QuietTake
<1>6. CASE \/ RegisterNobody(c) \/ Unknown(c) \/ GetNoBundle(c)
           \/ RefuseSend(c) \/ RefuseFetch(c)
  <2>1. PICK t \in RequestType, user \in User \cup {None} :
           Takes(c, t) /\ Reply(c, Error, user, connections)
    <3>1. CASE RegisterNobody(c)
      BY <3>1 DEF RegisterNobody, RequestType
    <3>2. CASE Unknown(c) \/ GetNoBundle(c) \/ RefuseSend(c) \/ RefuseFetch(c)
      BY <1>1, <3>2 DEF Unknown, GetNoBundle, RefuseSend, RefuseFetch, ReplyError,
                        RequestType
    <3> QED
      BY <1>6, <3>1, <3>2
  <2>2. TakenReply(c, Error)
    BY <1>1, <1>2, <1>3, <2>1, AnsweredAtOnce
  <2> QED
    BY <1>1, <1>2, <1>6, <2>2, RefusedEffect DEF QuietTake
<1>7. CASE Fetch(c)
  <2> DEFINE f == [type |-> "messages", messages |-> queues[handler[c].user]]
  <2>1. /\ Takes(c, "fetch") /\ handler[c].user # None
        /\ Reply(c, f, handler[c].user, connections)
    BY <1>7 DEF Fetch
  <2>2. f \in Frame /\ f.type = "messages" /\ IsReplyTo(f, "fetch")
    BY <1>1, <2>1, FrameFacts DEF RelayType, IsReplyTo, Answers
  <2> HIDE DEF f
  <2>3. TakenReply(c, f)
    BY <1>1, <2>1, <2>2, AnsweredAtOnce
  <2> QED
    BY <1>1, <1>7, <2>2, <2>3, FetchEffect
<1>8. CASE Send(c)
  <2> DEFINE e == SentEnvelope(c)
             r == connections[e.to]
             g == [type |-> "deliver", envelope |-> e]
  <2>1. /\ RelayType' /\ Took(c) /\ OthersStay(c) /\ e \in Envelope /\ e.to \in User
    BY <1>1, <1>8, SendEffect, SentFacts
  <2>2. Takes(c, "send")
    BY <1>8 DEF Send
  <2>3. CASE /\ Works(r)
             /\ frames' = [frames EXCEPT ![r] = Append(@, g)]
             /\ handler' = [handler EXCEPT ![c] = [@ EXCEPT
                              !.pc = "deliver", !.envelope = e, !.rcpt = r]]
             /\ UNCHANGED <<queues, connections>>
    <3>1. handler'[c].pc = "deliver" /\ handler'[c].envelope = e
      BY <1>1, <1>8, <2>3, DeliverFacts
    <3>2. r \in Conn /\ ws[r] # "closed"
      BY <1>1, <2>1, <2>3 DEF Works
    <3>3. script[c][next[c]].type = "send"
      BY <2>2 DEF Takes
    <3>4. Delivered(c, r)
      BY <2>1, <2>3, <3>1, <3>2, <3>3 DEF Delivered
    <3> QED
      BY <2>1, <3>2, <3>4
  <2>4. CASE Enqueue(e) /\ Reply(c, Ok("queued"), handler[c].user, connections)
    <3>1. QueuesSent(c)
      <4>1. PICK n \in Envelope : n = e
        BY <2>1
      <4>2. Queued(n)'
        BY <1>1, <2>4, <4>1, QueuedFacts
      <4> QED
        BY <4>1, <4>2 DEF QueuesSent
    <3>2. /\ Ok("queued") \in Frame /\ Ok("queued").type = "ok" /\ Ok("queued").msg = "queued"
          /\ IsReplyTo(Ok("queued"), "send")
      BY FrameFacts DEF Ok, IsReplyTo, Answers
    <3>3. TakenReply(c, Ok("queued"))
      BY <1>1, <2>2, <2>4, <3>1, <3>2, AnsweredAtOnce
    <3> QED
      BY <2>1, <3>2, <3>3
  <2>5. \/ /\ Works(r)
           /\ frames' = [frames EXCEPT ![r] = Append(@, g)]
           /\ handler' = [handler EXCEPT ![c] = [@ EXCEPT
                            !.pc = "deliver", !.envelope = e, !.rcpt = r]]
           /\ UNCHANGED <<queues, connections>>
        \/ Enqueue(e) /\ Reply(c, Ok("queued"), handler[c].user, connections)
    BY <1>8 DEF Send, SentEnvelope
  <2> QED
    BY <2>3, <2>4, <2>5
<1> QED
  BY <1>4, <1>5, <1>6, <1>7, <1>8 DEF TakeRequest

(* A handler goes on, or ends, and writes nothing. *)
GoesOn(c) ==
    /\ frames' = frames
    /\ \/ handler'[c].pc = "done"
       \/ handler[c].pc \in {"reply", "ack"} /\ handler'[c].pc = "idle"

(* It tells the sender what became of the envelope it has in hand. *)
QueuesInHand(c) == \E e \in Envelope : e = handler[c].envelope /\ Queued(e)'

Tells(c, msg) ==
    /\ handler[c].pc = "deliver"
    /\ frames' = [frames EXCEPT ![c] = Append(@, Ok(msg))]
    /\ \/ /\ msg = "delivered" /\ handler'[c].pc = "ack"
          /\ handler'[c].envelope = handler[c].envelope
       \/ msg = "queued" /\ handler'[c].pc = "reply" /\ QueuesInHand(c)

(* What comes after an await. *)
LEMMA ContinueEffect ==
    ASSUME RelayInv, NEW c \in Conn, Continue(c)
    PROVE  /\ RelayType' /\ OthersStay(c)
           /\ UNCHANGED <<ws, script, next, accepted, lost>>
           /\ \A u \in User : connections'[u] \in {connections[u], None}
           /\ \/ GoesOn(c)
              \/ \E msg \in {"delivered", "queued"} : Tells(c, msg)
<1>1. RelayType /\ RelayType' /\ (Delivering(c) => HasInHand(c))
  BY ContinueInv DEF RelayInv
<1>2. ASSUME NEW user, connections' = connections \/ connections' = Unregister(connections, c, user)
      PROVE  \A u \in User : connections'[u] \in {connections[u], None}
  BY <1>1, <1>2 DEF Unregister, RelayType
<1>3. CASE Resume(c)
  <2>1. connections' = connections
    BY <1>3 DEF Resume
  <2> QED
    BY <1>1, <1>2, <1>3, <2>1, ResumeEffect DEF GoesOn
<1>4. CASE Disconnected(c)
  <2>1. connections' = Unregister(connections, c, handler[c].user)
    BY <1>4 DEF Disconnected, Exit
  <2> QED
    BY <1>1, <1>2, <1>4, <2>1, DisconnectedEffect DEF GoesOn
<1>5. CASE AcknowledgeRaises(c)
  <2>1. connections' = Unregister(connections, c, handler[c].user) /\ HasInHand(c)
    BY <1>1, <1>5 DEF AcknowledgeRaises, Exit, Delivering
  <2> QED
    BY <1>1, <1>2, <1>5, <2>1, AcknowledgeRaisesEffect DEF GoesOn
<1>6. CASE Acknowledge(c)
  <2>1. /\ connections' = connections
        /\ frames' = [frames EXCEPT ![c] = Append(@, Ok("delivered"))]
    BY <1>6 DEF Acknowledge
  <2>2. Tells(c, "delivered")
    BY <1>1, <1>6, <2>1, AcknowledgeEffect DEF Tells
  <2> QED
    BY <1>1, <1>2, <1>6, <2>1, <2>2, AcknowledgeEffect
<1>7. CASE DeliveryRaises(c)
  <2>1. PICK e \in Envelope : e = handler[c].envelope
    BY <1>1, <1>7 DEF DeliveryRaises, Delivering, HasInHand
  <2>2. /\ handler[c].pc = "deliver" /\ Enqueue(e)
        /\ Reply(c, Ok("queued"), handler[c].user, connections)
        /\ UNCHANGED <<ws, script, next, accepted, lost>>
    BY <1>7, <2>1 DEF DeliveryRaises
  <2>3. QueuesInHand(c)
    BY <1>1, <2>1, <2>2, QueuedFacts DEF QueuesInHand
  <2>4. /\ handler[c].user \in User \cup {None} /\ Ok("queued") \in Frame
        /\ connections \in [User -> Conn \cup {None}]
    BY <1>1, FrameFacts DEF RelayType, Handler
  <2>5. Replied(c, Ok("queued")) /\ OthersStay(c)
    BY <1>1, <2>2, <2>4, RepliedFacts
  <2>6. \/ connections' = connections
        \/ connections' = Unregister(connections, c, handler[c].user)
    BY <1>1, <2>2, <2>4, ReplyFacts
  <2>7. GoesOn(c) \/ Tells(c, "queued")
    BY <2>2, <2>3, <2>5 DEF Replied, GoesOn, Tells
  <2> QED
    BY <1>1, <1>2, <2>2, <2>5, <2>6, <2>7
<1> QED
  BY <1>3, <1>4, <1>5, <1>6, <1>7 DEF Continue

(* Frames that are written stay. *)
FramesGrow ==
    \A d \in Conn : \/ frames'[d] = frames[d]
                    \/ \E f \in Frame : frames'[d] = Append(frames[d], f)

(* A handler writes at the end. *)
LEMMA RelayFramesGrow ==
    ASSUME RelayInv, NEW c \in Conn, TakeRequest(c) \/ Continue(c)
    PROVE  FramesGrow
<1>1. RelayType
  BY DEF RelayInv
<1>2. ASSUME NEW d \in Conn, NEW f \in Frame, frames' = [frames EXCEPT ![d] = Append(@, f)]
      PROVE  FramesGrow
  BY <1>1, <1>2 DEF FramesGrow, RelayType
<1>3. ASSUME frames' = frames PROVE FramesGrow
  BY <1>3 DEF FramesGrow
<1>4. CASE TakeRequest(c)
  <2>1. CASE \E f \in Frame : TakenReply(c, f)
    BY <1>2, <1>3, <2>1 DEF TakenReply, Replied
  <2>2. ASSUME NEW r \in Conn, Delivered(c, r) PROVE FramesGrow
    BY <1>2, <2>2, FrameFacts DEF Delivered
  <2> QED
    BY <1>4, <2>1, <2>2, TakeEffect
<1>5. CASE Continue(c)
  <2>1. CASE GoesOn(c)
    BY <1>3, <2>1 DEF GoesOn
  <2>2. ASSUME NEW msg \in {"delivered", "queued"}, Tells(c, msg) PROVE FramesGrow
    BY <1>2, <2>2, FrameFacts DEF Tells
  <2> QED
    BY <1>5, <2>1, <2>2, ContinueEffect
<1> QED
  BY <1>4, <1>5

-----------------------------------------------------------------------------
(* Steps of the clients. *)

(* What a command is, once it runs. *)
LEMMA CommandFacts ==
    ASSUME ClientTypeOK, NEW c \in Conn, command[c] # None
    PROVE  /\ command[c] \in Command
           /\ command[c].name = "send" => command[c].peer \in User
BY ClientAssumption DEF ClientTypeOK, Command

(* What a frame holds. *)
LEMMA FrameParts ==
    ASSUME NEW f \in Frame
    PROVE  /\ Messages(f) \in Seq(Envelope)
           /\ f.type = "deliver" => f.envelope \in Envelope
           /\ f.type = "ok" => f.msg \in {"registered", "delivered", "queued"}
           /\ Reported(f) \in {"delivered", "queued", "failed"}
BY DEF Frame, Messages, Reported

(* The frame a client reads next was written to it. *)
LEMMA NextFrameFacts ==
    ASSUME RelayType, ClientTypeOK, NEW c \in Conn, Unread(c)
    PROVE  /\ Len(taken[c]) + 1 \in DOMAIN frames[c]
           /\ NextFrame(c) \in Frame
<1>1. Len(taken[c]) \in Nat /\ frames[c] \in Seq(Frame)
  BY LenProperties DEF RelayType, ClientTypeOK
<1>2. Len(taken[c]) + 1 \in DOMAIN frames[c]
  BY <1>1, LenProperties DEF Unread
<1> QED
  BY <1>1, <1>2 DEF NextFrame

(* What is processed is added to what was. *)
LEMMA ProcessFacts ==
    ASSUME ClientTypeOK, NEW u \in User, NEW es \in SUBSET Envelope, Process(u, es)
    PROVE  /\ sessions' \in [User -> SUBSET User]
           /\ processed' \in [User -> SUBSET Envelope]
           /\ es \subseteq processed'[u]
           /\ \A v \in User : processed[v] \subseteq processed'[v]
<1>1. {e.from : e \in {d \in es : WithHeader(d)}} \subseteq User
  BY DEF Envelope
<1>2. sessions' \in [User -> SUBSET User]
  BY <1>1 DEF Process, ClientTypeOK
<1>3. processed' = [processed EXCEPT ![u] = @ \cup es]
  BY DEF Process
<1> QED
  BY <1>2, <1>3 DEF ClientTypeOK

(* The client of c takes the next frame for what it waits for. *)
TakesFrame(c) ==
    /\ pc[c] \in Waiting \cup {"chatting"} /\ Unread(c)
    /\ taken' = [taken EXCEPT ![c] = Append(@, pc[c])]

(* It makes its next request, a register first and a send last. *)
Asks(c) ==
    /\ pc[c] \in {"new", "register", "get_bundle"} /\ command[c] # None
    /\ IF pc[c] = "new" THEN taken' = taken ELSE TakesFrame(c)
    /\ \E r \in Request :
          /\ script' = [script EXCEPT ![c] = Append(@, r)]
          /\ pc' = [pc EXCEPT ![c] = r.type]
          /\ r.type \in Waiting /\ (r.type = "register" <=> pc[c] = "new")
          /\ r.type \in {"get_bundle", "send"} => command[c].name = "send"
          /\ r.type = "send" => r.to = command[c].peer
          /\ r.type = "fetch" => command[c].name \in {"fetch", "chat"}

(* It makes no more requests. *)
Leaves(c) ==
    /\ pc[c] \in Waiting \cup {"chatting"} /\ script' = script
    /\ \/ /\ pc' = [pc EXCEPT ![c] = "chatting"]
          /\ pc[c] \in {"fetch", "chatting"} /\ TakesFrame(c)
       \/ /\ \E how \in {"ended", "died"} : pc' = [pc EXCEPT ![c] = how]
          /\ taken' = taken \/ TakesFrame(c)

(* And nothing else that matters to the relay changes. *)
ClientMoves(c) ==
    /\ Asks(c) \/ Leaves(c)
    /\ UNCHANGED <<next, handler, bundles, queues, connections, frames,
                   accepted, lost, command, forgotten>>
    /\ ws' \in [Conn -> {"new", "open", "leaving", "closed"}]
    /\ \A d \in Conn : ws[d] = "closed" => ws'[d] = "closed"
    /\ \A d \in Conn \ {c} : ws'[d] = ws[d] /\ status'[d] = status[d]
    /\ \A u \in User : processed[u] \subseteq processed'[u]

ClientActs(c) == Start(c) \/ TakeReply(c) \/ Quit(c) \/ Die(c) \/ Raises(c)

(* A connection that is left is not opened again. *)
LEMMA CloseFacts ==
    ASSUME RelayType, NEW c \in Conn, Close(c) \/ UNCHANGED ws
    PROVE  /\ ws' \in [Conn -> {"new", "open", "leaving", "closed"}]
           /\ \A d \in Conn : ws[d] = "closed" => ws'[d] = "closed"
           /\ \A d \in Conn \ {c} : ws'[d] = ws[d]
BY DEF RelayType, Close

(* A request that is asked for. *)
LEMMA AskFacts ==
    ASSUME RelayType, ClientTypeOK, NEW c \in Conn, NEW t \in Waiting,
           NEW to \in User \cup {None}, Ask(c, t, to),
           pc[c] \in {"new", "register", "get_bundle"}, command[c] # None,
           IF pc[c] = "new" THEN taken' = taken ELSE TakesFrame(c),
           t = "register" <=> pc[c] = "new",
           t \in {"get_bundle", "send"} => command[c].name = "send",
           t = "send" => to = command[c].peer,
           t = "fetch" => command[c].name \in {"fetch", "chat"}
    PROVE  Asks(c) /\ pc' \in [Conn -> Waiting \cup {"new", "chatting", "ended", "died"}]
<1> DEFINE r == [type |-> t, to |-> to]
<1>1. r \in Request /\ r.type = t /\ r.to = to
  BY DEF Request, RequestType, Waiting
<1>2. script' = [script EXCEPT ![c] = Append(@, r)] /\ pc' = [pc EXCEPT ![c] = t]
  BY DEF Ask
<1> HIDE DEF r
<1>3. Asks(c)
  BY <1>1, <1>2 DEF Asks
<1> QED
  BY <1>2, <1>3 DEF ClientTypeOK

(* The frame taken, and the types. *)
LEMMA RecvFacts ==
    ASSUME ClientTypeOK, NEW c \in Conn, NEW t \in Waiting \cup {"chatting"}, Recv(c, t)
    PROVE  /\ TakesFrame(c) /\ Unread(c) /\ pc[c] = t
           /\ taken' \in [Conn -> Seq(Waiting \cup {"chatting"})]
           /\ UNCHANGED <<next, handler, bundles, queues, connections, frames,
                          accepted, lost, command>>
<1>1. Append(taken[c], t) \in Seq(Waiting \cup {"chatting"})
  BY AppendProperties DEF ClientTypeOK
<1> QED
  BY <1>1 DEF Recv, TakesFrame, ClientTypeOK

(* What a step of a client comes to. *)
LEMMA ClientEffect ==
    ASSUME RelayType, ClientTypeOK, InLine, NEW c \in Conn, ClientActs(c)
    PROVE  ClientMoves(c) /\ ClientTypeOK'
<1> DEFINE Pcs  == Waiting \cup {"new", "chatting", "ended", "died"}
           Same == UNCHANGED <<next, handler, bundles, queues, connections,
                               frames, accepted, lost, command>>
<1>1. /\ Owner[c] \in User /\ None \notin User /\ pc \in [Conn -> Pcs]
      /\ script \in [Conn -> Seq(Request)] /\ failures \in 0 .. MaxFailures
      /\ MaxFailures \in Nat
  BY RelayAssumption, ClientAssumption DEF ClientTypeOK, RelayType
<1>2. Stands(c)
  BY DEF InLine
<1>3. ASSUME Same, UNCHANGED <<sessions, processed, forgotten>>,
             taken' \in [Conn -> Seq(Waiting \cup {"chatting"})],
             status' \in [Conn -> {"delivered", "queued", "failed", None}],
             \A d \in Conn \ {c} : status'[d] = status[d],
             failures' \in 0 .. MaxFailures, pc' \in [Conn -> Pcs],
             Asks(c) \/ Leaves(c), Close(c) \/ UNCHANGED ws
      PROVE  ClientMoves(c) /\ ClientTypeOK'
  BY <1>3, CloseFacts DEF ClientMoves, ClientTypeOK
<1>4. ASSUME NEW how \in {"ended", "died"}, End(c, how), pc[c] \in Waiting \cup {"chatting"},
             taken' = taken \/ TakesFrame(c)
      PROVE  Leaves(c) /\ pc' \in [Conn -> Pcs] /\ Close(c)
  BY <1>1, <1>4 DEF End, Leaves
<1>5. CASE Start(c)
  <2>1. Asks(c) /\ pc' \in [Conn -> Pcs]
    BY <1>1, <1>5, AskFacts DEF Start, Waiting
  <2>2. /\ ws' = [ws EXCEPT ![c] = "open"] /\ ws[c] = "new"
        /\ Same /\ UNCHANGED <<taken, sessions, processed, status, failures, forgotten>>
    BY <1>2, <1>5 DEF Start, Stands, faultVars
  <2>3. /\ ws' \in [Conn -> {"new", "open", "leaving", "closed"}]
        /\ \A d \in Conn : ws[d] = "closed" => ws'[d] = "closed"
        /\ \A d \in Conn \ {c} : ws'[d] = ws[d]
    BY <2>2 DEF RelayType
  <2> QED
    BY <2>1, <2>2, <2>3 DEF ClientMoves, ClientTypeOK
<1>6. CASE Registered(c)
  <2>1. /\ TakesFrame(c) /\ Unread(c) /\ pc[c] = "register" /\ Same
        /\ taken' \in [Conn -> Seq(Waiting \cup {"chatting"})]
    BY <1>6, RecvFacts DEF Registered, Waiting
  <2>2. command[c] # None /\ (command[c].name = "send" => command[c].peer \in User)
    BY <1>2, <2>1, CommandFacts DEF Stands
  <2>3. command[c].name \in {"register", "send", "fetch", "chat"}
    BY <2>2, CommandFacts DEF Command
  <2>4. UNCHANGED <<sessions, processed, status, failures, forgotten>>
    BY <1>6 DEF Registered, NoneProcessed, faultVars
  <2>5. CASE End(c, "ended")
    BY <1>3, <1>4, <2>1, <2>4, <2>5 DEF ClientTypeOK
  <2>6. ASSUME NEW t \in {"get_bundle", "send"}, command[c].name = "send",
               Ask(c, t, command[c].peer), UNCHANGED ws
        PROVE  ClientMoves(c) /\ ClientTypeOK'
    <3>1. Asks(c) /\ pc' \in [Conn -> Pcs]
      BY <2>1, <2>2, <2>6, AskFacts DEF Waiting
    <3> QED
      BY <1>3, <2>1, <2>4, <2>6, <3>1 DEF ClientTypeOK
  <2>7. ASSUME command[c].name \in {"fetch", "chat"}, Ask(c, "fetch", None), UNCHANGED ws
        PROVE  ClientMoves(c) /\ ClientTypeOK'
    <3>1. Asks(c) /\ pc' \in [Conn -> Pcs]
      BY <2>1, <2>2, <2>7, AskFacts DEF Waiting
    <3> QED
      BY <1>3, <2>1, <2>4, <2>7, <3>1 DEF ClientTypeOK
  <2>8. CASE command[c].name = "register"
    BY <1>6, <2>5, <2>8 DEF Registered
  <2>9. CASE command[c].name = "send"
    BY <1>6, <2>6, <2>9 DEF Registered
  <2>10. CASE command[c].name \in {"fetch", "chat"}
    BY <1>6, <2>5, <2>7, <2>10 DEF Registered
  <2> QED
    BY <2>3, <2>8, <2>9, <2>10
<1>7. CASE GotBundle(c)
  <2>1. /\ TakesFrame(c) /\ Unread(c) /\ pc[c] = "get_bundle" /\ Same
        /\ taken' \in [Conn -> Seq(Waiting \cup {"chatting"})]
    BY <1>7, RecvFacts DEF GotBundle, Waiting
  <2>2. command[c] # None /\ command[c].name = "send" /\ command[c].peer \in User
    BY <1>2, <2>1, CommandFacts DEF Stands, Waiting
  <2>3. UNCHANGED <<processed, failures, forgotten>>
    BY <1>7 DEF GotBundle, faultVars
  <2>4. CASE /\ sessions' = [sessions EXCEPT ![Owner[c]] = @ \cup {command[c].peer}]
             /\ Ask(c, "send", command[c].peer) /\ UNCHANGED <<ws, status>>
    <3>1. Asks(c) /\ pc' \in [Conn -> Pcs]
      BY <2>1, <2>2, <2>4, AskFacts DEF Waiting
    <3>2. sessions' \in [User -> SUBSET User]
      BY <1>1, <2>2, <2>4 DEF ClientTypeOK
    <3> QED
      BY <2>1, <2>3, <2>4, <3>1, <3>2, CloseFacts DEF ClientMoves, ClientTypeOK
  <2>5. CASE End(c, "ended") /\ Tell(c, "failed") /\ UNCHANGED sessions
    <3>1. /\ status' \in [Conn -> {"delivered", "queued", "failed", None}]
          /\ \A d \in Conn \ {c} : status'[d] = status[d]
      BY <2>5 DEF Tell, ClientTypeOK
    <3> QED
      BY <1>1, <1>3, <1>4, <2>1, <2>3, <2>5, <3>1
  <2> QED
    BY <1>7, <2>4, <2>5 DEF GotBundle
<1>8. CASE Sent(c)
  <2>1. /\ TakesFrame(c) /\ Unread(c) /\ pc[c] = "send" /\ Same
        /\ taken' \in [Conn -> Seq(Waiting \cup {"chatting"})]
    BY <1>8, RecvFacts DEF Sent, Waiting
  <2>2. /\ Tell(c, Reported(NextFrame(c))) /\ End(c, "ended")
        /\ UNCHANGED <<sessions, processed, failures, forgotten>>
    BY <1>8 DEF Sent, NoneProcessed, faultVars
  <2>3. Reported(NextFrame(c)) \in {"delivered", "queued", "failed"}
    BY <2>1, NextFrameFacts, FrameParts
  <2>4. /\ status' \in [Conn -> {"delivered", "queued", "failed", None}]
        /\ \A d \in Conn \ {c} : status'[d] = status[d]
    BY <2>2, <2>3 DEF Tell, ClientTypeOK
  <2> QED
    BY <1>1, <1>3, <1>4, <2>1, <2>2, <2>4
<1>9. CASE Fetched(c)
  <2> DEFINE es == Messages(NextFrame(c))
             got(n) == {e \in {es[i] : i \in 1 .. n} : Wanted(c, e)}
  <2>1. /\ TakesFrame(c) /\ Unread(c) /\ pc[c] = "fetch" /\ Same
        /\ taken' \in [Conn -> Seq(Waiting \cup {"chatting"})]
    BY <1>9, RecvFacts DEF Fetched, Waiting
  <2>2. es \in Seq(Envelope)
    BY <2>1, NextFrameFacts, FrameParts
  <2>3. PICK n \in 0 .. Len(es) :
           /\ Process(Owner[c], got(n))
           /\ IF n < Len(es) THEN End(c, "died") /\ Fail
              ELSE /\ IF command[c].name = "fetch" THEN End(c, "ended")
                      ELSE pc' = [pc EXCEPT ![c] = "chatting"] /\ UNCHANGED <<ws, script>>
                   /\ UNCHANGED faultVars
    BY <1>9 DEF Fetched
  <2>4. got(n) \in SUBSET Envelope
    <3>1. \A i \in 1 .. n : es[i] \in Envelope
      BY <2>2, <2>3
    <3> QED
      BY <3>1
  <2>5. /\ sessions' \in [User -> SUBSET User] /\ processed' \in [User -> SUBSET Envelope]
        /\ \A v \in User : processed[v] \subseteq processed'[v]
    BY <1>1, <2>3, <2>4, ProcessFacts
  <2>6. status' = status
    BY <1>9 DEF Fetched
  <2>7. failures' \in 0 .. MaxFailures /\ UNCHANGED forgotten
    BY <1>1, <2>3 DEF Fail, faultVars
  <2>8. Leaves(c) /\ pc' \in [Conn -> Pcs] /\ (Close(c) \/ UNCHANGED ws)
    BY <1>1, <1>4, <2>1, <2>3 DEF Leaves, Waiting
  <2> QED
    BY <2>1, <2>5, <2>6, <2>7, <2>8, CloseFacts DEF ClientMoves, ClientTypeOK
<1>10. CASE Dispatched(c)
  <2> DEFINE f == NextFrame(c)
             es == IF f.type = "deliver" THEN {f.envelope} ELSE {}
  <2>1. /\ TakesFrame(c) /\ Unread(c) /\ pc[c] = "chatting" /\ Same
        /\ taken' \in [Conn -> Seq(Waiting \cup {"chatting"})]
    BY <1>10, RecvFacts DEF Dispatched
  <2>2. es \in SUBSET Envelope
    BY <2>1, NextFrameFacts, FrameParts
  <2>3. Process(Owner[c], es) /\ UNCHANGED <<ws, script, pc, status, failures, forgotten>>
    BY <1>10 DEF Dispatched, faultVars
  <2> HIDE DEF es
  <2>4. /\ sessions' \in [User -> SUBSET User] /\ processed' \in [User -> SUBSET Envelope]
        /\ \A v \in User : processed[v] \subseteq processed'[v]
    BY <1>1, <2>2, <2>3, ProcessFacts
  <2>5. pc' = [pc EXCEPT ![c] = "chatting"]
    BY <1>1, <2>1, <2>3
  <2>6. Leaves(c)
    BY <2>1, <2>3, <2>5 DEF Leaves
  <2> QED
    BY <2>1, <2>3, <2>4, <2>6, CloseFacts DEF ClientMoves, ClientTypeOK
<1>11. ASSUME NEW how \in {"ended", "died"}, End(c, how), pc[c] \in Waiting \cup {"chatting"},
              Same, UNCHANGED <<taken, sessions, processed, status, forgotten>>,
              failures' \in 0 .. MaxFailures
       PROVE  ClientMoves(c) /\ ClientTypeOK'
  BY <1>3, <1>4, <1>11 DEF ClientTypeOK
<1>12. CASE Quit(c)
  BY <1>1, <1>11, <1>12 DEF Quit, faultVars
<1>13. CASE Die(c)
  BY <1>1, <1>11, <1>13 DEF Die, Stop, Fail
<1>14. CASE Raises(c)
  BY <1>1, <1>11, <1>14 DEF Raises, Stop, faultVars
<1> QED
  BY <1>5, <1>6, <1>7, <1>8, <1>9, <1>10, <1>12, <1>13, <1>14 DEF ClientActs, TakeReply

-----------------------------------------------------------------------------
(* Clients stand where their requests and replies say. *)

(* One more element leaves the others alone. *)
LEMMA OneMore ==
    ASSUME NEW S, NEW s \in Seq(S), NEW x \in S
    PROVE  /\ Append(s, x) \in Seq(S) /\ Len(Append(s, x)) = Len(s) + 1
           /\ Len(s) \in Nat /\ DOMAIN s = 1 .. Len(s)
           /\ DOMAIN Append(s, x) = 1 .. Len(s) + 1
           /\ \A i \in DOMAIN s : Append(s, x)[i] = s[i]
           /\ Append(s, x)[Len(s) + 1] = x
BY AppendProperties, LenProperties

(* Frames that grow keep what was written. *)
LEMMA GrownFrames ==
    ASSUME RelayType, FramesGrow, NEW d \in Conn
    PROVE  /\ Len(frames[d]) \in Nat /\ Len(frames[d]) <= Len(frames'[d])
           /\ DOMAIN frames[d] = 1 .. Len(frames[d])
           /\ DOMAIN frames[d] \subseteq DOMAIN frames'[d]
           /\ \A i \in DOMAIN frames[d] : frames'[d][i] = frames[d][i]
<1>1. frames[d] \in Seq(Frame)
  BY DEF RelayType
<1>2. Len(frames[d]) \in Nat /\ DOMAIN frames[d] = 1 .. Len(frames[d])
  BY <1>1, LenProperties
<1>3. CASE frames'[d] = frames[d]
  BY <1>2, <1>3
<1>4. ASSUME NEW f \in Frame, frames'[d] = Append(frames[d], f)
      PROVE  /\ Len(frames[d]) <= Len(frames'[d])
             /\ DOMAIN frames[d] \subseteq DOMAIN frames'[d]
             /\ \A i \in DOMAIN frames[d] : frames'[d][i] = frames[d][i]
  BY <1>1, <1>2, <1>4, OneMore
<1> QED
  BY <1>2, <1>3, <1>4 DEF FramesGrow

(* Steps in which the clients do nothing. *)
LEMMA InLineStays ==
    ASSUME RelayType, ClientTypeOK, InLine, UNCHANGED <<script, command, pc, taken>>,
           \A c \in Conn : ws[c] = "new" => ws'[c] = "new", FramesGrow
    PROVE  InLine'
<1>1. SUFFICES ASSUME NEW c \in Conn
               PROVE  Requested(c)' /\ Stands(c)' /\ Len(taken'[c]) <= Len(frames'[c])
  BY DEF InLine
<1>2. Requested(c) /\ Stands(c) /\ Len(taken[c]) <= Len(frames[c])
  BY DEF InLine
<1>3. Len(taken[c]) \in Nat /\ Len(frames[c]) \in Nat /\ Len(frames'[c]) \in Nat
  BY LenProperties, GrownFrames DEF ClientTypeOK, FramesGrow, RelayType
<1>4. Len(taken'[c]) <= Len(frames'[c])
  BY <1>2, <1>3, GrownFrames
<1> QED
  BY <1>2, <1>4 DEF Requested, Stands

(* What a client takes is in line. *)
LEMMA TakesInLine ==
    ASSUME RelayType, ClientTypeOK, InLine, NEW c \in Conn, TakesFrame(c)
    PROVE  LET n == Len(taken[c]) + 1 IN
           /\ Len(taken'[c]) = n /\ n <= Len(frames[c])
           /\ pc[c] \in Waiting => n = Len(script[c]) /\ script[c][n].type = pc[c]
           /\ pc[c] = "chatting" => Len(script[c]) < n
           /\ \A i \in DOMAIN taken'[c] :
                 taken'[c][i] = IF i \in DOMAIN script[c] THEN script[c][i].type
                                ELSE "chatting"
<1> DEFINE n == Len(taken[c]) + 1
<1>1. /\ taken[c] \in Seq(Waiting \cup {"chatting"}) /\ script[c] \in Seq(Request)
      /\ frames[c] \in Seq(Frame)
  BY DEF RelayType, ClientTypeOK
<1>2. taken'[c] = Append(taken[c], pc[c]) /\ pc[c] \in Waiting \cup {"chatting"}
  BY DEF TakesFrame, ClientTypeOK
<1>3. /\ Len(taken'[c]) = n /\ taken'[c][n] = pc[c] /\ DOMAIN taken'[c] = 1 .. n
      /\ DOMAIN taken[c] = 1 .. n - 1
      /\ \A i \in DOMAIN taken[c] : taken'[c][i] = taken[c][i]
  BY <1>1, <1>2, OneMore
<1>4. /\ Len(taken[c]) \in Nat /\ Len(script[c]) \in Nat /\ Len(frames[c]) \in Nat
      /\ DOMAIN script[c] = 1 .. Len(script[c])
  BY <1>1, LenProperties
<1>5. n <= Len(frames[c])
  BY <1>4 DEF TakesFrame, Unread
<1>6. /\ pc[c] \in Waiting => n = Len(script[c]) /\ script[c][n].type = pc[c]
      /\ pc[c] = "chatting" => Len(script[c]) < n
  BY <1>4 DEF InLine, Stands
<1>7. "chatting" \notin Waiting
  BY DEF Waiting
<1>8. taken'[c][n] = IF n \in DOMAIN script[c] THEN script[c][n].type ELSE "chatting"
  BY <1>2, <1>3, <1>4, <1>6, <1>7
<1>9. ASSUME NEW i \in DOMAIN taken'[c]
      PROVE  taken'[c][i] = IF i \in DOMAIN script[c] THEN script[c][i].type ELSE "chatting"
  <2>1. CASE i \in DOMAIN taken[c]
    BY <1>3, <2>1 DEF InLine, Requested
  <2>2. CASE i = n
    BY <1>8, <2>2
  <2> QED
    BY <1>3, <1>4, <2>1, <2>2
<1> QED
  BY <1>3, <1>5, <1>6, <1>9

(* A request that is made comes in its turn. *)
LEMMA AsksInLine ==
    ASSUME RelayType, ClientTypeOK, InLine, NEW c \in Conn, Asks(c), command' = command,
           frames' = frames
    PROVE  Requested(c)' /\ Stands(c)' /\ Len(taken'[c]) <= Len(frames'[c])
<1> DEFINE m == Len(script[c]) + 1
<1>1. PICK r \in Request :
         /\ script' = [script EXCEPT ![c] = Append(@, r)]
         /\ pc' = [pc EXCEPT ![c] = r.type]
         /\ r.type \in Waiting /\ (r.type = "register" <=> pc[c] = "new")
         /\ r.type \in {"get_bundle", "send"} => command[c].name = "send"
         /\ r.type = "send" => r.to = command[c].peer
         /\ r.type = "fetch" => command[c].name \in {"fetch", "chat"}
  BY DEF Asks
<1>2. /\ script[c] \in Seq(Request) /\ taken[c] \in Seq(Waiting \cup {"chatting"})
      /\ Len(taken[c]) \in Nat /\ Len(frames[c]) \in Nat /\ DOMAIN taken[c] = 1 .. Len(taken[c])
      /\ Requested(c) /\ Stands(c) /\ Len(taken[c]) <= Len(frames[c])
  BY LenProperties DEF RelayType, ClientTypeOK, InLine
<1>3. script'[c] = Append(script[c], r) /\ pc'[c] = r.type
  BY <1>1 DEF RelayType, ClientTypeOK
<1>4. /\ Len(script[c]) \in Nat /\ DOMAIN script[c] = 1 .. Len(script[c])
      /\ Len(script'[c]) = m /\ DOMAIN script'[c] = 1 .. m /\ script'[c][m] = r
      /\ \A k \in DOMAIN script[c] : script'[c][k] = script[c][k]
  BY <1>2, <1>3, OneMore
<1>5. pc[c] \in {"new", "register", "get_bundle"} /\ command[c] # None
  BY DEF Asks
<1>6. /\ pc[c] = "new" => m = 1
      /\ pc[c] # "new" => m > 1 /\ script[c][Len(script[c])].type # "send"
  BY <1>2, <1>4, <1>5, LenProperties DEF Stands, Waiting
<1>7. \A k \in DOMAIN script[c] : script[c][k].type # "send"
  BY <1>2, <1>4, <1>6 DEF Requested
<1>8. /\ Len(taken'[c]) = m - 1 /\ Len(taken'[c]) <= Len(frames[c])
      /\ \A i \in DOMAIN taken'[c] : i \in DOMAIN script[c] /\ taken'[c][i] = script[c][i].type
  <2>1. CASE pc[c] = "new"
    BY <1>2, <1>4, <1>6, <2>1, LenProperties DEF Asks, Stands
  <2>2. CASE pc[c] # "new"
    <3>1. TakesFrame(c) /\ pc[c] \in Waiting
      BY <1>5, <2>2 DEF Asks, Waiting
    <3>2. /\ Len(taken'[c]) = Len(script[c]) /\ Len(taken'[c]) <= Len(frames[c])
          /\ \A i \in DOMAIN taken'[c] :
                taken'[c][i] = IF i \in DOMAIN script[c] THEN script[c][i].type
                               ELSE "chatting"
      BY <3>1, TakesInLine
    <3>3. DOMAIN taken'[c] = 1 .. Len(taken'[c])
      BY <1>2, <3>1, OneMore DEF TakesFrame, ClientTypeOK
    <3> QED
      BY <1>4, <3>2, <3>3
  <2> QED
    BY <2>1, <2>2
<1>9. Requested(c)'
  <2>1. ASSUME NEW k \in DOMAIN script'[c]
        PROVE  /\ script'[c][k].type \in Waiting
               /\ script'[c][k].type = "register" <=> k = 1
               /\ script'[c][k].type = "send" =>
                     /\ k = Len(script'[c])
                     /\ script'[c][k].to = command[c].peer /\ script'[c][k].to \in User
    <3>1. CASE k \in DOMAIN script[c]
      BY <1>2, <1>4, <1>7, <3>1 DEF Requested
    <3>2. CASE k = m
      BY <1>1, <1>4, <1>5, <1>6, <3>2, CommandFacts
    <3> QED
      BY <1>4, <3>1, <3>2
  <2>2. \A i \in DOMAIN taken'[c] :
           taken'[c][i] = IF i \in DOMAIN script'[c] THEN script'[c][i].type ELSE "chatting"
    BY <1>4, <1>8
  <2> QED
    BY <2>1, <2>2 DEF Requested
<1>10. Stands(c)'
  BY <1>1, <1>3, <1>4, <1>5, <1>8 DEF Stands, Waiting
<1> QED
  BY <1>8, <1>9, <1>10

(* A client that asks no more stands at the end of its requests. *)
LEMMA LeavesInLine ==
    ASSUME RelayType, ClientTypeOK, InLine, NEW c \in Conn, Leaves(c), command' = command,
           frames' = frames
    PROVE  Requested(c)' /\ Stands(c)' /\ Len(taken'[c]) <= Len(frames'[c])
<1>1. /\ Requested(c) /\ Stands(c) /\ Len(taken[c]) <= Len(frames[c])
      /\ script' = script /\ pc[c] \in Waiting \cup {"chatting"}
      /\ Len(taken[c]) \in Nat /\ Len(script[c]) \in Nat
  BY LenProperties DEF InLine, Leaves, ClientTypeOK, RelayType
<1>2. /\ taken' = taken \/ TakesFrame(c)
      /\ \/ pc'[c] \in {"ended", "died"}
         \/ pc'[c] = "chatting" /\ pc[c] \in {"fetch", "chatting"} /\ TakesFrame(c)
  BY DEF Leaves, ClientTypeOK
<1>3. command[c] # None
  BY <1>1 DEF Stands, Waiting
<1>4. CASE taken' = taken
  <2>1. pc'[c] \in {"ended", "died"}
    <3>1. ~ TakesFrame(c)
      <4>1. SUFFICES ASSUME TakesFrame(c) PROVE FALSE
        OBVIOUS
      <4>2. Len(taken'[c]) = Len(taken[c]) + 1
        BY <4>1, TakesInLine
      <4> QED
        BY <1>1, <1>4, <4>2
    <3> QED
      BY <1>2, <3>1
  <2> QED
    BY <1>1, <1>3, <1>4, <2>1 DEF Requested, Stands, Waiting
<1>5. CASE TakesFrame(c)
  <2>1. /\ Len(taken'[c]) = Len(taken[c]) + 1 /\ Len(taken'[c]) <= Len(frames[c])
        /\ pc[c] \in Waiting => Len(taken'[c]) = Len(script[c])
        /\ pc[c] = "chatting" => Len(script[c]) < Len(taken'[c])
        /\ \A i \in DOMAIN taken'[c] :
              taken'[c][i] = IF i \in DOMAIN script[c] THEN script[c][i].type
                             ELSE "chatting"
    BY <1>5, TakesInLine
  <2>2. Requested(c)'
    BY <1>1, <2>1 DEF Requested
  <2>3. Len(script'[c]) <= Len(taken'[c])
    BY <1>1, <2>1
  <2>4. Stands(c)'
    BY <1>1, <1>2, <1>3, <2>3 DEF Stands, Waiting
  <2> QED
    BY <2>1, <2>2, <2>4
<1> QED
  BY <1>2, <1>4, <1>5

(* So every client is in line after a step of one of them. *)
LEMMA ClientInLine ==
    ASSUME RelayType, ClientTypeOK, InLine, NEW c \in Conn, ClientMoves(c)
    PROVE  InLine'
<1>1. command' = command /\ frames' = frames
  BY DEF ClientMoves
<1>2. Requested(c)' /\ Stands(c)' /\ Len(taken'[c]) <= Len(frames'[c])
  BY <1>1, AsksInLine, LeavesInLine DEF ClientMoves
<1>3. ASSUME NEW d \in Conn \ {c}
      PROVE  Requested(d)' /\ Stands(d)' /\ Len(taken'[d]) <= Len(frames'[d])
  <2>1. script'[d] = script[d] /\ pc'[d] = pc[d] /\ taken'[d] = taken[d]
    BY DEF ClientMoves, Asks, Leaves, TakesFrame, RelayType, ClientTypeOK
  <2>2. ws'[d] = ws[d]
    BY DEF ClientMoves
  <2> QED
    BY <1>1, <2>1, <2>2 DEF InLine, Requested, Stands
<1> QED
  BY <1>2, <1>3 DEF InLine

(* What a client does to the requests, and to where they come from. *)
LEMMA ScriptGrows ==
    ASSUME RelayType, ClientTypeOK, NEW c \in Conn, ClientMoves(c)
    PROVE  /\ script' \in [Conn -> Seq(Request)]
           /\ \A d \in Conn :
                 /\ Len(script[d]) \in Nat /\ Len(script[d]) <= Len(script'[d])
                 /\ DOMAIN script[d] = 1 .. Len(script[d])
                 /\ DOMAIN script[d] \subseteq DOMAIN script'[d]
                 /\ \A k \in DOMAIN script[d] : script'[d][k] = script[d][k]
<1>1. \A d \in Conn : /\ script[d] \in Seq(Request) /\ Len(script[d]) \in Nat
                      /\ DOMAIN script[d] = 1 .. Len(script[d])
  BY LenProperties DEF RelayType
<1>2. CASE script' = script
  BY <1>1, <1>2 DEF RelayType
<1>3. ASSUME NEW r \in Request, script' = [script EXCEPT ![c] = Append(@, r)]
      PROVE  /\ script' \in [Conn -> Seq(Request)]
             /\ \A d \in Conn :
                   /\ Len(script[d]) <= Len(script'[d])
                   /\ DOMAIN script[d] \subseteq DOMAIN script'[d]
                   /\ \A k \in DOMAIN script[d] : script'[d][k] = script[d][k]
  <2>1. /\ Append(script[c], r) \in Seq(Request)
        /\ Len(Append(script[c], r)) = Len(script[c]) + 1
        /\ DOMAIN Append(script[c], r) = 1 .. Len(script[c]) + 1
        /\ \A k \in DOMAIN script[c] : Append(script[c], r)[k] = script[c][k]
    BY <1>1, OneMore
  <2>2. script'[c] = Append(script[c], r) /\ \A d \in Conn \ {c} : script'[d] = script[d]
    BY <1>3 DEF RelayType
  <2>3. script' \in [Conn -> Seq(Request)]
    BY <1>3, <2>1 DEF RelayType
  <2>4. ASSUME NEW d \in Conn
        PROVE  /\ Len(script[d]) <= Len(script'[d])
               /\ DOMAIN script[d] \subseteq DOMAIN script'[d]
               /\ \A k \in DOMAIN script[d] : script'[d][k] = script[d][k]
    <3>1. CASE d = c
      BY <1>1, <2>1, <2>2, <3>1
    <3>2. CASE d # c
      BY <1>1, <2>2, <3>2
    <3> QED
      BY <3>1, <3>2
  <2> QED
    BY <2>3, <2>4
<1> QED
  BY <1>1, <1>2, <1>3 DEF ClientMoves, Asks, Leaves

-----------------------------------------------------------------------------
(* What the relay is sure of does not depend on the clients. *)

(* A client's step changes nothing the relay keeps. *)
LEMMA ClientServerInv ==
    ASSUME ServerInv, ClientTypeOK, NEW c \in Conn, ClientMoves(c)
    PROVE  ServerInv'
<1>1. script' \in [Conn -> Seq(Request)]
  BY ScriptGrows DEF ServerInv, RelayInv
<1>2. RelayInv'
  BY <1>1 DEF ServerInv, RelayInv, RelayType, ClientMoves, Delivering, HasInHand
<1>3. Owned' /\ Located'
  BY DEF ServerInv, ClientMoves, Owned, Located, InItsPlace, HandWritten, Delivering
<1> QED
  BY <1>2, <1>3 DEF ServerInv

(* A restart leaves nothing to be sure of. *)
LEMMA RestartServerInv ==
    ASSUME ServerInv, Restart
    PROVE  ServerInv'
<1>1. /\ RelayType /\ UNCHANGED <<script, next, frames, accepted, lost>>
      /\ ws' = [c \in Conn |-> IF ws[c] = "new" THEN "new" ELSE "closed"]
      /\ handler' = [c \in Conn |->
                       IF ws[c] = "new" THEN handler[c]
                       ELSE [handler[c] EXCEPT !.pc = "done"]]
      /\ bundles' = [u \in User |-> None] /\ queues' = [u \in User |-> << >>]
      /\ connections' = [u \in User |-> None]
  BY DEF Restart, ServerInv, RelayInv
<1>2. \A c \in Conn : /\ handler'[c] \in Handler
                      /\ handler'[c].user = handler[c].user
                      /\ handler'[c].then = handler[c].then
                      /\ Delivering(c)' => Delivering(c) /\ handler'[c] = handler[c]
  <2>1. \A c \in Conn : handler[c] \in Handler
    BY <1>1 DEF RelayType
  <2> QED
    BY <1>1, <2>1 DEF Handler, Delivering
<1>3. RelayType'
  <2>1. handler' \in [Conn -> Handler]
    BY <1>1, <1>2
  <2>2. << >> \in Seq(Envelope)
    OBVIOUS
  <2> QED
    BY <1>1, <2>1, <2>2 DEF RelayType
<1>4. RelayInv'
  BY <1>2, <1>3 DEF ServerInv, RelayInv, HasInHand
<1>5. Owned'
  BY <1>1, <1>2 DEF ServerInv, Owned
<1>6. InItsPlace'
  BY <1>1 DEF ServerInv, Located, InItsPlace
<1>7. HandWritten'
  <2>1. SUFFICES ASSUME NEW c \in Conn, Delivering(c)'
                 PROVE  /\ handler'[c].envelope \in accepted' /\ handler'[c].envelope.conn = c
                        /\ CarriersIn(frames'[handler'[c].rcpt], handler'[c].envelope) # {}
    BY DEF HandWritten
  <2>2. Delivering(c) /\ handler'[c] = handler[c]
    BY <1>2, <2>1
  <2> QED
    BY <1>1, <2>2 DEF ServerInv, Located, HandWritten
<1> QED
  BY <1>4, <1>5, <1>6, <1>7 DEF ServerInv, Located

(* Steps of the relay. *)
LEMMA RelayServerInv ==
    ASSUME ServerInv, NEW c \in Conn, TakeRequest(c) \/ Continue(c)
    PROVE  ServerInv' /\ PlacedStays
<1>1. RelayInv /\ Owned /\ Located
  BY DEF ServerInv
<1>2. RelayInv'
  BY <1>1, TakeRequestInv, ContinueInv
<1>3. Owned'
  BY <1>1, TakeRequestOwned, ContinueOwned
<1>4. KeepsEnvelopes
  BY <1>1, TakeRequestEnvelopes, ContinueEnvelopes
<1> QED
  BY <1>2, <1>3, <1>4 DEF ServerInv, KeepsEnvelopes

(* A connection that is found closed. *)
LEMMA NoticeServerInv ==
    ASSUME ServerInv, NEW c \in Conn, Notice(c)
    PROVE  ServerInv'
<1>1. RelayInv'
  BY SocketInv DEF ServerInv
<1>2. UNCHANGED <<next, handler, queues, connections, frames, accepted, lost>>
  BY DEF Notice, SetWs
<1> QED
  BY <1>1, <1>2 DEF ServerInv, Owned, Located, InItsPlace, HandWritten, Delivering

-----------------------------------------------------------------------------
(* What lasts: what was asked for, written, queued once, and lost.         *)
Lasting ==
    /\ FramesGrow
    /\ \A d \in Conn : /\ DOMAIN script[d] \subseteq DOMAIN script'[d]
                       /\ \A k \in DOMAIN script[d] : script'[d][k] = script[d][k]
    /\ \A d \in Conn : ws[d] = "closed" => ws'[d] = "closed"
    /\ lost \subseteq lost'
    /\ forgotten \subseteq forgotten'
    /\ \A e \in Envelope : Queued(e) => WasQueued(e)'

(* A handler undoes nothing. *)
LEMMA RelaySteady ==
    ASSUME RelayInv, NEW c \in Conn, TakeRequest(c) \/ Continue(c)
    PROVE  RelayType' /\ Steady
<1>1. RelayType
  BY DEF RelayInv
<1>2. CASE TakeRequest(c)
  <2>1. lost \subseteq lost'
    <3>1. CASE Register(c) \/ GetBundle(c) \/ Send(c) \/ Fetch(c)
      BY <1>1, <3>1, RegisterEffect, GetBundleEffect, SendEffect, FetchEffect DEF QuietTake
    <3>2. CASE \/ RegisterNobody(c) \/ Unknown(c) \/ GetNoBundle(c)
               \/ RefuseSend(c) \/ RefuseFetch(c)
      BY <1>1, <3>2, RefusedEffect DEF QuietTake
    <3> QED
      BY <1>2, <3>1, <3>2 DEF TakeRequest
  <2> QED
    BY <1>1, <1>2, <2>1, TakeEffect, TookSteady
<1>3. CASE Continue(c)
  <2>1. /\ RelayType' /\ OthersStay(c) /\ UNCHANGED <<ws, script, next>>
        /\ handler[c].pc = "done" => handler'[c].pc = "done"
        /\ lost' = lost
    BY <1>3, ContinueEffect DEF GoesOn, Tells
  <2>2. \A d \in Conn : next[d] \in Nat /\ next[d] <= next'[d]
    BY <1>1, <2>1 DEF RelayType
  <2> QED
    BY <2>1, <2>2 DEF Steady, OthersStay
<1> QED
  BY <1>2, <1>3

(* An envelope leaves its queue only for a frame, or in a fetch that ends. *)
LEMMA TakeRequestQueued ==
    ASSUME ServerInv, NEW c \in Conn, TakeRequest(c), NEW e \in Envelope, Queued(e)
    PROVE  Queued(e)' \/ IsFetched(e)' \/ e \in lost'
<1>1. /\ RelayInv /\ RelayType /\ Owned /\ RelayType' /\ e.to \in User
  BY TakeRequestInv, RelayAssumption DEF ServerInv, RelayInv, Envelope
<1>2. CASE QuietTake(c)
  BY <1>2 DEF QuietTake, Queued
<1>3. CASE Register(c) \/ GetBundle(c)
  BY <1>1, <1>2, <1>3, RegisterEffect, GetBundleEffect
<1>4. CASE \/ RegisterNobody(c) \/ Unknown(c) \/ GetNoBundle(c)
           \/ RefuseSend(c) \/ RefuseFetch(c)
  BY <1>1, <1>2, <1>4, RefusedEffect
<1>5. CASE Send(c)
  <2>1. SentEnvelope(c) \in Envelope /\ (UNCHANGED queues \/ Enqueue(SentEnvelope(c)))
    BY <1>1, <1>5, SendEffect
  <2> QED
    BY <1>1, <2>1, QueuedFacts DEF Queued
<1>6. CASE Fetch(c)
  <2> DEFINE u == handler[c].user
  <2>1. /\ Took(c) /\ script[c][next[c]].type = "fetch" /\ u \in User
        /\ queues' = [queues EXCEPT ![u] = << >>]
        /\ lost' = IF ws[c] = "closed" THEN lost \cup Range(queues[u]) ELSE lost
        /\ Replied(c, [type |-> "messages", messages |-> queues[u]])
    BY <1>1, <1>6, FetchEffect
  <2>2. CASE e.to # u
    BY <1>1, <2>1, <2>2 DEF Queued, RelayType
  <2>3. CASE e.to = u /\ ws[c] # "closed"
    <3> DEFINE f == [type |-> "messages", messages |-> queues[u]]
               n == Len(frames[c]) + 1
    <3>1. f \in Frame /\ f.type = "messages" /\ Carries(f, e)
      BY <1>1, <2>1, <2>3, FrameFacts DEF RelayType, Carries, Queued
    <3>2. frames' = [frames EXCEPT ![c] = Append(@, f)]
      BY <2>1, <2>3 DEF Replied
    <3> HIDE DEF f
    <3>3. n \in DOMAIN frames'[c] /\ frames'[c][n] = f
      <4>1. frames[c] \in Seq(Frame) /\ frames'[c] = Append(frames[c], f)
        BY <1>1, <3>2 DEF RelayType
      <4> QED
        BY <3>1, <4>1, OneMore
    <3> QED
      BY <3>1, <3>3 DEF IsFetched
  <2>4. CASE e.to = u /\ ws[c] = "closed"
    <3>1. e \in Range(queues[u])
      BY <2>4 DEF Queued, Range
    <3> QED
      BY <2>1, <2>4, <3>1
  <2> QED
    BY <2>2, <2>3, <2>4
<1> QED
  BY <1>3, <1>4, <1>5, <1>6, TakeRequestInv DEF TakeRequest

(* What a handler does afterwards takes nothing from a queue. *)
LEMMA ContinueQueued ==
    ASSUME RelayInv, NEW c \in Conn, Continue(c), NEW e \in Envelope, Queued(e)
    PROVE  Queued(e)'
<1>1. RelayType /\ (Delivering(c) => HasInHand(c))
  BY DEF RelayInv
<1>2. CASE queues' = queues
  BY <1>2 DEF Queued
<1>3. CASE Delivering(c) /\ Enqueue(handler[c].envelope)
  BY <1>1, <1>3, QueuedFacts DEF HasInHand
<1> QED
  BY <1>2, <1>3 DEF Continue, Resume, Disconnected, Acknowledge, DeliveryRaises,
                    AcknowledgeRaises, Delivering

(* Nothing that lasts is undone by the relay, *)
LEMMA RelayLasting ==
    ASSUME ServerInv, NEW c \in Conn, Relays(c)
    PROVE  Lasting
<1>1. /\ TakeRequest(c) \/ Continue(c)
      /\ forgotten' = forgotten /\ RelayInv /\ RelayType
  BY DEF Relays, faultVars, ServerInv, RelayInv
<1>2. RelayType' /\ Steady /\ FramesGrow
  BY <1>1, RelaySteady, RelayFramesGrow
<1>3. ASSUME NEW e \in Envelope, Queued(e) PROVE WasQueued(e)'
  BY <1>1, <1>3, TakeRequestQueued, ContinueQueued DEF WasQueued
<1> QED
  BY <1>1, <1>2, <1>3 DEF Lasting, Steady

(* by the clients, *)
LEMMA ClientLasting ==
    ASSUME RelayType, ClientTypeOK, NEW c \in Conn, ClientMoves(c)
    PROVE  Lasting
<1>1. /\ UNCHANGED <<queues, frames, lost, forgotten>>
      /\ \A d \in Conn : ws[d] = "closed" => ws'[d] = "closed"
  BY DEF ClientMoves
<1>2. \A d \in Conn : /\ DOMAIN script[d] \subseteq DOMAIN script'[d]
                      /\ \A k \in DOMAIN script[d] : script'[d][k] = script[d][k]
  BY ScriptGrows
<1>3. ASSUME NEW e \in Envelope, Queued(e) PROVE WasQueued(e)'
  BY <1>1, <1>3 DEF WasQueued, Queued
<1> QED
  BY <1>1, <1>2, <1>3 DEF Lasting, FramesGrow

(* or by what befalls connections and the relay. *)
LEMMA OthersLasting ==
    ASSUME RelayType, (\E c \in Conn : Notices(c)) \/ Restart \/ UNCHANGED allVars
    PROVE  Lasting
<1>1. CASE (\E c \in Conn : Notices(c)) \/ UNCHANGED allVars
  <2>1. /\ UNCHANGED <<script, queues, frames, lost, forgotten>>
        /\ \A d \in Conn : ws[d] = "closed" => ws'[d] = "closed"
    BY <1>1 DEF Notices, Notice, SetWs, faultVars, allVars, vars, RelayType
  <2>2. \A e : Queued(e) => WasQueued(e)'
    BY <2>1 DEF WasQueued, Queued
  <2> QED
    BY <2>1, <2>2 DEF Lasting, FramesGrow
<1>2. CASE Restart
  <2>1. /\ UNCHANGED <<script, frames, lost>>
        /\ forgotten' = forgotten \cup UNION {Range(queues[u]) : u \in User}
        /\ ws' = [c \in Conn |-> IF ws[c] = "new" THEN "new" ELSE "closed"]
    BY <1>2 DEF Restart
  <2>2. \A d \in Conn : ws[d] = "closed" => ws'[d] = "closed"
    BY <2>1 DEF RelayType
  <2>3. \A e \in Envelope : Queued(e) => WasQueued(e)'
    <3>1. SUFFICES ASSUME NEW e \in Envelope, Queued(e) PROVE e \in forgotten'
      BY DEF WasQueued
    <3>2. e.to \in User /\ e \in Range(queues[e.to])
      BY <3>1 DEF Queued, Range, Envelope
    <3> QED
      BY <2>1, <3>2
  <2> QED
    BY <2>1, <2>2, <2>3 DEF Lasting, FramesGrow
<1> QED
  BY <1>1, <1>2

(* Where an envelope was goes on being known. *)
LEMMA EnvelopesLast ==
    ASSUME RelayType, Lasting, NEW e \in Envelope
    PROVE  /\ IsLive(e) => IsLive(e)'
           /\ IsFetched(e) => IsFetched(e)'
           /\ WasQueued(e) => WasQueued(e)'
<1>1. /\ IsLive(e) => IsLive(e)'
      /\ IsFetched(e) => IsFetched(e)'
  BY GrownFrames DEF Lasting, IsLive, IsFetched
<1>2. WasQueued(e) => WasQueued(e)'
  BY <1>1 DEF Lasting, WasQueued, Envelope
<1> QED
  BY <1>1, <1>2

(* A send that was requested goes on being the same. *)
LEMMA SendsLast ==
    ASSUME RelayType, InLine, Lasting, NEW c \in Conn, NEW k, IsSend(c, k)
    PROVE  /\ EnvelopeOf(c, k) \in Envelope
           /\ IsSend(c, k)' /\ EnvelopeOf(c, k)' = EnvelopeOf(c, k)
<1>1. k \in DOMAIN script[c] /\ script[c][k].type = "send" /\ script[c] \in Seq(Request)
  BY DEF IsSend, RelayType
<1>2. script[c][k].to \in User /\ k \in Nat /\ Owner[c] \in User
  BY <1>1, RelayAssumption, LenProperties DEF InLine, Requested
<1>3. k \in DOMAIN script'[c] /\ script'[c][k] = script[c][k]
  BY <1>1 DEF Lasting
<1> QED
  BY <1>1, <1>2, <1>3 DEF EnvelopeOf, IsSend, Envelope

(* So what the relay has told stays true, *)
LEMMA ToldLasts ==
    ASSUME RelayType, InLine, Lasting, Told, NEW c \in Conn, NEW i \in DOMAIN frames[c]
    PROVE  ToldTrue(c, i)'
<1>1. frames'[c][i] = frames[c][i] /\ ToldTrue(c, i)
  BY GrownFrames DEF Lasting, Told
<1>2. ASSUME NEW k \in DOMAIN script[c], IsSend(c, k)
      PROVE  /\ k \in DOMAIN script'[c] /\ IsSend(c, k)'
             /\ IsLive(EnvelopeOf(c, k)) => IsLive(EnvelopeOf(c, k))'
             /\ WasQueued(EnvelopeOf(c, k)) => WasQueued(EnvelopeOf(c, k))'
  <2>1. PICK e \in Envelope : e = EnvelopeOf(c, k) /\ e = EnvelopeOf(c, k)'
    BY <1>2, SendsLast
  <2>2. (IsLive(e) => IsLive(e)') /\ (WasQueued(e) => WasQueued(e)')
    BY EnvelopesLast
  <2>3. k \in DOMAIN script'[c] /\ IsSend(c, k)'
    BY <1>2, SendsLast DEF IsSend
  <2>4. /\ IsLive(EnvelopeOf(c, k)) => IsLive(EnvelopeOf(c, k))'
        /\ WasQueued(EnvelopeOf(c, k)) => WasQueued(EnvelopeOf(c, k))'
    BY <2>1, <2>2
  <2> QED
    BY <2>3, <2>4
<1> QED
  BY <1>1, <1>2 DEF ToldTrue

(* and what clients have reported. *)
LEMMA ReportsLast ==
    ASSUME RelayType, InLine, Lasting, Reports, NEW c \in Conn, status'[c] = status[c],
           pc[c] = "ended" => pc'[c] = "ended" /\ script'[c] = script[c]
    PROVE  ReportTrue(c)'
<1>1. SUFFICES ASSUME status[c] \in {"delivered", "queued"} PROVE ReportTrue(c)'
  BY DEF ReportTrue
<1>2. PICK k \in DOMAIN script[c] :
         /\ k = Len(script[c]) /\ IsSend(c, k)
         /\ status[c] = "delivered" => IsLive(EnvelopeOf(c, k))
         /\ status[c] = "queued" => WasQueued(EnvelopeOf(c, k))
  BY <1>1 DEF Reports, ReportTrue
<1>3. PICK e \in Envelope : e = EnvelopeOf(c, k) /\ e = EnvelopeOf(c, k)'
  BY <1>2, SendsLast
<1>4. (IsLive(e) => IsLive(e)') /\ (WasQueued(e) => WasQueued(e)')
  BY EnvelopesLast
<1>5. /\ IsSend(c, k)'
      /\ status'[c] = "delivered" => IsLive(EnvelopeOf(c, k))'
      /\ status'[c] = "queued" => WasQueued(EnvelopeOf(c, k))'
  BY <1>2, <1>3, <1>4, SendsLast
<1>6. pc'[c] = "ended" /\ script'[c] = script[c]
  BY <1>1 DEF Reports, ReportTrue
<1> QED
  BY <1>2, <1>5, <1>6 DEF ReportTrue

-----------------------------------------------------------------------------
(* Handlers deliver what their clients sent. *)

(* A handler that stays where it is goes on delivering the same. *)
LEMMA HandLasts ==
    ASSUME RelayType, InLine, Lasting, HandSent, NEW c \in Conn,
           Delivering(c)' => Delivering(c) /\ handler'[c].envelope = handler[c].envelope,
           next'[c] = next[c]
    PROVE  HandTrue(c)'
<1>1. SUFFICES ASSUME Delivering(c)' PROVE HandTrue(c)'
  BY DEF HandTrue
<1>2. PICK k \in DOMAIN script[c] :
         /\ k = next[c] - 1 /\ IsSend(c, k)
         /\ handler[c].envelope = EnvelopeOf(c, k) /\ IsLive(EnvelopeOf(c, k))
  BY <1>1 DEF HandSent, HandTrue
<1>3. PICK e \in Envelope : e = EnvelopeOf(c, k) /\ e = EnvelopeOf(c, k)'
  BY <1>2, SendsLast
<1>4. IsLive(e) => IsLive(e)'
  BY EnvelopesLast
<1>5. /\ IsSend(c, k)' /\ IsLive(EnvelopeOf(c, k))'
      /\ handler'[c].envelope = EnvelopeOf(c, k)'
  BY <1>1, <1>2, <1>3, <1>4, SendsLast
<1>6. k \in DOMAIN script'[c] /\ k = next'[c] - 1
  BY <1>2 DEF Lasting
<1> QED
  BY <1>5, <1>6 DEF HandTrue

(* The envelope that a handler makes of a send is the request's. *)
LEMMA SentIsAsked ==
    ASSUME ServerInv, NEW c \in Conn, Took(c), script[c][next[c]].type = "send",
           SentEnvelope(c) \in Envelope
    PROVE  /\ next[c] \in DOMAIN script[c] /\ IsSend(c, next[c])
           /\ SentEnvelope(c) = EnvelopeOf(c, next[c])
<1>1. handler[c].user = Owner[c]
  <2>1. handler[c].user \in User /\ handler[c].user \in {None, Owner[c]}
    BY DEF SentEnvelope, Envelope, ServerInv, Owned
  <2> QED
    BY <2>1, RelayAssumption
<1> QED
  BY <1>1 DEF Took, IsSend, SentEnvelope, EnvelopeOf, Named

(* What is delivered now is live. *)
LEMMA DeliveredIsLive ==
    ASSUME RelayType, NEW c \in Conn, NEW r \in Conn, Delivered(c, r),
           NEW e, e = SentEnvelope(c)
    PROVE  IsLive(e)'
<1> DEFINE f == [type |-> "deliver", envelope |-> e]
           n == Len(frames[r]) + 1
<1>1. f \in Frame /\ f.type = "deliver" /\ Carries(f, e)
  BY FrameFacts DEF Delivered, Carries
<1>2. frames' = [frames EXCEPT ![r] = Append(@, f)]
  BY DEF Delivered
<1> HIDE DEF f
<1>3. n \in DOMAIN frames'[r] /\ frames'[r][n] = f
  <2>1. frames[r] \in Seq(Frame) /\ frames'[r] = Append(frames[r], f)
    BY <1>2 DEF RelayType
  <2> QED
    BY <1>1, <2>1, OneMore
<1> QED
  BY <1>1, <1>3 DEF IsLive

(* Handlers are true to what was sent through every step of the relay. *)
LEMMA RelayHandSent ==
    ASSUME ServerInv, InLine, HandSent, NEW c \in Conn, Relays(c)
    PROVE  HandSent'
<1>1. /\ Lasting /\ RelayInv /\ RelayType
      /\ TakeRequest(c) \/ Continue(c)
  BY RelayLasting DEF Relays, ServerInv, RelayInv
<1>2. OthersStay(c) /\ script' = script /\ \A d \in Conn \ {c} : next'[d] = next[d]
  BY <1>1, TakeEffect, ContinueEffect DEF Took, RelayType
<1>3. HandTrue(c)'
  <2>1. CASE \E f \in Frame : TakenReply(c, f)
    BY <2>1 DEF TakenReply, Replied, Delivering, HandTrue
  <2>2. ASSUME Took(c), NEW r \in Conn, Delivered(c, r) PROVE HandTrue(c)'
    <3>1. PICK k \in DOMAIN script[c] : k = next[c] /\ IsSend(c, k) /\ SentEnvelope(c) = EnvelopeOf(c, k)
      BY <2>2, SentIsAsked DEF Delivered
    <3>2. PICK e \in Envelope : e = EnvelopeOf(c, k) /\ e = EnvelopeOf(c, k)'
      BY <1>1, <3>1, SendsLast
    <3>3. IsLive(e)'
      BY <1>1, <2>2, <3>1, <3>2, DeliveredIsLive
    <3>4. /\ IsSend(c, k)' /\ IsLive(EnvelopeOf(c, k))'
          /\ handler'[c].envelope = EnvelopeOf(c, k)'
      BY <1>1, <2>2, <3>1, <3>2, <3>3, SendsLast DEF Delivered
    <3>5. k = next'[c] - 1 /\ k \in DOMAIN script'[c]
      BY <1>1, <1>2, <2>2, <3>1 DEF Took, RelayType
    <3> QED
      BY <3>4, <3>5 DEF HandTrue
  <2>3. CASE Continue(c)
    <3>1. next'[c] = next[c]
      BY <1>1, <2>3, ContinueEffect
    <3>2. Delivering(c)' => Delivering(c) /\ handler'[c].envelope = handler[c].envelope
      BY <1>1, <2>3, ContinueEffect DEF GoesOn, Tells, Delivering
    <3> QED
      BY <1>1, <3>1, <3>2, HandLasts
  <2> QED
    BY <1>1, <2>1, <2>2, <2>3, TakeEffect
<1>4. ASSUME NEW d \in Conn \ {c} PROVE HandTrue(d)'
  BY <1>1, <1>2, HandLasts DEF OthersStay, Delivering
<1> QED
  BY <1>3, <1>4 DEF HandSent

-----------------------------------------------------------------------------
(* Nothing is delivered before the register is answered. *)

(* A delivery goes to a connection that has registered. *)
LEMMA RecipientHasFrames ==
    ASSUME RelayType, FirstFrames, NEW c \in Conn, NEW r \in Conn, Delivered(c, r)
    PROVE  frames[r] # << >>
BY RelayAssumption DEF FirstFrames, Delivered, Envelope

(* The relay keeps it so. *)
LEMMA RelayFirstFrames ==
    ASSUME ServerInv, InLine, HandSent, FirstFrames, NEW c \in Conn, Relays(c)
    PROVE  FirstFrames'
<1>1. /\ RelayInv /\ RelayType /\ RelayType' /\ FramesGrow
      /\ TakeRequest(c) \/ Continue(c)
  BY RelayFramesGrow, RelaySteady DEF Relays, ServerInv, RelayInv
<1>2. /\ UNCHANGED <<script, ws>> /\ \A d \in Conn \ {c} : next'[d] = next[d]
      /\ \/ next'[c] = next[c] + 1 /\ next[c] \in DOMAIN script[c]
         \/ next'[c] = next[c] /\ Continue(c)
  BY <1>1, TakeEffect, ContinueEffect DEF Took, RelayType
<1>3. \A d \in Conn : /\ next[d] \in Nat \ {0} /\ Len(script[d]) \in Nat
                      /\ DOMAIN script[d] = 1 .. Len(script[d])
                      /\ frames[d] \in Seq(Frame)
  BY <1>1, LenProperties DEF RelayType
<1>4. \A d \in Conn : next'[d] <= Len(script'[d]) + 1
  BY <1>2, <1>3 DEF FirstFrames
<1>5. ASSUME NEW d \in Conn, frames[d] = << >>, frames'[d] # << >>
      PROVE  /\ next'[d] # 1 /\ frames'[d][1].type # "deliver"
  <2>1. ASSUME NEW f \in Frame, f.type # "deliver",
               frames' = [frames EXCEPT ![c] = Append(@, f)]
        PROVE  d = c /\ frames'[d][1].type # "deliver"
    <3>1. d = c
      BY <1>1, <1>5, <2>1 DEF RelayType
    <3>2. frames'[d] = Append(<< >>, f)
      BY <1>1, <1>5, <2>1, <3>1 DEF RelayType
    <3> QED
      BY <2>1, <3>1, <3>2
  <2>2. ASSUME Took(c), NEW f \in Frame, TakenReply(c, f)
        PROVE  next'[d] # 1 /\ frames'[d][1].type # "deliver"
    <3>1. f.type # "deliver" /\ frames' = [frames EXCEPT ![c] = Append(@, f)]
      BY <1>5, <2>2 DEF TakenReply, Replied
    <3>2. d = c /\ frames'[d][1].type # "deliver"
      BY <2>1, <3>1
    <3>3. next'[c] = next[c] + 1
      BY <1>1, <2>2 DEF Took, RelayType
    <3> QED
      BY <1>3, <3>2, <3>3
  <2>3. ASSUME NEW r \in Conn, Delivered(c, r) PROVE FALSE
    BY <1>1, <1>5, <2>3, RecipientHasFrames DEF Delivered, RelayType
  <2>4. CASE Continue(c)
    <3>1. PICK msg \in {"delivered", "queued"} : Tells(c, msg)
      BY <1>1, <1>5, <2>4, ContinueEffect DEF GoesOn
    <3>2. d = c /\ frames'[d][1].type # "deliver"
      BY <2>1, <3>1, FrameFacts DEF Tells, Ok
    <3>3. next[c] - 1 \in DOMAIN script[c]
      BY <3>1 DEF HandSent, HandTrue, Tells, Delivering
    <3> QED
      BY <1>1, <1>2, <1>3, <2>4, <3>2, <3>3, ContinueEffect
  <2> QED
    BY <1>1, <2>2, <2>3, <2>4, TakeEffect
<1>6. ASSUME NEW d \in Conn
      PROVE  /\ next'[d] = 1 => frames'[d] = << >>
             /\ frames'[d] # << >> => frames'[d][1].type # "deliver"
             /\ frames[d] # << >> => frames'[d] # << >>
  <2>1. CASE frames[d] = << >>
    BY <1>5, <2>1
  <2>2. CASE frames[d] # << >>
    <3>1. 1 \in DOMAIN frames[d]
      BY <1>3, <2>2, EmptySeq, LenProperties
    <3>2. 1 \in DOMAIN frames'[d] /\ frames'[d][1] = frames[d][1]
      BY <1>1, <3>1, GrownFrames
    <3>3. frames'[d] # << >> /\ next'[d] # 1
      BY <1>2, <1>3, <2>2, <3>2 DEF FirstFrames
    <3> QED
      BY <2>2, <3>2, <3>3 DEF FirstFrames
  <2> QED
    BY <2>1, <2>2
<1>7. ASSUME NEW u \in User, connections'[u] # None
      PROVE  frames'[connections'[u]] # << >> \/ ws'[connections'[u]] = "closed"
  <2>1. CASE connections'[u] = connections[u]
    <3>1. connections[u] \in Conn
      BY <1>1, <1>7, <2>1 DEF RelayType
    <3> QED
      BY <1>2, <1>6, <1>7, <2>1, <3>1 DEF FirstFrames
  <2>2. CASE connections'[u] # connections[u]
    <3>1. PICK f \in Frame : TakenReply(c, f) /\ connections'[u] = c
      BY <1>1, <1>7, <2>2, TakeEffect, ContinueEffect DEF TakenReply, Delivered
    <3>2. CASE ws[c] = "closed"
      BY <1>2, <3>1, <3>2
    <3>3. CASE ws[c] # "closed"
      <4>1. frames'[c] = Append(frames[c], f) /\ frames[c] \in Seq(Frame)
        BY <1>1, <3>1, <3>3 DEF TakenReply, Replied, RelayType
      <4> QED
        BY <3>1, <4>1, AppendProperties
    <3> QED
      BY <3>2, <3>3
  <2> QED
    BY <2>1, <2>2
<1> QED
  BY <1>4, <1>6, <1>7 DEF FirstFrames

-----------------------------------------------------------------------------
(* Replies are in step with the requests while nothing is delivered. *)

(* Where nothing is written, nothing falls out of step. *)
LEMMA AnsweredStays ==
    ASSUME RelayType, FirstFrames, NEW c \in Conn, AnsweredSoFar(c),
           frames'[c] = frames[c],
           \A k \in DOMAIN script[c] : script'[c][k] = script[c][k],
           \/ next'[c] = next[c] /\ handler'[c].pc \in {handler[c].pc, "done"}
           \/ /\ next'[c] = next[c] + 1
              /\ handler[c].pc = "idle" /\ handler'[c].pc \in {"deliver", "done"}
           \/ /\ next'[c] = next[c]
              /\ handler[c].pc \in {"reply", "ack"} /\ handler'[c].pc = "idle"
    PROVE  AnsweredSoFar(c)'
<1>1. /\ next[c] \in Nat \ {0} /\ DOMAIN script[c] = 1 .. Len(script[c])
      /\ Len(script[c]) \in Nat /\ next[c] <= Len(script[c]) + 1
      /\ DOMAIN frames[c] = 1 .. Len(frames[c]) /\ Len(frames[c]) \in Nat
  BY LenProperties DEF RelayType, FirstFrames
<1>2. ASSUME NEW i \in DOMAIN frames'[c], NoDelivery(c, i)'
      PROVE  i < next'[c] /\ Answers(frames'[c][i], script'[c][i].type)
  <2>1. NoDelivery(c, i) /\ i \in DOMAIN frames[c]
    BY <1>2 DEF NoDelivery
  <2>2. i < next[c] /\ Answers(frames[c][i], script[c][i].type)
    BY <2>1 DEF AnsweredSoFar
  <2>3. i \in DOMAIN script[c]
    BY <1>1, <2>1, <2>2
  <2> QED
    BY <1>1, <2>2, <2>3
<1>3. ASSUME NoneDelivered(c)'
      PROVE  /\ handler'[c].pc \in {"idle", "reply", "ack"} => Len(frames'[c]) = next'[c] - 1
             /\ handler'[c].pc = "deliver" => Len(frames'[c]) = next'[c] - 2
  <2>1. /\ handler[c].pc \in {"idle", "reply", "ack"} => Len(frames[c]) = next[c] - 1
        /\ handler[c].pc = "deliver" => Len(frames[c]) = next[c] - 2
    BY <1>3 DEF NoneDelivered, AnsweredSoFar
  <2> QED
    BY <1>1, <2>1
<1> QED
  BY <1>2, <1>3 DEF AnsweredSoFar

(* A delivery ends it. *)
LEMMA AnsweredDelivery ==
    ASSUME RelayType, NEW c \in Conn, AnsweredSoFar(c), NEW f \in Frame,
           f.type = "deliver", frames'[c] = Append(frames[c], f), script' = script,
           next[c] <= next'[c], next'[c] \in Nat
    PROVE  AnsweredSoFar(c)'
<1> DEFINE n == Len(frames[c]) + 1
<1>1. /\ DOMAIN frames'[c] = 1 .. n /\ frames'[c][n] = f /\ Len(frames[c]) \in Nat
      /\ DOMAIN frames[c] = 1 .. Len(frames[c])
      /\ \A i \in DOMAIN frames[c] : frames'[c][i] = frames[c][i]
  BY OneMore DEF RelayType
<1>2. ~ NoneDelivered(c)'
  BY <1>1 DEF NoneDelivered
<1>3. ASSUME NEW i \in DOMAIN frames'[c], NoDelivery(c, i)'
      PROVE  i < next'[c] /\ Answers(frames'[c][i], script'[c][i].type)
  <2>1. i \in DOMAIN frames[c]
    BY <1>1, <1>3 DEF NoDelivery
  <2>2. NoDelivery(c, i)
    <3>1. \A j \in 1 .. i : j \in DOMAIN frames[c]
      BY <1>1, <2>1
    <3> QED
      BY <1>1, <1>3, <3>1 DEF NoDelivery
  <2>3. i < next[c] /\ Answers(frames[c][i], script[c][i].type)
    BY <2>1, <2>2 DEF AnsweredSoFar
  <2> QED
    BY <1>1, <2>1, <2>3 DEF RelayType
<1> QED
  BY <1>2, <1>3 DEF AnsweredSoFar

(* A reply is the next one. *)
LEMMA AnsweredReply ==
    ASSUME RelayType, NEW c \in Conn, AnsweredSoFar(c), NEW f \in Frame,
           f.type # "deliver", frames'[c] = Append(frames[c], f), script' = script,
           next[c] <= next'[c], next'[c] \in Nat, handler'[c].pc \in {"reply", "ack"},
           NoneDelivered(c) => /\ Len(frames[c]) = next'[c] - 2
                               /\ Answers(f, script[c][next'[c] - 1].type)
    PROVE  AnsweredSoFar(c)'
<1> DEFINE n == Len(frames[c]) + 1
<1>1. /\ DOMAIN frames'[c] = 1 .. n /\ frames'[c][n] = f /\ Len(frames[c]) \in Nat
      /\ DOMAIN frames[c] = 1 .. Len(frames[c]) /\ Len(frames'[c]) = n
      /\ \A i \in DOMAIN frames[c] : frames'[c][i] = frames[c][i]
      /\ next[c] \in Nat
  BY OneMore DEF RelayType
<1>2. ASSUME NEW i \in DOMAIN frames'[c], NoDelivery(c, i)'
      PROVE  i < next'[c] /\ Answers(frames'[c][i], script'[c][i].type)
  <2>1. CASE i \in DOMAIN frames[c]
    <3>1. \A j \in 1 .. i : j \in DOMAIN frames[c]
      BY <1>1, <2>1
    <3>2. NoDelivery(c, i)
      BY <1>1, <1>2, <3>1 DEF NoDelivery
    <3>3. i < next[c] /\ Answers(frames[c][i], script[c][i].type)
      BY <2>1, <3>2 DEF AnsweredSoFar
    <3> QED
      BY <1>1, <2>1, <3>3
  <2>2. CASE i = n
    <3>1. \A j \in DOMAIN frames[c] : j \in 1 .. i
      BY <1>1, <2>2
    <3>2. NoneDelivered(c)
      BY <1>1, <1>2, <3>1 DEF NoDelivery, NoneDelivered
    <3>3. n = next'[c] - 1
      BY <1>1, <3>2
    <3> QED
      BY <1>1, <2>2, <3>2, <3>3
  <2> QED
    BY <1>1, <2>1, <2>2
<1>3. NoneDelivered(c)' => Len(frames'[c]) = next'[c] - 1
  <2>1. SUFFICES ASSUME NoneDelivered(c)' PROVE Len(frames'[c]) = next'[c] - 1
    OBVIOUS
  <2>2. NoneDelivered(c)
    BY <1>1, <2>1 DEF NoneDelivered
  <2> QED
    BY <1>1, <2>2
<1> QED
  BY <1>2, <1>3 DEF AnsweredSoFar

(* So the relay keeps every connection in step. *)
LEMMA RelayAnswered ==
    ASSUME ServerInv, InLine, HandSent, FirstFrames, Answered, NEW c \in Conn, Relays(c)
    PROVE  Answered'
<1>1. /\ RelayInv /\ RelayType /\ RelayType'
      /\ TakeRequest(c) \/ Continue(c)
  BY RelaySteady DEF Relays, ServerInv, RelayInv
<1>2. /\ script' = script /\ OthersStay(c) /\ \A d \in Conn \ {c} : next'[d] = next[d]
      /\ \A d \in Conn : next[d] \in Nat /\ next'[d] \in Nat
  BY <1>1, TakeEffect, ContinueEffect DEF Took, RelayType
<1>3. \A d \in Conn : AnsweredSoFar(d)
  BY DEF Answered
<1>4. ASSUME NEW d \in Conn \ {c}, frames'[d] = frames[d] PROVE AnsweredSoFar(d)'
  BY <1>1, <1>2, <1>3, <1>4, AnsweredStays DEF OthersStay
<1>5. ASSUME Took(c)
      PROVE  /\ next'[c] = next[c] + 1 /\ handler[c].pc = "idle"
             /\ script[c][next[c]].type \in Waiting
             /\ NoneDelivered(c) => Len(frames[c]) = next'[c] - 2
  <2>1. next'[c] = next[c] + 1 /\ handler[c].pc = "idle" /\ next[c] \in DOMAIN script[c]
    BY <1>1, <1>5 DEF Took, RelayType
  <2>2. NoneDelivered(c) => Len(frames[c]) = next[c] - 1
    BY <1>3, <2>1 DEF AnsweredSoFar
  <2> QED
    BY <1>2, <2>1, <2>2 DEF InLine, Requested
<1>6. ASSUME Took(c), NEW f \in Frame, TakenReply(c, f) PROVE Answered'
  <2>1. AnsweredSoFar(c)'
    <3>1. CASE ws[c] # "closed"
      <4>1. /\ frames'[c] = Append(frames[c], f) /\ handler'[c].pc = "reply"
            /\ f.type # "deliver" /\ IsReplyTo(f, script[c][next[c]].type)
        BY <1>1, <1>6, <3>1 DEF TakenReply, Replied, RelayType
      <4>2. Answers(f, script[c][next[c]].type)
        BY <1>5, <1>6, <4>1 DEF IsReplyTo
      <4>3. next'[c] - 1 = next[c] /\ next[c] <= next'[c]
        BY <1>2, <1>5, <1>6
      <4> QED
        BY <1>1, <1>2, <1>3, <1>5, <1>6, <4>1, <4>2, <4>3, AnsweredReply
    <3>2. CASE ws[c] = "closed"
      <4>1. frames' = frames /\ handler'[c].pc = "done"
        BY <1>6, <3>2 DEF TakenReply, Replied
      <4> QED
        BY <1>1, <1>2, <1>3, <1>5, <1>6, <4>1, AnsweredStays
    <3> QED
      BY <3>1, <3>2
  <2>2. \A d \in Conn \ {c} : frames'[d] = frames[d]
    BY <1>1, <1>6 DEF TakenReply, Replied, RelayType
  <2> QED
    BY <1>4, <2>1, <2>2 DEF Answered
<1>7. ASSUME Took(c), NEW r \in Conn, Delivered(c, r) PROVE Answered'
  <2>1. PICK g \in Frame : g.type = "deliver" /\ frames' = [frames EXCEPT ![r] = Append(@, g)]
    BY <1>7, FrameFacts DEF Delivered
  <2>2. ASSUME NEW d \in Conn, d # r PROVE frames'[d] = frames[d]
    BY <1>1, <2>1, <2>2 DEF RelayType
  <2>3. AnsweredSoFar(r)'
    <3>1. frames'[r] = Append(frames[r], g)
      BY <1>1, <2>1 DEF RelayType
    <3>2. next'[r] = next[r] \/ next'[r] = next[r] + 1
      BY <1>2, <1>5, <1>7
    <3>3. next[r] <= next'[r]
      BY <1>2, <3>2
    <3> QED
      BY <1>1, <1>2, <1>3, <2>1, <3>1, <3>3, AnsweredDelivery
  <2>4. ASSUME c # r PROVE AnsweredSoFar(c)'
    <3>1. frames'[c] = frames[c] /\ handler'[c].pc = "deliver"
      BY <1>7, <2>2, <2>4 DEF Delivered
    <3> QED
      BY <1>1, <1>2, <1>3, <1>5, <1>7, <3>1, AnsweredStays
  <2> QED
    BY <1>4, <2>2, <2>3, <2>4 DEF Answered
<1>8. CASE Continue(c)
  <2>1. next'[c] = next[c]
    BY <1>1, <1>8, ContinueEffect
  <2>2. CASE GoesOn(c)
    <3>1. AnsweredSoFar(c)'
      BY <1>1, <1>2, <1>3, <2>1, <2>2, AnsweredStays DEF GoesOn
    <3> QED
      BY <1>4, <2>2, <3>1 DEF Answered, GoesOn
  <2>3. ASSUME NEW msg \in {"delivered", "queued"}, Tells(c, msg) PROVE Answered'
    <3>1. /\ Ok(msg) \in Frame /\ Ok(msg).type = "ok" /\ handler[c].pc = "deliver"
          /\ handler'[c].pc \in {"reply", "ack"}
          /\ frames' = [frames EXCEPT ![c] = Append(@, Ok(msg))]
      BY <2>3, FrameFacts DEF Tells, Ok
    <3>2. script[c][next[c] - 1].type = "send"
      BY <3>1 DEF HandSent, HandTrue, Delivering, IsSend
    <3>3. Answers(Ok(msg), script[c][next'[c] - 1].type)
      BY <2>1, <3>1, <3>2 DEF Answers
    <3>4. NoneDelivered(c) => Len(frames[c]) = next'[c] - 2
      BY <1>3, <2>1, <3>1 DEF AnsweredSoFar
    <3>5. frames'[c] = Append(frames[c], Ok(msg))
      BY <1>1, <3>1 DEF RelayType
    <3>6. AnsweredSoFar(c)'
      <4> DEFINE f == Ok(msg)
      <4>1. /\ f \in Frame /\ f.type # "deliver" /\ frames'[c] = Append(frames[c], f)
            /\ Answers(f, script[c][next'[c] - 1].type) /\ next[c] <= next'[c]
        BY <1>2, <2>1, <3>1, <3>3, <3>5
      <4> HIDE DEF f
      <4> QED
        BY <1>1, <1>2, <1>3, <3>1, <3>4, <4>1, AnsweredReply
    <3>7. \A d \in Conn \ {c} : frames'[d] = frames[d]
      BY <1>1, <3>1 DEF RelayType
    <3> QED
      BY <1>4, <3>6, <3>7 DEF Answered
  <2> QED
    BY <1>1, <1>8, <2>2, <2>3, ContinueEffect
<1> QED
  BY <1>1, <1>6, <1>7, <1>8, TakeEffect

-----------------------------------------------------------------------------
(* The relay tells its clients the truth. *)

(* A frame that says ok is written in truth. *)
LEMMA ToldOne ==
    ASSUME RelayType, InLine, Lasting, Told, NEW c \in Conn, NEW f \in Frame,
           frames' = [frames EXCEPT ![c] = Append(@, f)],
           f.type = "ok" =>
              \/ f.msg = "registered" /\ frames[c] = << >>
              \/ \E k \in DOMAIN script[c] : \E e \in Envelope :
                    /\ IsSend(c, k) /\ e = EnvelopeOf(c, k)
                    /\ \/ f.msg = "delivered" /\ IsLive(e)
                       \/ f.msg = "queued" /\ Queued(e)'
    PROVE  Told'
<1> DEFINE n == Len(frames[c]) + 1
<1>1. SUFFICES ASSUME NEW d \in Conn, NEW i \in DOMAIN frames'[d]
               PROVE  ToldTrue(d, i)'
  BY DEF Told
<1>2. /\ frames'[c] = Append(frames[c], f) /\ \A x \in Conn \ {c} : frames'[x] = frames[x]
      /\ frames[c] \in Seq(Frame)
  BY DEF RelayType
<1>3. /\ DOMAIN frames'[c] = DOMAIN frames[c] \cup {n} /\ frames'[c][n] = f
      /\ frames[c] = << >> => n = 1
  <2>1. /\ DOMAIN frames[c] = 1 .. Len(frames[c]) /\ Len(frames[c]) \in Nat
        /\ DOMAIN frames'[c] = 1 .. n /\ frames'[c][n] = f
    BY <1>2, OneMore
  <2>2. frames[c] = << >> => Len(frames[c]) = 0
    OBVIOUS
  <2> QED
    BY <2>1, <2>2
<1>4. CASE i \in DOMAIN frames[d]
  BY <1>4, ToldLasts
<1>5. CASE d = c /\ i = n
  <2>1. CASE f.type # "ok"
    BY <1>3, <1>5, <2>1 DEF ToldTrue
  <2>2. CASE f.msg = "registered" /\ frames[c] = << >>
    BY <1>3, <1>5, <2>2 DEF ToldTrue
  <2>3. ASSUME f.type = "ok", NEW k \in DOMAIN script[c], NEW e \in Envelope,
               IsSend(c, k), e = EnvelopeOf(c, k),
               \/ f.msg = "delivered" /\ IsLive(e)
               \/ f.msg = "queued" /\ Queued(e)'
        PROVE  ToldTrue(d, i)'
    <3>1. IsSend(c, k)' /\ e = EnvelopeOf(c, k)' /\ k \in DOMAIN script'[c]
      BY <2>3, SendsLast DEF Lasting
    <3>2. \/ f.msg = "delivered" /\ IsLive(e)'
          \/ f.msg = "queued" /\ WasQueued(e)'
      BY <2>3, EnvelopesLast DEF WasQueued
    <3>3. \/ f.msg = "delivered" /\ IsLive(EnvelopeOf(c, k))'
          \/ f.msg = "queued" /\ WasQueued(EnvelopeOf(c, k))'
      BY <3>1, <3>2
    <3> QED
      BY <1>3, <1>5, <3>1, <3>3 DEF ToldTrue
  <2> QED
    BY <2>1, <2>2, <2>3
<1> QED
  BY <1>2, <1>3, <1>4, <1>5

(* What was told stays true while nothing is written. *)
LEMMA ToldStays ==
    ASSUME RelayType, InLine, Lasting, Told, frames' = frames
    PROVE  Told'
BY ToldLasts DEF Told

(* Every reply of a handler is true. *)
LEMMA RelayTold ==
    ASSUME ServerInv, InLine, HandSent, FirstFrames, Told, NEW c \in Conn, Relays(c)
    PROVE  Told'
<1>1. /\ RelayInv /\ RelayType /\ Lasting
      /\ TakeRequest(c) \/ Continue(c)
  BY RelayLasting DEF Relays, ServerInv, RelayInv
<1>2. CASE frames' = frames
  BY <1>1, <1>2, ToldStays
<1>3. ASSUME Took(c), NEW f \in Frame, TakenReply(c, f) PROVE Told'
  <2>1. CASE ws[c] = "closed"
    BY <1>2, <1>3, <2>1 DEF TakenReply, Replied
  <2>2. CASE f.type = "ok" /\ ws[c] # "closed"
    <3>1. CASE f.msg = "registered" /\ script[c][next[c]].type = "register"
      <4>1. next[c] = 1
        BY <1>3, <3>1 DEF Took, InLine, Requested
      <4>2. frames[c] = << >>
        BY <4>1 DEF FirstFrames
      <4> QED
        BY <1>1, <1>3, <2>2, <3>1, <4>2, ToldOne DEF TakenReply, Replied
    <3>2. CASE f.msg = "queued" /\ script[c][next[c]].type = "send" /\ QueuesSent(c)
      <4>1. PICK e \in Envelope : e = SentEnvelope(c) /\ Queued(e)'
        BY <3>2 DEF QueuesSent
      <4>2. next[c] \in DOMAIN script[c] /\ IsSend(c, next[c]) /\ e = EnvelopeOf(c, next[c])
        BY <1>3, <3>2, <4>1, SentIsAsked
      <4>3. PICK k \in DOMAIN script[c] : k = next[c] /\ IsSend(c, k) /\ e = EnvelopeOf(c, k)
        BY <4>2
      <4> QED
        BY <1>1, <1>3, <2>2, <3>2, <4>1, <4>3, ToldOne DEF TakenReply, Replied
    <3> QED
      BY <1>3, <2>2, <3>1, <3>2 DEF TakenReply
  <2>3. CASE f.type # "ok" /\ ws[c] # "closed"
    BY <1>1, <1>3, <2>3, ToldOne DEF TakenReply, Replied
  <2> QED
    BY <2>1, <2>2, <2>3
<1>4. ASSUME NEW r \in Conn, Delivered(c, r) PROVE Told'
  <2>1. PICK g \in Frame : g.type = "deliver" /\ frames' = [frames EXCEPT ![r] = Append(@, g)]
    BY <1>4, FrameFacts DEF Delivered
  <2> QED
    BY <1>1, <2>1, ToldOne
<1>5. ASSUME NEW msg \in {"delivered", "queued"}, Tells(c, msg) PROVE Told'
  <2> DEFINE f == Ok(msg)
  <2>1. f \in Frame /\ f.msg = msg /\ frames' = [frames EXCEPT ![c] = Append(@, f)]
    BY <1>5, FrameFacts DEF Tells, Ok
  <2>2. PICK k \in DOMAIN script[c] :
           /\ IsSend(c, k) /\ handler[c].envelope = EnvelopeOf(c, k)
           /\ IsLive(EnvelopeOf(c, k))
    BY <1>5 DEF HandSent, HandTrue, Tells, Delivering
  <2>3. PICK e \in Envelope : e = EnvelopeOf(c, k)
    BY <1>1, <2>2, SendsLast
  <2>4. IsLive(e) /\ e = handler[c].envelope
    BY <2>2, <2>3
  <2>5. msg = "delivered" \/ (msg = "queued" /\ Queued(e)')
    <3>1. CASE QueuesInHand(c) /\ msg = "queued"
      <4>1. PICK x \in Envelope : x = handler[c].envelope /\ Queued(x)'
        BY <3>1 DEF QueuesInHand
      <4>2. x = e
        BY <2>4, <4>1
      <4> QED
        BY <3>1, <4>1, <4>2
    <3> QED
      BY <1>5, <3>1 DEF Tells
  <2> HIDE DEF f
  <2> QED
    BY <1>1, <2>1, <2>2, <2>3, <2>4, <2>5, ToldOne
<1> QED
  BY <1>1, <1>2, <1>3, <1>4, <1>5, TakeEffect, ContinueEffect DEF GoesOn

-----------------------------------------------------------------------------
(* Envelopes are accounted for. *)

(* The relay misses none, *)
LEMMA RelayNoneMissing ==
    ASSUME ServerInv, NoneMissing, NEW c \in Conn, Relays(c)
    PROVE  NoneMissing'
<1>1. PlacedStays /\ forgotten' = forgotten
  BY RelayServerInv DEF Relays, faultVars
<1> QED
  BY <1>1 DEF NoneMissing, PlacedStays

(* nor is any missing after a step of another. *)
LEMMA NoneMissingLasts ==
    ASSUME RelayType, Lasting, NoneMissing, accepted' = accepted
    PROVE  NoneMissing'
<1>1. SUFFICES ASSUME NEW e \in accepted PROVE Placed(e)' \/ e \in forgotten'
  BY DEF NoneMissing
<1>2. e \in Envelope /\ e.to \in User
  BY DEF RelayType, Envelope
<1>3. IsWritten(e) => IsWritten(e)'
  BY GrownFrames DEF IsWritten, CarriersIn, Lasting
<1>4. IsFetched(e)' => IsWritten(e)'
  BY DEF IsFetched, IsWritten, CarriersIn
<1> QED
  BY <1>2, <1>3, <1>4 DEF Lasting, WasQueued, Placed, NoneMissing

(* What is written while the clients do nothing waits to be read, or is    *)
(* let go of.                                                              *)
LEMMA WrittenLasts ==
    ASSUME ServerInv, InLine, ClientTypeOK, Lasting, WrittenAccounted,
           UNCHANGED <<command, taken, pc, processed>>, accepted' \in SUBSET Envelope
    PROVE  WrittenAccounted'
<1>1. SUFFICES ASSUME NEW e \in accepted', NEW c \in Conn, NEW i \in CarriersIn(frames'[c], e)
               PROVE  Accounted(e, c, i)'
  BY DEF WrittenAccounted
<1>2. /\ i \in DOMAIN frames'[c] /\ Carries(frames'[c][i], e)
      /\ Len(taken[c]) \in Nat /\ Len(taken[c]) <= Len(frames[c])
  BY <1>1, LenProperties DEF CarriersIn, InLine, ClientTypeOK
<1>3. /\ DOMAIN frames[c] = 1 .. Len(frames[c]) /\ Len(frames[c]) \in Nat
      /\ \A k \in DOMAIN frames[c] : frames'[c][k] = frames[c][k]
      /\ DOMAIN frames'[c] \subseteq Nat \ {0}
  <2>1. frames[c] \in Seq(Frame) /\ FramesGrow
    BY DEF Lasting, ServerInv, RelayInv, RelayType
  <2>2. frames'[c] \in Seq(Frame)
    BY <2>1, OneMore DEF FramesGrow
  <2>3. DOMAIN frames'[c] \subseteq Nat \ {0}
    BY <2>2, LenProperties
  <2> QED
    BY <2>1, <2>3, GrownFrames DEF ServerInv, RelayInv
<1>4. CASE i \in DOMAIN frames[c]
  <2>1. i \in CarriersIn(frames[c], e)
    BY <1>2, <1>3, <1>4 DEF CarriersIn
  <2>2. e \in accepted
    BY <1>1, <2>1 DEF ServerInv, Located, InItsPlace
  <2>3. Accounted(e, c, i)
    BY <2>1, <2>2 DEF WrittenAccounted
  <2> QED
    BY <1>3, <1>4, <2>3 DEF Accounted, LetGo
<1>5. CASE i \notin DOMAIN frames[c]
  <2>1. i > Len(taken[c])
    BY <1>2, <1>3, <1>5
  <2> QED
    BY <2>1 DEF Accounted, LetGo
<1> QED
  BY <1>4, <1>5

(* Only a client that takes a frame goes on in its frames. *)
LEMMA WhoTakes ==
    ASSUME RelayType, ClientTypeOK, InLine, NEW c \in Conn, ClientActs(c), TakesFrame(c)
    PROVE  TakeReply(c)
<1>1. Len(taken'[c]) = Len(taken[c]) + 1 /\ Len(taken[c]) \in Nat
  BY TakesInLine, LenProperties DEF ClientTypeOK
<1>2. ~ (Start(c) \/ Quit(c) \/ Die(c) \/ Raises(c))
  BY <1>1 DEF Start, Quit, Die, Raises, Stop
<1> QED
  BY <1>2 DEF ClientActs

(* An envelope that comes in the frame a client takes is processed, or let *)
(* go of.                                                                  *)
LEMMA FrameAccounted ==
    ASSUME RelayType, ClientTypeOK, InLine, NEW c \in Conn, TakeReply(c), TakesFrame(c),
           ClientMoves(c), NEW i, i = Len(taken[c]) + 1,
           NEW e \in Envelope, Carries(frames[c][i], e), Owner[c] = e.to
    PROVE  Accounted(e, c, i)'
<1> DEFINE f == frames[c][i]
<1>1. /\ f = NextFrame(c) /\ f \in Frame /\ f.type \in {"deliver", "messages"}
      /\ frames' = frames /\ command' = command
      /\ i \in DOMAIN taken'[c] /\ taken'[c][i] = pc[c]
  <2>1. f = NextFrame(c) /\ f \in Frame
    BY NextFrameFacts DEF NextFrame, TakesFrame
  <2>2. taken'[c] = Append(taken[c], pc[c]) /\ pc[c] \in Waiting \cup {"chatting"}
    BY DEF TakesFrame, ClientTypeOK
  <2>3. i \in DOMAIN taken'[c] /\ taken'[c][i] = pc[c]
    BY <2>2, OneMore DEF ClientTypeOK
  <2> QED
    BY <2>1, <2>3 DEF ClientMoves, Carries
<1>2. ASSUME ~ Answers(f, pc[c]) PROVE Accounted(e, c, i)'
  BY <1>1, <1>2 DEF Accounted, LetGo
<1>3. CASE pc[c] \in {"register", "get_bundle", "send"}
  BY <1>1, <1>2, <1>3 DEF Answers
<1>4. CASE Fetched(c)
  <2> DEFINE es == Messages(NextFrame(c))
             got(n) == {x \in {es[j] : j \in 1 .. n} : Wanted(c, x)}
  <2>1. pc[c] = "fetch"
    BY <1>4 DEF Fetched, Recv
  <2>2. CASE f.type = "messages"
    <3>1. /\ es = f.messages /\ es \in Seq(Envelope) /\ Len(es) \in Nat
          /\ DOMAIN es = 1 .. Len(es)
      BY <1>1, <2>2, FrameParts, LenProperties DEF Messages
    <3>2. PICK j \in 1 .. Len(es) : es[j] = e
      BY <2>2, <3>1 DEF Carries
    <3> HIDE DEF es
    <3>3. PICK n \in 0 .. Len(es) :
             /\ Process(Owner[c], got(n))
             /\ n < Len(es) => End(c, "died")
      BY <1>4 DEF Fetched, es
    <3>4. CASE n < Len(es)
      <4>1. pc'[c] = "died"
        BY <3>3, <3>4 DEF End, ClientTypeOK
      <4> QED
        BY <4>1 DEF Accounted, LetGo
    <3>5. CASE n = Len(es) /\ Wanted(c, e)
      <4>1. e \in got(n) /\ e.to \in User
        BY <3>2, <3>5 DEF Envelope
      <4>2. processed' = [processed EXCEPT ![Owner[c]] = @ \cup got(n)]
        BY <3>3 DEF Process
      <4> HIDE DEF got
      <4>3. e \in processed'[e.to]
        BY <4>1, <4>2 DEF ClientTypeOK
      <4> QED
        BY <4>3 DEF Accounted
    <3>6. CASE n = Len(es) /\ ~ Wanted(c, e)
      <4>1. command[c].name = "chat" /\ e.from # command[c].peer
        BY <2>1, <3>6 DEF Wanted, InLine, Stands
      <4> QED
        BY <1>1, <2>2, <4>1 DEF Accounted, LetGo
    <3> QED
      BY <3>1, <3>4, <3>5, <3>6
  <2> QED
    BY <1>1, <1>2, <2>1, <2>2 DEF Answers
<1>5. CASE Dispatched(c)
  <2>1. pc[c] = "chatting" /\ Process(Owner[c], IF f.type = "deliver" THEN {f.envelope} ELSE {})
    BY <1>1, <1>5 DEF Dispatched, Recv
  <2>2. CASE f.type = "deliver"
    <3>1. f.envelope = e /\ e.to \in User
      BY <2>2 DEF Carries, Envelope
    <3>2. e \in processed'[e.to]
      BY <2>1, <2>2, <3>1 DEF Process, ClientTypeOK
    <3> QED
      BY <3>2 DEF Accounted
  <2> QED
    BY <1>1, <1>2, <2>1, <2>2 DEF Answers
<1>6. Registered(c) \/ GotBundle(c) \/ Sent(c) => pc[c] \in {"register", "get_bundle", "send"}
  BY DEF Registered, GotBundle, Sent, Recv
<1> QED
  BY <1>3, <1>4, <1>5, <1>6 DEF TakeReply

(* A client's step keeps the account. *)
LEMMA ClientWritten ==
    ASSUME ServerInv, ClientTypeOK, ClientTypeOK', InLine, WrittenAccounted,
           NEW c \in Conn, ClientActs(c), ClientMoves(c)
    PROVE  WrittenAccounted'
<1>1. /\ frames' = frames /\ accepted' = accepted /\ command' = command
      /\ \A u \in User : processed[u] \subseteq processed'[u]
      /\ RelayType /\ accepted \in SUBSET Envelope
  BY DEF ClientMoves, ServerInv, RelayInv, RelayType
<1>2. SUFFICES ASSUME NEW e \in accepted, NEW d \in Conn, NEW i \in CarriersIn(frames[d], e)
               PROVE  Accounted(e, d, i)'
  BY <1>1 DEF WrittenAccounted
<1>3. /\ e \in Envelope /\ e.to \in User /\ Accounted(e, d, i) /\ Owner[d] = e.to
      /\ i \in DOMAIN frames[d] /\ Carries(frames[d][i], e) /\ i \in Nat
  BY <1>1, <1>2, LenProperties
     DEF WrittenAccounted, CarriersIn, Envelope, ServerInv, Located, InItsPlace, RelayType
<1>4. CASE d # c
  <2>1. pc'[d] = pc[d] /\ taken'[d] = taken[d]
    BY <1>4 DEF ClientMoves, Asks, Leaves, TakesFrame, ClientTypeOK
  <2> QED
    BY <1>1, <1>3, <2>1 DEF Accounted, LetGo
<1>5. CASE d = c /\ taken' = taken
  <2>1. pc[c] \notin {"ended", "died"}
    BY DEF ClientMoves, Asks, Leaves, Waiting
  <2> QED
    BY <1>1, <1>3, <1>5, <2>1 DEF Accounted, LetGo
<1>6. CASE d = c /\ TakesFrame(c)
  <2>1. /\ taken'[c] = Append(taken[c], pc[c]) /\ pc[c] \in Waiting \cup {"chatting"}
        /\ taken[c] \in Seq(Waiting \cup {"chatting"})
    BY <1>6 DEF TakesFrame, ClientTypeOK
  <2>2. /\ Len(taken'[c]) = Len(taken[c]) + 1 /\ Len(taken[c]) \in Nat
        /\ DOMAIN taken[c] = 1 .. Len(taken[c]) /\ DOMAIN taken'[c] = 1 .. Len(taken[c]) + 1
        /\ \A k \in DOMAIN taken[c] : taken'[c][k] = taken[c][k]
    BY <2>1, OneMore
  <2>3. pc[c] \notin {"ended", "died"}
    BY <2>1 DEF Waiting
  <2>4. CASE i = Len(taken[c]) + 1
    BY <1>1, <1>3, <1>6, <2>4, WhoTakes, FrameAccounted
  <2>5. CASE i > Len(taken[c]) + 1
    BY <1>3, <1>6, <2>2, <2>5 DEF Accounted, LetGo
  <2>6. CASE i <= Len(taken[c])
    <3>1. \/ e \in processed[e.to]
          \/ i \in DOMAIN taken[c] /\ ~ Answers(frames[c][i], taken[c][i])
          \/ /\ frames[c][i].type = "messages"
             /\ command[c].name = "chat" /\ e.from # command[c].peer
      BY <1>3, <1>6, <2>2, <2>3, <2>6 DEF Accounted, LetGo
    <3>2. i \in DOMAIN taken[c] => i \in DOMAIN taken'[c] /\ taken'[c][i] = taken[c][i]
      BY <2>2
    <3> QED
      BY <1>1, <1>3, <1>6, <3>1, <3>2 DEF Accounted, LetGo
  <2> QED
    BY <1>3, <2>2, <2>4, <2>5, <2>6
<1> QED
  BY <1>4, <1>5, <1>6 DEF ClientMoves, Asks, Leaves

-----------------------------------------------------------------------------
(* What a send reports. *)

(* The reply that a send takes tells what became of its own message. *)
LEMMA SentReports ==
    ASSUME RelayType, ClientTypeOK, InLine, Told, NEW c \in Conn, Sent(c)
    PROVE  ReportTrue(c)'
<1>1. /\ pc[c] = "send" /\ Unread(c)
      /\ Tell(c, Reported(NextFrame(c))) /\ End(c, "ended")
      /\ UNCHANGED <<queues, frames, lost, forgotten>>
  BY DEF Sent, Recv, faultVars
<1>2. PICK i \in DOMAIN frames[c], f \in Frame :
         i = Len(taken[c]) + 1 /\ f = frames[c][i] /\ f = NextFrame(c)
  BY <1>1, NextFrameFacts DEF NextFrame
<1>3. ToldTrue(c, i)
  BY DEF Told
<1>4. PICK n \in DOMAIN script[c] : n = Len(script[c]) /\ i = n /\ IsSend(c, n)
  <2>1. Len(script[c]) = Len(taken[c]) + 1 /\ script[c][Len(script[c])].type = "send"
    BY <1>1 DEF InLine, Stands, Waiting
  <2>2. Len(script[c]) \in DOMAIN script[c]
    BY <2>1, LenProperties DEF RelayType, ClientTypeOK
  <2> QED
    BY <1>2, <2>1, <2>2 DEF IsSend
<1>5. \A k \in DOMAIN script[c] : IsSend(c, k) => k = n
  BY <1>4 DEF InLine, Requested, IsSend
<1>6. i # 1
  BY <1>4 DEF InLine, Requested, IsSend
<1>7. /\ status'[c] = Reported(f) /\ pc'[c] = "ended" /\ script' = script
      /\ f.type = "ok" => f.msg \in {"registered", "delivered", "queued"}
  BY <1>1, <1>2, FrameParts DEF Tell, End, ClientTypeOK
<1>8. /\ status'[c] = "delivered" => IsLive(EnvelopeOf(c, n))
      /\ status'[c] = "queued" => WasQueued(EnvelopeOf(c, n))
  BY <1>2, <1>3, <1>5, <1>6, <1>7 DEF Reported, ToldTrue
<1>9. PICK e : e = EnvelopeOf(c, n) /\ e = EnvelopeOf(c, n)'
  BY <1>7 DEF EnvelopeOf
<1>10. (IsLive(e) => IsLive(e)') /\ (WasQueued(e) => WasQueued(e)') /\ IsSend(c, n)'
  BY <1>1, <1>4, <1>7
     DEF IsLive, WasQueued, Queued, IsFetched, IsSend
<1>11. /\ status'[c] = "delivered" => IsLive(EnvelopeOf(c, n))'
       /\ status'[c] = "queued" => WasQueued(EnvelopeOf(c, n))'
  BY <1>8, <1>9, <1>10
<1> QED
  BY <1>4, <1>7, <1>10, <1>11 DEF ReportTrue

(* Other steps of a client report nothing about messages. *)
LEMMA ClientReports ==
    ASSUME ServerInv, ClientTypeOK, InLine, Lasting, Told, Reports,
           NEW c \in Conn, ClientActs(c), ClientMoves(c)
    PROVE  Reports'
<1>1. RelayType
  BY DEF ServerInv, RelayInv
<1>2. ASSUME NEW d \in Conn \ {c} PROVE ReportTrue(d)'
  <2>1. status'[d] = status[d] /\ pc'[d] = pc[d] /\ script'[d] = script[d]
    BY <1>1 DEF ClientMoves, Asks, Leaves, RelayType, ClientTypeOK
  <2> QED
    BY <1>1, <2>1, ReportsLast
<1>3. pc[c] # "ended"
  BY DEF ClientMoves, Asks, Leaves, Waiting
<1>4. ASSUME status'[c] = status[c] PROVE ReportTrue(c)'
  BY <1>1, <1>3, <1>4, ReportsLast
<1>5. ASSUME status'[c] = "failed" PROVE ReportTrue(c)'
  BY <1>5 DEF ReportTrue
<1>6. Sent(c) \/ status'[c] = status[c] \/ status'[c] = "failed"
  BY DEF ClientActs, TakeReply, Start, Registered, GotBundle, Fetched, Dispatched, Quit,
         Die, Raises, Stop, Tell, ClientTypeOK
<1> QED
  BY <1>1, <1>2, <1>4, <1>5, <1>6, SentReports DEF Reports

-----------------------------------------------------------------------------
(* Every step. *)

(* Steps in which no frame is written and no request taken keep handlers   *)
(* true and replies in step.                                               *)
LEMMA HandlersStay ==
    ASSUME RelayType, InLine, Lasting, HandSent, Answered, FirstFrames,
           UNCHANGED <<next, frames>>,
           \A c \in Conn : /\ handler'[c].pc \in {handler[c].pc, "done"}
                           /\ handler'[c].envelope = handler[c].envelope
    PROVE  HandSent' /\ Answered'
<1>1. ASSUME NEW c \in Conn PROVE HandTrue(c)'
  BY HandLasts DEF Delivering
<1>2. ASSUME NEW c \in Conn PROVE AnsweredSoFar(c)'
  BY AnsweredStays DEF Answered, Lasting
<1> QED
  BY <1>1, <1>2 DEF HandSent, Answered

(* A step of the relay, *)
LEMMA RelayKeeps ==
    ASSUME ClientInv, NEW c \in Conn, Relays(c)
    PROVE  ClientInv'
<1>1. /\ ServerInv /\ RelayInv /\ RelayType /\ ClientTypeOK /\ InLine
      /\ HandSent /\ FirstFrames /\ Answered /\ Told /\ Reports
      /\ NoneMissing /\ WrittenAccounted
  BY DEF ClientInv, ServerInv, RelayInv
<1>2. /\ TakeRequest(c) \/ Continue(c)
      /\ UNCHANGED <<command, pc, taken, sessions, processed, status, failures, forgotten>>
  BY DEF Relays, clientVars, faultVars
<1>3. ServerInv' /\ accepted' \in SUBSET Envelope /\ FramesGrow /\ Lasting
  BY <1>1, <1>2, RelayServerInv, RelayFramesGrow, RelayLasting
     DEF ServerInv, RelayInv, RelayType
<1>4. UNCHANGED <<script, ws>>
  BY <1>1, <1>2, TakeEffect, ContinueEffect DEF Took
<1>5. ClientTypeOK'
  BY <1>1, <1>2 DEF ClientTypeOK
<1>6. InLine'
  BY <1>1, <1>2, <1>3, <1>4, InLineStays
<1>7. HandSent' /\ FirstFrames' /\ Answered' /\ Told' /\ NoneMissing'
  BY <1>1, RelayHandSent, RelayFirstFrames, RelayAnswered, RelayTold, RelayNoneMissing
<1>8. WrittenAccounted'
  BY <1>1, <1>2, <1>3, WrittenLasts
<1>9. ASSUME NEW d \in Conn PROVE ReportTrue(d)'
  BY <1>1, <1>2, <1>3, <1>4, ReportsLast
<1> QED
  BY <1>3, <1>5, <1>6, <1>7, <1>8, <1>9 DEF ClientInv, Reports

(* a step of a client, *)
LEMMA ClientKeeps ==
    ASSUME ClientInv, NEW c \in Conn, ClientActs(c)
    PROVE  ClientInv'
<1>1. /\ ServerInv /\ RelayInv /\ RelayType /\ ClientTypeOK /\ InLine
      /\ HandSent /\ FirstFrames /\ Answered /\ Told /\ Reports
      /\ NoneMissing /\ WrittenAccounted
  BY DEF ClientInv, ServerInv, RelayInv
<1>2. ClientMoves(c) /\ ClientTypeOK'
  BY <1>1, ClientEffect
<1>3. /\ UNCHANGED <<next, handler, bundles, queues, connections, frames,
                     accepted, lost, command, forgotten>>
      /\ \A d \in Conn : ws[d] = "closed" => ws'[d] = "closed"
  BY <1>2 DEF ClientMoves
<1>4. ServerInv' /\ InLine' /\ Lasting
  BY <1>1, <1>2, ClientServerInv, ClientInLine, ClientLasting
<1>5. FirstFrames'
  <2>1. \A d \in Conn : /\ Len(script[d]) \in Nat /\ Len(script[d]) <= Len(script'[d])
                        /\ next[d] <= Len(script[d]) + 1 /\ next[d] \in Nat
                        /\ Len(script'[d]) \in Nat
    <3>1. \A d \in Conn : script'[d] \in Seq(Request)
      BY <1>1, <1>2, ScriptGrows
    <3> QED
      BY <1>1, <1>2, <3>1, ScriptGrows, LenProperties DEF FirstFrames, RelayType
  <2>2. \A d \in Conn : next'[d] <= Len(script'[d]) + 1
    BY <1>3, <2>1
  <2> QED
    BY <1>1, <1>3, <2>2 DEF FirstFrames, RelayType
<1>6. HandSent' /\ Answered'
  BY <1>1, <1>3, <1>4, HandlersStay
<1>7. Told'
  BY <1>1, <1>3, <1>4, ToldStays
<1>8. Reports'
  BY <1>1, <1>2, <1>4, ClientReports
<1>9. NoneMissing'
  BY <1>1, <1>3, <1>4, NoneMissingLasts
<1>10. WrittenAccounted'
  BY <1>1, <1>2, ClientWritten
<1> QED
  BY <1>2, <1>4, <1>5, <1>6, <1>7, <1>8, <1>9, <1>10 DEF ClientInv

(* what befalls a connection or the relay, or nothing. *)
LEMMA OthersKeep ==
    ASSUME ClientInv, (\E c \in Conn : Notices(c)) \/ Restart \/ UNCHANGED allVars
    PROVE  ClientInv'
<1>1. /\ ServerInv /\ RelayInv /\ RelayType /\ ClientTypeOK /\ InLine
      /\ HandSent /\ FirstFrames /\ Answered /\ Told /\ Reports
      /\ NoneMissing /\ WrittenAccounted /\ Lasting
  BY OthersLasting DEF ClientInv, ServerInv, RelayInv
<1>2. /\ UNCHANGED <<script, next, frames, accepted, lost, command, pc, taken,
                     sessions, processed, status>>
      /\ \A d \in Conn : ws[d] = "new" => ws'[d] = "new"
      /\ \A d \in Conn : ws[d] = "closed" => ws'[d] = "closed"
      /\ \A c \in Conn : /\ handler'[c].pc \in {handler[c].pc, "done"}
                         /\ handler'[c].envelope = handler[c].envelope
      /\ \A u \in User : connections'[u] \in {connections[u], None}
  <2>1. CASE \E c \in Conn : Notices(c)
    BY <1>1, <2>1 DEF Notices, Notice, SetWs, clientVars, RelayType
  <2>2. CASE Restart
    BY <1>1, <2>2 DEF Restart, clientVars, RelayType, Handler
  <2>3. CASE UNCHANGED allVars
    BY <2>3 DEF allVars, vars, clientVars
  <2> QED
    BY <2>1, <2>2, <2>3
<1>3. ServerInv'
  <2>1. CASE UNCHANGED allVars
    BY <1>1, <2>1
       DEF allVars, vars, ServerInv, RelayInv, RelayType, Delivering, HasInHand, Owned,
           Located, InItsPlace, HandWritten
  <2> QED
    BY <1>1, <2>1, NoticeServerInv, RestartServerInv DEF Notices
<1>4. ClientTypeOK'
  <2>1. failures' \in 0 .. MaxFailures /\ forgotten' \in SUBSET Envelope
    <3>1. CASE Restart
      <4>1. \A u \in User : Range(queues[u]) \subseteq Envelope
        BY <1>1 DEF RelayType, Range
      <4> QED
        BY <1>1, <3>1, <4>1, ClientAssumption DEF Restart, ClientTypeOK
    <3>2. CASE (\E c \in Conn : Notices(c)) \/ UNCHANGED allVars
      BY <1>1, <3>2 DEF Notices, faultVars, allVars, ClientTypeOK
    <3> QED
      BY <3>1, <3>2
  <2> QED
    BY <1>1, <1>2, <2>1 DEF ClientTypeOK
<1>5. InLine'
  BY <1>1, <1>2, InLineStays DEF FramesGrow
<1>6. HandSent' /\ Answered' /\ Told'
  BY <1>1, <1>2, HandlersStay, ToldStays
<1>7. FirstFrames'
  <2>1. ASSUME NEW u \in User, connections'[u] # None
        PROVE  frames'[connections'[u]] # << >> \/ ws'[connections'[u]] = "closed"
    <3>1. connections'[u] = connections[u] /\ connections[u] \in Conn
      BY <1>1, <1>2, <2>1 DEF RelayType
    <3> QED
      BY <1>1, <1>2, <2>1, <3>1 DEF FirstFrames
  <2> QED
    BY <1>1, <1>2, <2>1 DEF FirstFrames
<1>8. NoneMissing'
  BY <1>1, <1>2, NoneMissingLasts
<1>9. WrittenAccounted'
  <2>1. accepted' \in SUBSET Envelope
    BY <1>1, <1>2 DEF RelayType
  <2> QED
    BY <1>1, <1>2, <2>1, WrittenLasts
<1>10. ASSUME NEW d \in Conn PROVE ReportTrue(d)'
  BY <1>1, <1>2, ReportsLast
<1> QED
  BY <1>3, <1>4, <1>5, <1>6, <1>7, <1>8, <1>9, <1>10 DEF ClientInv, Reports

(* Nothing has happened at the start. *)
LEMMA InitKeeps == ClientInit => ClientInv
<1> SUFFICES ASSUME ClientInit PROVE ClientInv
  OBVIOUS
<1>1. /\ ws = [c \in Conn |-> "new"] /\ next = [c \in Conn |-> 1]
      /\ frames = [c \in Conn |-> << >>] /\ accepted = {} /\ lost = {}
      /\ connections = [u \in User |-> None]
      /\ handler = [c \in Conn |-> NewHandler]
      /\ queues = [u \in User |-> << >>]
      /\ Init
  BY DEF ClientInit, Init
<1>2. /\ pc = [c \in Conn |-> "new"] /\ taken = [c \in Conn |-> << >>]
      /\ status = [c \in Conn |-> None]
  BY DEF ClientInit
<1>3. script = [c \in Conn |-> << >>]
  <2>1. script \in ChosenScripts /\ \A c \in Conn : Scripts[c] = {<< >>}
    BY ClientAssumption DEF ClientInit, Init
  <2> QED
    BY <2>1 DEF ChosenScripts
<1>4. ServerInv
  BY InitInv, InitOwned, InitEnvelopes, <1>1 DEF ServerInv, EnvelopeInv
<1>5. ClientTypeOK
  <2>1. << >> \in Seq(Waiting \cup {"chatting"})
    OBVIOUS
  <2> QED
    BY <2>1, ClientAssumption DEF ClientInit, ClientTypeOK
<1>6. \A c \in Conn : /\ frames[c] = << >> /\ script[c] = << >> /\ taken[c] = << >>
                      /\ next[c] = 1 /\ handler[c].pc = "idle" /\ pc[c] = "new"
                      /\ ws[c] = "new" /\ status[c] = None
  BY <1>1, <1>2, <1>3 DEF NewHandler
<1>7. InLine
  BY <1>6 DEF InLine, Requested, Stands, Waiting
<1>8. HandSent /\ FirstFrames /\ Answered /\ Told
  BY <1>1, <1>6
     DEF HandSent, HandTrue, Delivering, FirstFrames, Answered, AnsweredSoFar, Told
<1>9. Reports /\ NoneMissing /\ WrittenAccounted
  BY <1>1, <1>6, ClientAssumption DEF Reports, ReportTrue, NoneMissing, WrittenAccounted
<1> QED
  BY <1>4, <1>5, <1>7, <1>8, <1>9 DEF ClientInv

(* The invariant is kept by every step. *)
LEMMA NextKeeps == ClientInv /\ [ClientNext]_allVars => ClientInv'
BY RelayKeeps, ClientKeeps, OthersKeep DEF ClientNext, ClientActs

-----------------------------------------------------------------------------
(* The theorems. *)

(* So it always holds. *)
LEMMA AlwaysClientInv == ClientSpec => []ClientInv
BY InitKeeps, NextKeeps, PTL DEF ClientSpec

(* What clients keep has its type, whoever dies and whatever they are      *)
(* answered: only requests of the protocol are made, each in its place.    *)
THEOREM ClientsTypeCorrect == ClientSpec => []ClientTypeOK
<1>1. ClientInv => ClientTypeOK
  BY DEF ClientInv
<1> QED
  BY AlwaysClientInv, <1>1, PTL

(* Only a live delivery puts a client out of step with its replies, and    *)
(* never with that to its register.                                        *)
THEOREM OnlyDeliveriesConfuse == ClientSpec => []RepliesInStep
<1>1. ClientInv => RepliesInStep
  <2>1. SUFFICES ASSUME ClientInv, NEW c \in Conn, NEW i \in DOMAIN taken[c]
                 PROVE  \/ Answers(frames[c][i], taken[c][i])
                        \/ \E j \in 2 .. i : frames[c][j].type = "deliver"
    BY DEF RepliesInStep
  <2>2. /\ taken[c] \in Seq(Waiting \cup {"chatting"}) /\ frames[c] \in Seq(Frame)
        /\ script[c] \in Seq(Request) /\ next[c] \in Nat
        /\ Len(taken[c]) <= Len(frames[c]) /\ Requested(c) /\ AnsweredSoFar(c)
        /\ next[c] <= Len(script[c]) + 1
        /\ frames[c] # << >> => frames[c][1].type # "deliver"
    BY <2>1 DEF ClientInv, ClientTypeOK, InLine, Answered, FirstFrames, ServerInv,
                RelayInv, RelayType
  <2>3. /\ i \in Nat /\ i >= 1 /\ i \in DOMAIN frames[c]
        /\ DOMAIN script[c] = 1 .. Len(script[c]) /\ Len(script[c]) \in Nat
    BY <2>2, LenProperties
  <2>4. CASE NoDelivery(c, i)
    <3>1. i < next[c] /\ Answers(frames[c][i], script[c][i].type)
      BY <2>2, <2>3, <2>4 DEF AnsweredSoFar
    <3>2. taken[c][i] = script[c][i].type
      BY <2>2, <2>3, <3>1 DEF Requested
    <3> QED
      BY <3>1, <3>2
  <2>5. CASE ~ NoDelivery(c, i)
    <3>1. PICK j \in 1 .. i : frames[c][j].type = "deliver"
      BY <2>5 DEF NoDelivery
    <3>2. frames[c] # << >>
      BY <2>3
    <3>3. j # 1
      BY <2>2, <3>1, <3>2
    <3>4. j \in 2 .. i
      BY <2>3, <3>3
    <3> QED
      BY <3>1, <3>4
  <2> QED
    BY <2>4, <2>5
<1> QED
  BY AlwaysClientInv, <1>1, PTL

(* Every message the relay accepted is waiting, on its way or processed,   *)
(* but for those that a client let go of, that a fetch popped without      *)
(* writing anything, or that were in a queue when the relay restarted.     *)
THEOREM NoMessageUnaccounted == ClientSpec => []MessagesAccounted
<1>1. ClientInv => MessagesAccounted
  <2>1. SUFFICES ASSUME ClientInv, NEW e \in accepted
                 PROVE  \/ Queued(e) \/ e \in processed[e.to]
                        \/ e \in forgotten \/ e \in lost
                        \/ \E w \in Writings(e) :
                              \/ LetGo(e, w[1], w[2])
                              \/ w[2] > Len(taken[w[1]]) /\ pc[w[1]] # "ended"
    BY DEF MessagesAccounted
  <2>2. Placed(e) \/ e \in forgotten
    BY <2>1 DEF ClientInv, NoneMissing
  <2>3. ASSUME IsWritten(e)
        PROVE  \/ e \in processed[e.to]
               \/ \E w \in Writings(e) :
                     \/ LetGo(e, w[1], w[2])
                     \/ w[2] > Len(taken[w[1]]) /\ pc[w[1]] # "ended"
    <3>1. PICK d \in Conn : \E i \in CarriersIn(frames[d], e) : TRUE
      BY <2>3 DEF IsWritten
    <3> PICK i \in CarriersIn(frames[d], e) : TRUE
      BY <3>1
    <3>2. Accounted(e, d, i)
      BY <2>1, <3>1 DEF ClientInv, WrittenAccounted
    <3>3. PICK w \in Writings(e) : w = <<d, i>>
      BY <3>1, WritingsFacts
    <3> QED
      BY <3>2, <3>3 DEF Accounted
  <2> QED
    BY <2>2, <2>3 DEF Placed
<1> QED
  BY AlwaysClientInv, <1>1, PTL

(* A send that says its message was delivered, or queued, says the truth,  *)
(* even if the frame it took for the reply was not the reply.              *)
THEOREM ReportsAreTrue == ClientSpec => []StatusHonest
<1>1. ClientInv => StatusHonest
  <2>1. SUFFICES ASSUME ClientInv, NEW c \in Conn, NEW e,
                        e = [from |-> Owner[c], to |-> command[c].peer, conn |-> c,
                             no |-> Len(script[c])]
                 PROVE  /\ status[c] = "delivered" =>
                              \E w \in Writings(e) : frames[w[1]][w[2]].type = "deliver"
                        /\ status[c] = "queued" =>
                              \/ Queued(e) \/ e \in forgotten \/ e \in lost
                              \/ \E w \in Writings(e) : frames[w[1]][w[2]].type = "messages"
    BY DEF StatusHonest
  <2>2. SUFFICES ASSUME status[c] \in {"delivered", "queued"}
                 PROVE  /\ status[c] = "delivered" => IsLive(e)
                        /\ status[c] = "queued" => WasQueued(e)
    <3>1. ASSUME NEW d \in Conn, NEW i \in DOMAIN frames[d], Carries(frames[d][i], e)
          PROVE  \E w \in Writings(e) : frames[w[1]][w[2]].type = frames[d][i].type
      <4>1. i \in CarriersIn(frames[d], e)
        BY <3>1 DEF CarriersIn
      <4>2. PICK w \in Writings(e) : w = <<d, i>>
        BY <4>1, WritingsFacts
      <4> QED
        BY <4>2
    <3>2. IsLive(e) => \E w \in Writings(e) : frames[w[1]][w[2]].type = "deliver"
      BY <3>1 DEF IsLive
    <3>3. IsFetched(e) => \E w \in Writings(e) : frames[w[1]][w[2]].type = "messages"
      BY <3>1 DEF IsFetched
    <3> QED
      BY <2>2, <3>2, <3>3 DEF WasQueued
  <2>3. PICK k \in DOMAIN script[c] :
           /\ k = Len(script[c]) /\ IsSend(c, k)
           /\ status[c] = "delivered" => IsLive(EnvelopeOf(c, k))
           /\ status[c] = "queued" => WasQueued(EnvelopeOf(c, k))
    BY <2>1, <2>2 DEF ClientInv, Reports, ReportTrue
  <2>4. script[c][k].to = command[c].peer
    BY <2>1, <2>3 DEF ClientInv, InLine, Requested, IsSend
  <2>5. e = EnvelopeOf(c, k)
    BY <2>1, <2>3, <2>4 DEF EnvelopeOf
  <2> QED
    BY <2>3, <2>5
<1> QED
  BY AlwaysClientInv, <1>1, PTL
=============================================================================
