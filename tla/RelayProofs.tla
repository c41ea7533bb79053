---------------------------- MODULE RelayProofs ----------------------------
(***************************************************************************)
(* Theorems about Relay, for any users, connections and request sequences. *)
(* What is proved of one step speaks of the step alone, and not of where   *)
(* the requests come from, so that it serves the clients' commands too.    *)
(***************************************************************************)
EXTENDS Relay, SequenceTheorems, FiniteSetTheorems, WellFoundedInduction, TLAPS

-----------------------------------------------------------------------------
(* Types. *)

(* TypeOK, whatever the requests are. *)
RelayType ==
    /\ ws \in [Conn -> {"new", "open", "leaving", "closed"}]
    /\ script \in [Conn -> Seq(Request)]
    /\ next \in [Conn -> Nat \ {0}]
    /\ handler \in [Conn -> Handler]
    /\ bundles \in [User -> PublishedBundle \cup {None}]
    /\ queues \in [User -> Seq(Envelope)]
    /\ connections \in [User -> Conn \cup {None}]
    /\ frames \in [Conn -> Seq(Frame)]
    /\ accepted \in SUBSET Envelope
    /\ lost \in SUBSET Envelope

(* What a handler that starts, replies or goes on has in its locals. *)
LEMMA HandlerFacts ==
    ASSUME NEW pc \in {"idle", "reply", "deliver", "ack", "done"},
           NEW user \in User \cup {None}, NEW then \in User \cup {None},
           NEW h \in Handler
    PROVE  /\ NewHandler \in Handler
           /\ [NewHandler EXCEPT !.user = user] \in Handler
           /\ [NewHandler EXCEPT !.pc = pc, !.user = user, !.then = then] \in Handler
           /\ [h EXCEPT !.pc = pc] \in Handler
BY DEF NewHandler, Handler

(* The frames the relay writes are frames. *)
LEMMA FrameFacts ==
    /\ Error \in Frame
    /\ \A m \in {"registered", "delivered", "queued"} : Ok(m) \in Frame
    /\ \A e \in Envelope : [type |-> "deliver", envelope |-> e] \in Frame
    /\ \A b \in PublishedBundle : [type |-> "bundle", bundle |-> b] \in Frame
    /\ \A q \in Seq(Envelope) : [type |-> "messages", messages |-> q] \in Frame
BY DEF Frame, Error, Ok

(* The last send of a handler: what it may come to, and its types. *)
LEMMA ReplyFacts ==
    ASSUME RelayType, NEW c \in Conn, NEW f \in Frame,
           NEW user \in User \cup {None},
           NEW conns \in [User -> Conn \cup {None}],
           Reply(c, f, user, conns)
    PROVE  /\ handler' \in [Conn -> Handler]
           /\ frames' \in [Conn -> Seq(Frame)]
           /\ connections' \in [User -> Conn \cup {None}]
           /\ \A d \in Conn \ {c} : handler'[d] = handler[d] /\ frames'[d] = frames[d]
           /\ \/ /\ frames'[c] = Append(frames[c], f)
                 /\ ws[c] # "closed"
                 /\ handler'[c].pc = "reply" /\ handler'[c].user = handler[c].user
                 /\ handler'[c].then = user
                 /\ connections' = conns
              \/ /\ frames'[c] = frames[c]
                 /\ ws[c] = "closed"
                 /\ handler'[c].pc = "done"
                 /\ handler'[c].user = handler[c].user
                 /\ handler'[c].then = handler[c].then
                 /\ connections' = Unregister(conns, c, handler[c].user)
<1>1. handler[c] \in Handler /\ handler[c].user \in User \cup {None}
  BY DEF RelayType, Handler
<1>2. CASE ws[c] # "closed"
  <2> DEFINE h == [NewHandler EXCEPT !.pc = "reply", !.user = handler[c].user,
                                     !.then = user]
  <2>1. /\ h \in Handler /\ h.pc = "reply" /\ h.user = handler[c].user
        /\ h.then = user
    BY <1>1, HandlerFacts DEF NewHandler
  <2>2. /\ frames' = [frames EXCEPT ![c] = Append(@, f)]
        /\ handler' = [handler EXCEPT ![c] = h]
        /\ connections' = conns
    BY <1>2 DEF Reply
  <2> HIDE DEF h
  <2> QED
    BY <1>2, <2>1, <2>2 DEF RelayType
<1>3. CASE ws[c] = "closed"
  <2>1. /\ handler' = [handler EXCEPT ![c].pc = "done"]
        /\ connections' = Unregister(conns, c, handler[c].user)
        /\ frames' = frames
    BY <1>3 DEF Reply, Exit
  <2>2. /\ handler' \in [Conn -> Handler]
        /\ \A d \in Conn \ {c} : handler'[d] = handler[d]
        /\ handler'[c].pc = "done" /\ handler'[c].user = handler[c].user
        /\ handler'[c].then = handler[c].then
    BY <1>1, <2>1 DEF RelayType, Handler
  <2>3. connections' \in [User -> Conn \cup {None}]
    BY <2>1 DEF Unregister
  <2> QED
    BY <1>3, <2>1, <2>2, <2>3 DEF RelayType
<1> QED
  BY <1>2, <1>3

(* A request that is taken is one, made on a connection that is there.     *)
LEMMA TakesFacts ==
    ASSUME RelayType, NEW c \in Conn, NEW t, Takes(c, t)
    PROVE  /\ next[c] \in DOMAIN script[c] /\ script[c][next[c]] \in Request
           /\ Named(c) \in User \cup {None}
           /\ next' = [next EXCEPT ![c] = @ + 1]
           /\ next' \in [Conn -> Nat \ {0}]
           /\ ws' = ws /\ script' = script /\ handler[c].pc = "idle"
<1>1. script[c] \in Seq(Request) /\ next[c] \in DOMAIN script[c]
  BY DEF Takes, RelayType
<1>2. script[c][next[c]] \in Request
  BY <1>1
<1> QED
  BY <1>1, <1>2 DEF Takes, RelayType, Named, Request

(* The envelope of a send. *)
SentEnvelope(c) ==
    [from |-> handler[c].user, to |-> Named(c), conn |-> c, no |-> next[c]]

(* What a send request makes is an envelope for one of the users. *)
LEMMA SentFacts ==
    ASSUME RelayType, NEW c \in Conn, Send(c)
    PROVE  SentEnvelope(c) \in Envelope /\ SentEnvelope(c).to \in User
BY TakesFacts DEF Send, SentEnvelope, Envelope, RelayType, Handler

(* The handlers of a Send that delivers. *)
LEMMA DeliverFacts ==
    ASSUME RelayType, NEW c \in Conn, Send(c),
           LET e == SentEnvelope(c) IN
           handler' = [handler EXCEPT ![c] = [@ EXCEPT
                         !.pc = "deliver", !.envelope = e, !.rcpt = connections[e.to]]],
           Works(connections[SentEnvelope(c).to])
    PROVE  /\ handler' \in [Conn -> Handler]
           /\ \A d \in Conn \ {c} : handler'[d] = handler[d]
           /\ handler'[c].pc = "deliver" /\ handler'[c].user = handler[c].user
           /\ handler'[c].then = handler[c].then
           /\ handler'[c].envelope = SentEnvelope(c)
           /\ handler'[c].rcpt = connections[SentEnvelope(c).to]
<1> DEFINE e == SentEnvelope(c)
           r == connections[e.to]
           h == [handler[c] EXCEPT !.pc = "deliver", !.envelope = e, !.rcpt = r]
<1>1. e \in Envelope /\ e.to \in User
  BY SentFacts
<1>2. r \in Conn
  BY <1>1 DEF RelayType, Works
<1>3. handler[c] \in Handler
  BY DEF RelayType
<1>4. handler' = [handler EXCEPT ![c] = h]
  OBVIOUS
<1> HIDE DEF e, r
<1>5. /\ h \in Handler /\ h.pc = "deliver" /\ h.user = handler[c].user
      /\ h.then = handler[c].then /\ h.envelope = e /\ h.rcpt = r
  BY <1>1, <1>2, <1>3 DEF Handler
<1> HIDE DEF h
<1> QED
  BY <1>4, <1>5 DEF RelayType, e, r

(* A queue with one more envelope. *)
LEMMA EnqueueFacts ==
    ASSUME RelayType, NEW e \in Envelope, Enqueue(e)
    PROVE  /\ queues' \in [User -> Seq(Envelope)]
           /\ queues'[e.to] = Append(queues[e.to], e)
           /\ \A u \in User \ {e.to} : queues'[u] = queues[u]
<1>1. e.to \in User
  BY DEF Envelope
<1>2. Append(queues[e.to], e) \in Seq(Envelope)
  BY <1>1 DEF RelayType
<1>3. queues' = [queues EXCEPT ![e.to] = Append(queues[e.to], e)]
  BY DEF Enqueue
<1> QED
  BY <1>1, <1>2, <1>3 DEF RelayType

(* Least elements. *)
LEMMA FirstFacts ==
    ASSUME NEW opks \in SUBSET Nat
    PROVE  First(opks) \subseteq opks
<1>1. CASE opks = {}
  BY <1>1 DEF First
<1>2. CASE opks # {}
  <2>1. PICK i \in opks : \A j \in opks : ~ (<<j, i>> \in OpToRel(<, Nat))
    BY <1>2, NatLessThanWellFounded, WFMin
  <2>2. \A j \in opks : i <= j
    <3>1. SUFFICES ASSUME NEW j \in opks PROVE i <= j
      OBVIOUS
    <3>2. i \in Nat /\ j \in Nat /\ ~ (j < i)
      BY <2>1 DEF OpToRel
    <3> QED
      BY <3>2
  <2>3. First(opks) = {CHOOSE k \in opks : \A j \in opks : k <= j}
    BY <1>2 DEF First
  <2> QED
    BY <2>2, <2>3
<1> QED
  BY <1>1, <1>2

(* A bundle that is served, and what is left of it. *)
LEMMA ServedFacts ==
    ASSUME RelayType, NEW u \in User, HasBundle(u)
    PROVE  /\ bundles[u] \in PublishedBundle
           /\ [bundles[u] EXCEPT !.opks = First(@)] \in PublishedBundle
           /\ [bundles EXCEPT ![u].opks = Unserved(@)]
                 \in [User -> PublishedBundle \cup {None}]
<1>1. bundles[u] \in PublishedBundle
  BY DEF RelayType, HasBundle
<1>2. First(bundles[u].opks) \subseteq Nat /\ Unserved(bundles[u].opks) \subseteq Nat
  BY <1>1, FirstFacts DEF PublishedBundle, Unserved
<1>3. /\ [bundles[u] EXCEPT !.opks = First(@)] \in PublishedBundle
      /\ [bundles[u] EXCEPT !.opks = Unserved(@)] \in PublishedBundle
  BY <1>1, <1>2 DEF PublishedBundle
<1> QED
  BY <1>1, <1>3 DEF RelayType

-----------------------------------------------------------------------------
(* What each step does, to the types and to the histories. *)

(* The handlers of other connections stay where they are. *)
OthersStay(c) == \A d \in Conn \ {c} : handler'[d] = handler[d]

(* A request of c was taken. *)
Took(c) ==
    /\ handler[c].pc = "idle"
    /\ next[c] \in DOMAIN script[c]
    /\ next' = [next EXCEPT ![c] = @ + 1]
    /\ UNCHANGED <<ws, script>>

(* Frame f was written to c and its handler awaits, or the handler ended.  *)
Replied(c, f) ==
    \/ /\ ws[c] # "closed"
       /\ frames' = [frames EXCEPT ![c] = Append(@, f)]
       /\ handler'[c].pc = "reply"
    \/ /\ ws[c] = "closed"
       /\ frames' = frames
       /\ handler'[c].pc = "done"

(* A frame that has no envelope in it. *)
Plain == {f \in Frame : f.type \in {"error", "ok", "bundle"}}

(* A request that is answered at once, and touches no envelope. *)
QuietTake(c) ==
    /\ Took(c)
    /\ UNCHANGED <<queues, accepted, lost>>
    /\ \E f \in Plain : Replied(c, f)

(* A reply touches the frames and the state of its own handler only. *)
LEMMA RepliedFacts ==
    ASSUME RelayType, NEW c \in Conn, NEW f \in Frame,
           NEW user \in User \cup {None},
           NEW conns \in [User -> Conn \cup {None}],
           Reply(c, f, user, conns)
    PROVE  Replied(c, f) /\ OthersStay(c)
<1>1. /\ frames \in [Conn -> Seq(Frame)] /\ frames' \in [Conn -> Seq(Frame)]
      /\ \A d \in Conn \ {c} : handler'[d] = handler[d] /\ frames'[d] = frames[d]
      /\ \/ frames'[c] = Append(frames[c], f) /\ ws[c] # "closed"
            /\ handler'[c].pc = "reply"
         \/ frames'[c] = frames[c] /\ ws[c] = "closed" /\ handler'[c].pc = "done"
  BY ReplyFacts DEF RelayType
<1>2. CASE frames'[c] = Append(frames[c], f) /\ ws[c] # "closed"
           /\ handler'[c].pc = "reply"
  <2>1. frames' = [frames EXCEPT ![c] = Append(@, f)]
    BY <1>1, <1>2
  <2> QED
    BY <1>1, <1>2, <2>1 DEF Replied, OthersStay
<1>3. CASE frames'[c] = frames[c] /\ ws[c] = "closed" /\ handler'[c].pc = "done"
  <2>1. frames' = frames
    BY <1>1, <1>3
  <2> QED
    BY <1>1, <1>3, <2>1 DEF Replied, OthersStay
<1> QED
  BY <1>1, <1>2, <1>3

(* A step that takes a request and ends in a reply keeps the types if it   *)
(* keeps those of the tables.                                              *)
LEMMA TakeType ==
    ASSUME RelayType, NEW c \in Conn, NEW t, Takes(c, t),
           NEW f \in Frame, NEW user \in User \cup {None},
           NEW conns \in [User -> Conn \cup {None}],
           Reply(c, f, user, conns),
           bundles' \in [User -> PublishedBundle \cup {None}],
           queues' \in [User -> Seq(Envelope)],
           accepted' \in SUBSET Envelope, lost' \in SUBSET Envelope
    PROVE  RelayType' /\ Took(c) /\ Replied(c, f) /\ OthersStay(c)
<1>1. /\ handler' \in [Conn -> Handler] /\ frames' \in [Conn -> Seq(Frame)]
      /\ connections' \in [User -> Conn \cup {None}]
  BY ReplyFacts
<1> QED
  BY <1>1, TakesFacts, RepliedFacts DEF RelayType, Took

(* A register request moves no envelope. *)
LEMMA RegisterEffect ==
    ASSUME RelayType, NEW c \in Conn, Register(c)
    PROVE  RelayType' /\ OthersStay(c) /\ QuietTake(c)
<1> DEFINE b     == [conn |-> c, no |-> next[c], opks |-> 0 .. NumOpks - 1]
           conns == [connections EXCEPT ![Owner[c]] = c]
<1>1. Owner[c] \in User /\ NumOpks \in Nat
  BY RelayAssumption
<1>2. b \in PublishedBundle
  BY <1>1 DEF RelayType, PublishedBundle
<1>3. /\ bundles' = [bundles EXCEPT ![Owner[c]] = b]
      /\ Takes(c, "register") /\ UNCHANGED <<queues, accepted, lost>>
      /\ Reply(c, Ok("registered"), Owner[c], conns)
  BY DEF Register
<1>4. conns \in [User -> Conn \cup {None}]
  BY <1>1 DEF RelayType
<1>5. Ok("registered") \in Plain
  BY FrameFacts DEF Plain, Ok
<1> HIDE DEF b, conns
<1>6. /\ bundles' \in [User -> PublishedBundle \cup {None}]
      /\ queues' \in [User -> Seq(Envelope)] /\ accepted' \in SUBSET Envelope
      /\ lost' \in SUBSET Envelope
  BY <1>1, <1>2, <1>3 DEF RelayType
<1> QED
  BY <1>1, <1>3, <1>4, <1>5, <1>6, TakeType DEF QuietTake, Plain

(* Requests that are refused, or find nothing. *)
LEMMA RefusedEffect ==
    ASSUME RelayType, NEW c \in Conn,
           \/ RegisterNobody(c) \/ Unknown(c) \/ GetNoBundle(c)
           \/ RefuseSend(c) \/ RefuseFetch(c)
    PROVE  RelayType' /\ OthersStay(c) /\ QuietTake(c)
<1>1. PICK t \in RequestType, user \in User \cup {None} :
         /\ Takes(c, t) /\ Reply(c, Error, user, connections)
         /\ UNCHANGED <<bundles, queues, accepted, lost>>
  <2>1. handler[c].user \in User \cup {None}
    BY DEF RelayType, Handler
  <2>2. CASE RegisterNobody(c)
    BY <2>2 DEF RegisterNobody, RequestType
  <2>3. CASE Unknown(c) \/ GetNoBundle(c) \/ RefuseSend(c) \/ RefuseFetch(c)
    BY <2>1, <2>3 DEF Unknown, GetNoBundle, RefuseSend, RefuseFetch, ReplyError,
                      RequestType
  <2> QED
    BY <2>2, <2>3
<1>2. Error \in Plain /\ Error \in Frame
  BY FrameFacts DEF Plain, Error
<1> QED
  BY <1>1, <1>2, TakeType DEF QuietTake, RelayType

(* Nor does a bundle request. *)
LEMMA GetBundleEffect ==
    ASSUME RelayType, NEW c \in Conn, GetBundle(c)
    PROVE  RelayType' /\ OthersStay(c) /\ QuietTake(c)
<1> DEFINE u == Named(c)
           b == [bundles[u] EXCEPT !.opks = First(@)]
           f == [type |-> "bundle", bundle |-> b]
<1>1. /\ Takes(c, "get_bundle") /\ HasBundle(u)
      /\ bundles' = [bundles EXCEPT ![u].opks = Unserved(@)]
      /\ Reply(c, f, handler[c].user, connections)
      /\ UNCHANGED <<queues, accepted, lost>>
  BY DEF GetBundle
<1>2. u \in User
  BY <1>1, TakesFacts DEF HasBundle
<1>3. b \in PublishedBundle /\ bundles' \in [User -> PublishedBundle \cup {None}]
  BY <1>1, <1>2, ServedFacts
<1>4. f \in Plain /\ f \in Frame
  BY <1>3, FrameFacts DEF Plain
<1>5. handler[c].user \in User \cup {None}
  BY DEF RelayType, Handler
<1> HIDE DEF f
<1> QED
  BY <1>1, <1>3, <1>4, <1>5, TakeType DEF QuietTake, RelayType

(* A fetch moves all of its user's queue into one reply. *)
LEMMA FetchEffect ==
    ASSUME RelayType, NEW c \in Conn, Fetch(c)
    PROVE  LET u == handler[c].user IN
           /\ RelayType' /\ OthersStay(c) /\ Took(c)
           /\ script[c][next[c]].type = "fetch"
           /\ u \in User /\ accepted' = accepted
           /\ queues' = [queues EXCEPT ![u] = << >>]
           /\ lost' = IF ws[c] = "closed" THEN lost \cup Range(queues[u]) ELSE lost
           /\ Replied(c, [type |-> "messages", messages |-> queues[u]])
<1> DEFINE u == handler[c].user
           f == [type |-> "messages", messages |-> queues[u]]
<1>1. /\ Takes(c, "fetch") /\ u # None
      /\ queues' = [queues EXCEPT ![u] = << >>]
      /\ lost' = IF ws[c] = "closed" THEN lost \cup Range(queues[u]) ELSE lost
      /\ Reply(c, f, u, connections)
      /\ UNCHANGED <<bundles, accepted>>
  BY DEF Fetch
<1>2. u \in User
  BY <1>1 DEF RelayType, Handler
<1>3. f \in Frame
  BY <1>2, FrameFacts DEF RelayType
<1>4. << >> \in Seq(Envelope)
  OBVIOUS
<1>5. queues' \in [User -> Seq(Envelope)] /\ lost' \in SUBSET Envelope
  <2>1. \A e \in Range(queues[u]) : e \in Envelope
    BY <1>2 DEF RelayType, Range
  <2> HIDE DEF f
  <2> QED
    BY <1>1, <1>2, <1>4, <2>1 DEF RelayType
<1> HIDE DEF f
<1>6. RelayType' /\ Took(c) /\ Replied(c, f) /\ OthersStay(c)
  BY <1>1, <1>2, <1>3, <1>5, TakeType DEF RelayType
<1>7. script[c][next[c]].type = "fetch"
  BY <1>1 DEF Takes
<1> QED
  BY <1>1, <1>2, <1>6, <1>7 DEF f

(* The envelope of a send, written to its addressee's connection or queued.*)
LEMMA SendEffect ==
    ASSUME RelayType, NEW c \in Conn, Send(c)
    PROVE  LET e == SentEnvelope(c)
               r == connections[e.to]
           IN  /\ RelayType' /\ OthersStay(c) /\ Took(c)
               /\ e \in Envelope /\ accepted' = accepted \cup {e} /\ lost' = lost
               /\ \/ /\ r \in Conn /\ UNCHANGED queues
                     /\ frames' = [frames EXCEPT
                          ![r] = Append(@, [type |-> "deliver", envelope |-> e])]
                     /\ handler'[c].pc = "deliver"
                     /\ handler'[c].envelope = e /\ handler'[c].rcpt = r
                  \/ /\ Enqueue(e)
                     /\ \E f \in Plain : Replied(c, f)
<1> DEFINE e == SentEnvelope(c)
           r == connections[e.to]
           g == [type |-> "deliver", envelope |-> e]
<1>1. e \in Envelope /\ e.to \in User
  BY SentFacts
<1>2. /\ Takes(c, "send") /\ accepted' = accepted \cup {e}
      /\ UNCHANGED <<bundles, lost>>
      /\ \/ /\ Works(r)
            /\ frames' = [frames EXCEPT ![r] = Append(@, g)]
            /\ handler' = [handler EXCEPT ![c] = [@ EXCEPT
                             !.pc = "deliver", !.envelope = e, !.rcpt = r]]
            /\ UNCHANGED <<queues, connections>>
         \/ /\ Enqueue(e)
            /\ Reply(c, Ok("queued"), handler[c].user, connections)
  BY DEF Send, SentEnvelope
<1>3. /\ accepted' \in SUBSET Envelope /\ bundles' \in [User -> PublishedBundle \cup {None}]
      /\ lost' \in SUBSET Envelope
  BY <1>1, <1>2 DEF RelayType
<1>4. CASE /\ Works(r)
           /\ frames' = [frames EXCEPT ![r] = Append(@, g)]
           /\ handler' = [handler EXCEPT ![c] = [@ EXCEPT
                            !.pc = "deliver", !.envelope = e, !.rcpt = r]]
           /\ UNCHANGED <<queues, connections>>
  <2>1. /\ handler' \in [Conn -> Handler] /\ OthersStay(c)
        /\ handler'[c].pc = "deliver"
        /\ handler'[c].envelope = e /\ handler'[c].rcpt = r
    BY <1>4, DeliverFacts DEF OthersStay
  <2>2. r \in Conn
    BY <1>1, <1>4 DEF Works, RelayType
  <2>3. g \in Frame
    BY <1>1, FrameFacts
  <2> HIDE DEF e, r, g
  <2>4. Append(frames[r], g) \in Seq(Frame)
    BY <2>2, <2>3 DEF RelayType
  <2>5. frames' \in [Conn -> Seq(Frame)]
    BY <1>4, <2>2, <2>4 DEF RelayType
  <2>6. queues' \in [User -> Seq(Envelope)] /\ connections' \in [User -> Conn \cup {None}]
    BY <1>4 DEF RelayType
  <2>7. RelayType' /\ Took(c)
    BY <1>2, <1>3, <2>1, <2>5, <2>6, TakesFacts DEF RelayType, Took
  <2> QED
    BY <1>1, <1>2, <1>4, <2>1, <2>2, <2>7 DEF e, r, g
<1>5. CASE /\ Enqueue(e)
           /\ Reply(c, Ok("queued"), handler[c].user, connections)
  <2>1. queues' \in [User -> Seq(Envelope)]
    BY <1>1, <1>5, EnqueueFacts
  <2>2. Ok("queued") \in Plain /\ Ok("queued") \in Frame
    BY FrameFacts DEF Plain, Ok
  <2>3. handler[c].user \in User \cup {None}
    BY DEF RelayType, Handler
  <2> HIDE DEF e
  <2>4. RelayType' /\ Took(c) /\ Replied(c, Ok("queued")) /\ OthersStay(c)
    BY <1>2, <1>3, <1>5, <2>1, <2>2, <2>3, TakeType DEF RelayType
  <2> QED
    BY <1>1, <1>2, <1>5, <2>2, <2>4 DEF e
<1> QED
  BY <1>2, <1>4, <1>5

(* What a handler has of the envelope it delivers. *)
HasInHand(c) == handler[c].envelope \in Envelope /\ handler[c].rcpt \in Conn

(* A delivery that raises puts its envelope into the queue. *)
LEMMA DeliveryRaisesEffect ==
    ASSUME RelayType, NEW c \in Conn, DeliveryRaises(c), HasInHand(c)
    PROVE  /\ RelayType' /\ OthersStay(c)
           /\ handler[c].pc = "deliver" /\ ws[handler[c].rcpt] = "closed"
           /\ Enqueue(handler[c].envelope)
           /\ \E f \in Plain : Replied(c, f)
           /\ UNCHANGED <<ws, script, next, accepted, lost>>
<1> DEFINE e == handler[c].envelope
<1>1. /\ handler[c].pc = "deliver" /\ ws[handler[c].rcpt] = "closed"
      /\ Enqueue(e) /\ e \in Envelope
      /\ Reply(c, Ok("queued"), handler[c].user, connections)
      /\ UNCHANGED <<ws, script, next, bundles, accepted, lost>>
  BY DEF DeliveryRaises, HasInHand
<1> HIDE DEF e
<1>2. queues' \in [User -> Seq(Envelope)]
  BY <1>1, EnqueueFacts
<1>3. Ok("queued") \in Plain /\ Ok("queued") \in Frame
  BY FrameFacts DEF Plain, Ok
<1>4. handler[c].user \in User \cup {None} /\ connections \in [User -> Conn \cup {None}]
  BY DEF RelayType, Handler
<1>5. /\ handler' \in [Conn -> Handler] /\ frames' \in [Conn -> Seq(Frame)]
      /\ connections' \in [User -> Conn \cup {None}]
  BY <1>1, <1>3, <1>4, ReplyFacts
<1>6. Replied(c, Ok("queued")) /\ OthersStay(c)
  BY <1>1, <1>3, <1>4, RepliedFacts
<1>7. RelayType'
  BY <1>1, <1>2, <1>5 DEF RelayType
<1> QED
  BY <1>1, <1>3, <1>6, <1>7 DEF e

(* The acknowledgement of a delivery moves no envelope. *)
LEMMA AcknowledgeEffect ==
    ASSUME RelayType, NEW c \in Conn, Acknowledge(c)
    PROVE  /\ RelayType' /\ OthersStay(c)
           /\ handler[c].pc = "deliver" /\ handler'[c].pc = "ack"
           /\ handler'[c].envelope = handler[c].envelope
           /\ handler'[c].rcpt = handler[c].rcpt
           /\ \E f \in Plain : frames' = [frames EXCEPT ![c] = Append(@, f)]
           /\ UNCHANGED <<ws, script, next, queues, accepted, lost>>
<1> DEFINE f == Ok("delivered")
<1>1. /\ handler[c].pc = "deliver"
      /\ frames' = [frames EXCEPT ![c] = Append(@, f)]
      /\ handler' = [handler EXCEPT ![c].pc = "ack"]
      /\ UNCHANGED <<ws, script, next, bundles, queues, connections, accepted, lost>>
  BY DEF Acknowledge
<1>2. f \in Plain /\ f \in Frame
  BY FrameFacts DEF Plain, Ok
<1> HIDE DEF f
<1>3. Append(frames[c], f) \in Seq(Frame)
  BY <1>2 DEF RelayType
<1>4. frames' \in [Conn -> Seq(Frame)]
  BY <1>1, <1>3 DEF RelayType
<1>5. /\ handler' \in [Conn -> Handler] /\ OthersStay(c)
      /\ handler'[c].pc = "ack"
      /\ handler'[c].envelope = handler[c].envelope
      /\ handler'[c].rcpt = handler[c].rcpt
  BY <1>1 DEF RelayType, Handler, OthersStay
<1>6. RelayType'
  BY <1>1, <1>4, <1>5 DEF RelayType
<1> QED
  BY <1>1, <1>2, <1>5, <1>6

(* A handler that ends. *)
LEMMA ExitFacts ==
    ASSUME RelayType, NEW c \in Conn, Exit(c, connections)
    PROVE  /\ handler' \in [Conn -> Handler] /\ OthersStay(c)
           /\ handler'[c].pc = "done"
           /\ connections' \in [User -> Conn \cup {None}]
<1>1. /\ handler' = [handler EXCEPT ![c].pc = "done"]
      /\ connections' = Unregister(connections, c, handler[c].user)
  BY DEF Exit
<1> QED
  BY <1>1 DEF RelayType, Handler, OthersStay, Unregister

(* An acknowledgement that raises queues what was delivered. *)
LEMMA AcknowledgeRaisesEffect ==
    ASSUME RelayType, NEW c \in Conn, AcknowledgeRaises(c), HasInHand(c)
    PROVE  /\ RelayType' /\ OthersStay(c)
           /\ handler[c].pc \in {"deliver", "ack"} /\ handler'[c].pc = "done"
           /\ Enqueue(handler[c].envelope)
           /\ UNCHANGED <<ws, script, next, frames, accepted, lost>>
<1> DEFINE e == handler[c].envelope
<1>1. /\ handler[c].pc \in {"deliver", "ack"} /\ Enqueue(e) /\ e \in Envelope
      /\ Exit(c, connections)
      /\ UNCHANGED <<ws, script, next, bundles, frames, accepted, lost>>
  BY DEF AcknowledgeRaises, HasInHand
<1> HIDE DEF e
<1>2. queues' \in [User -> Seq(Envelope)]
  BY <1>1, EnqueueFacts
<1> QED
  BY <1>1, <1>2, ExitFacts DEF RelayType, e

(* A handler that goes on after its reply changes only itself. *)
LEMMA ResumeEffect ==
    ASSUME RelayType, NEW c \in Conn, Resume(c)
    PROVE  /\ RelayType' /\ OthersStay(c)
           /\ handler[c].pc \in {"reply", "ack"} /\ handler'[c].pc = "idle"
           /\ UNCHANGED <<ws, script, next, queues, frames, accepted, lost>>
<1> DEFINE user == IF handler[c].pc = "ack" THEN handler[c].user
                   ELSE handler[c].then
           h == [NewHandler EXCEPT !.user = user]
<1>1. /\ handler[c].pc \in {"reply", "ack"}
      /\ handler' = [handler EXCEPT ![c] = h]
      /\ UNCHANGED <<ws, script, next, bundles, queues, connections, frames,
                     accepted, lost>>
  BY DEF Resume
<1>2. user \in User \cup {None} /\ handler[c] \in Handler
  BY DEF RelayType, Handler
<1> HIDE DEF user
<1>3. h \in Handler /\ h.pc = "idle"
  BY <1>2, HandlerFacts DEF NewHandler
<1> HIDE DEF h
<1> QED
  BY <1>1, <1>3 DEF RelayType, OthersStay

(* Nor does a handler that ends touch a queue or a frame. *)
LEMMA DisconnectedEffect ==
    ASSUME RelayType, NEW c \in Conn, Disconnected(c)
    PROVE  /\ RelayType' /\ OthersStay(c)
           /\ handler[c].pc \in {"idle", "reply"} /\ handler'[c].pc = "done"
           /\ UNCHANGED <<ws, script, next, queues, frames, accepted, lost>>
BY ExitFacts DEF Disconnected, RelayType

(* Connections open and close by themselves. *)
LEMMA SocketEffect ==
    ASSUME RelayType, NEW c \in Conn, Connect(c) \/ Leave(c) \/ Notice(c)
    PROVE  /\ RelayType'
           /\ \A d \in Conn : ws[d] = "closed" => ws'[d] = "closed"
           /\ UNCHANGED <<script, next, handler, bundles, queues, connections,
                          frames, accepted, lost>>
BY DEF Connect, Leave, Notice, SetWs, RelayType

-----------------------------------------------------------------------------
(* Types, as an invariant: a handler that delivers has an envelope and a   *)
(* recipient in hand.                                                      *)
Delivering(c) == handler[c].pc \in {"deliver", "ack"}

RelayInv == RelayType /\ \A c \in Conn : Delivering(c) => HasInHand(c)

(* A relay that has served nobody satisfies the invariant. *)
LEMMA RelayInvInit ==
    ASSUME ws = [c \in Conn |-> "new"], script \in [Conn -> Seq(Request)],
           next = [c \in Conn |-> 1], handler = [c \in Conn |-> NewHandler],
           bundles = [u \in User |-> None], queues = [u \in User |-> << >>],
           connections = [u \in User |-> None],
           frames = [c \in Conn |-> << >>], accepted = {}, lost = {}
    PROVE  RelayInv
<1>1. NewHandler \in Handler /\ NewHandler.pc = "idle"
  BY DEF NewHandler, Handler
<1> QED
  BY <1>1 DEF RelayInv, RelayType, Delivering

(* A step of the handler of c changes no other handler, and the types hold *)
(* after it if they hold for the handler of c.                             *)
LEMMA RelayInvLocal ==
    ASSUME RelayInv, RelayType', NEW c \in Conn, OthersStay(c),
           Delivering(c)' => HasInHand(c)'
    PROVE  RelayInv'
BY DEF RelayInv, OthersStay, Delivering, HasInHand

(* Taking a request, whichever it is, keeps the invariant. *)
LEMMA TakeRequestInv ==
    ASSUME RelayInv, NEW c \in Conn, TakeRequest(c)
    PROVE  RelayInv'
<1>1. RelayType
  BY DEF RelayInv
<1>2. ASSUME RelayType', OthersStay(c), QuietTake(c) PROVE RelayInv'
  BY <1>2, RelayInvLocal DEF QuietTake, Replied, Delivering
<1>3. CASE Register(c) \/ GetBundle(c)
  BY <1>1, <1>2, <1>3, RegisterEffect, GetBundleEffect
<1>4. CASE \/ RegisterNobody(c) \/ Unknown(c) \/ GetNoBundle(c)
           \/ RefuseSend(c) \/ RefuseFetch(c)
  BY <1>1, <1>2, <1>4, RefusedEffect
<1>5. CASE Fetch(c)
  BY <1>1, <1>5, FetchEffect, RelayInvLocal DEF Replied, Delivering
<1>6. CASE Send(c)
  <2> DEFINE e == SentEnvelope(c)
  <2>1. /\ RelayType' /\ OthersStay(c) /\ e \in Envelope
        /\ \/ /\ connections[e.to] \in Conn
              /\ handler'[c].envelope = e /\ handler'[c].rcpt = connections[e.to]
           \/ \E f \in Plain : Replied(c, f)
    BY <1>1, <1>6, SendEffect
  <2> HIDE DEF e
  <2>2. Delivering(c)' => HasInHand(c)'
    BY <2>1 DEF Replied, Delivering, HasInHand
  <2> QED
    BY <2>1, <2>2, RelayInvLocal
<1> QED
  BY <1>3, <1>4, <1>5, <1>6 DEF TakeRequest

(* So does whatever a handler does between its awaits. *)
LEMMA ContinueInv ==
    ASSUME RelayInv, NEW c \in Conn, Continue(c)
    PROVE  RelayInv'
<1>1. RelayType /\ (Delivering(c) => HasInHand(c))
  BY DEF RelayInv
<1>2. CASE Resume(c) \/ Disconnected(c)
  BY <1>1, <1>2, ResumeEffect, DisconnectedEffect, RelayInvLocal DEF Delivering
<1>3. CASE DeliveryRaises(c)
  <2>1. HasInHand(c)
    BY <1>1, <1>3 DEF DeliveryRaises, Delivering
  <2> QED
    BY <1>1, <1>3, <2>1, DeliveryRaisesEffect, RelayInvLocal
       DEF Replied, Delivering
<1>4. CASE Acknowledge(c)
  BY <1>1, <1>4, AcknowledgeEffect, RelayInvLocal DEF Delivering, HasInHand
<1>5. CASE AcknowledgeRaises(c)
  <2>1. HasInHand(c)
    BY <1>1, <1>5 DEF AcknowledgeRaises, Delivering
  <2> QED
    BY <1>1, <1>5, <2>1, AcknowledgeRaisesEffect, RelayInvLocal DEF Delivering
<1> QED
  BY <1>2, <1>3, <1>4, <1>5 DEF Continue

(* So do connections that open, are left and are found closed. *)
LEMMA SocketInv ==
    ASSUME RelayInv, NEW c \in Conn, Connect(c) \/ Leave(c) \/ Notice(c)
    PROVE  RelayInv'
BY SocketEffect DEF RelayInv, Delivering, HasInHand

(* The requests of a connection are a sequence, and are not changed.       *)
LEMMA ChosenScriptsType ==
    ASSUME NEW s \in ChosenScripts
    PROVE  s \in [Conn -> Seq(Request)]
<1>1. s \in [Conn -> UNION Range(Scripts)] /\ \A c \in Conn : s[c] \in Scripts[c]
  BY DEF ChosenScripts
<1>2. \A c \in Conn : Scripts[c] \in SUBSET Seq(Request)
  BY RelayAssumption
<1> QED
  BY <1>1, <1>2

(* The invariant holds at the start, *)
LEMMA InitInv == Init => RelayInv
BY RelayInvInit, ChosenScriptsType DEF Init

(* and every step keeps it. *)
LEMMA NextInv == RelayInv /\ [Next]_vars => RelayInv'
<1> SUFFICES ASSUME RelayInv, [Next]_vars PROVE RelayInv'
  OBVIOUS
<1>1. ASSUME NEW c \in Conn, Connect(c) \/ Leave(c) \/ Notice(c) PROVE RelayInv'
  BY <1>1, SocketInv
<1>2. ASSUME NEW c \in Conn, TakeRequest(c) PROVE RelayInv'
  BY <1>2, TakeRequestInv
<1>3. ASSUME NEW c \in Conn, Continue(c) PROVE RelayInv'
  BY <1>3, ContinueInv
<1>4. CASE UNCHANGED vars
  BY <1>4 DEF vars, RelayInv, RelayType, Delivering, HasInHand
<1> QED
  BY <1>1, <1>2, <1>3, <1>4 DEF Next

(* No step changes the requests the clients make. *)
LEMMA ScriptStays == RelayInv /\ [Next]_vars => script' = script
<1> SUFFICES ASSUME RelayInv, [Next]_vars PROVE script' = script
  OBVIOUS
<1>1. ASSUME NEW c \in Conn, TakeRequest(c) PROVE script' = script
  BY <1>1 DEF TakeRequest, Register, RegisterNobody, Unknown, GetBundle,
              GetNoBundle, Send, RefuseSend, Fetch, RefuseFetch, Takes
<1>2. ASSUME NEW c \in Conn, Continue(c) PROVE script' = script
  BY <1>2 DEF Continue, Resume, Disconnected, DeliveryRaises, Acknowledge,
              AcknowledgeRaises
<1>3. ASSUME NEW c \in Conn, Connect(c) \/ Leave(c) \/ Notice(c)
      PROVE  script' = script
  BY <1>3 DEF Connect, Leave, Notice, SetWs
<1> QED
  BY <1>1, <1>2, <1>3 DEF Next, vars

(* The tables of the relay, its handlers and what it wrote have their      *)
(* types through every step of every handler.                              *)
THEOREM TypeCorrect == Spec => []TypeOK
<1>1. Init => script \in ChosenScripts
  BY DEF Init
<1>2. script \in ChosenScripts /\ RelayInv /\ [Next]_vars => (script \in ChosenScripts)'
  BY ScriptStays
<1>3. RelayInv /\ script \in ChosenScripts => TypeOK
  BY DEF RelayInv, RelayType, TypeOK
<1> HIDE DEF TypeOK
<1> QED
  BY InitInv, NextInv, <1>1, <1>2, <1>3, PTL DEF Spec

-----------------------------------------------------------------------------
(* Replies and requests. *)

(* The replies among the frames s. *)
ReplyFrames(s) == {i \in DOMAIN s : s[i].type # "deliver"}

(* How many requests of c have no reply yet. *)
Behind(c) == (next[c] - 1) - Cardinality(ReplyFrames(frames[c]))

InStep(c) ==
    /\ handler[c].pc \in {"idle", "reply", "ack"} => Behind(c) = 0
    /\ handler[c].pc = "deliver" => Behind(c) = 1

(* One more frame is one more reply, unless it is a delivery. *)
LEMMA ReplyCount ==
    ASSUME NEW s \in Seq(Frame), NEW f \in Frame
    PROVE  /\ Cardinality(ReplyFrames(s)) \in Nat
           /\ f.type = "deliver" =>
                 Cardinality(ReplyFrames(Append(s, f))) = Cardinality(ReplyFrames(s))
           /\ f.type # "deliver" =>
                 Cardinality(ReplyFrames(Append(s, f))) = Cardinality(ReplyFrames(s)) + 1
<1> DEFINE n == Len(s)
           R == ReplyFrames(s)
<1>1. n \in Nat /\ DOMAIN s = 1 .. n
  OBVIOUS
<1>2. IsFiniteSet(R)
  <2>1. IsFiniteSet(1 .. n)
    BY <1>1, FS_Interval
  <2>2. R \subseteq 1 .. n
    BY <1>1 DEF ReplyFrames
  <2> QED
    BY <2>1, <2>2, FS_Subset
<1>3. Cardinality(R) \in Nat
  BY <1>2, FS_CardinalityType
<1>4. /\ DOMAIN Append(s, f) = 1 .. (n + 1)
      /\ Append(s, f)[n + 1] = f
      /\ \A i \in 1 .. n : Append(s, f)[i] = s[i]
  BY AppendProperties, LenProperties
<1>5. n + 1 \notin R
  BY <1>1 DEF ReplyFrames
<1>6. CASE f.type = "deliver"
  <2>1. ReplyFrames(Append(s, f)) = R
    BY <1>1, <1>4, <1>6 DEF ReplyFrames
  <2> QED
    BY <1>3, <1>6, <2>1
<1>7. CASE f.type # "deliver"
  <2>1. ReplyFrames(Append(s, f)) = R \cup {n + 1}
    BY <1>1, <1>4, <1>7 DEF ReplyFrames
  <2>2. Cardinality(R \cup {n + 1}) = Cardinality(R) + 1
    BY <1>2, <1>5, FS_AddElement
  <2> QED
    BY <1>3, <1>7, <2>1, <2>2
<1> QED
  BY <1>6, <1>7

(* A connection that is delivered to, or is not touched at all, stays in   *)
(* step if its handler stays where it is.                                  *)
LEMMA OthersInStep ==
    ASSUME RelayType, NEW d \in Conn, InStep(d),
           handler'[d] = handler[d], next'[d] = next[d],
           \/ frames'[d] = frames[d]
           \/ \E g \in Frame : g.type = "deliver" /\ frames'[d] = Append(frames[d], g)
    PROVE  InStep(d)'
<1>1. Cardinality(ReplyFrames(frames'[d])) = Cardinality(ReplyFrames(frames[d]))
  BY ReplyCount DEF RelayType
<1> QED
  BY <1>1 DEF InStep, Behind

(* The request that is taken is answered at once, or the handler is over.  *)
LEMMA TakenInStep ==
    ASSUME RelayType, NEW c \in Conn, InStep(c), Took(c),
           NEW f \in Frame, f.type # "deliver", Replied(c, f)
    PROVE  InStep(c)'
<1>1. /\ Cardinality(ReplyFrames(frames[c])) \in Nat /\ next[c] \in Nat
      /\ Cardinality(ReplyFrames(Append(frames[c], f))) =
            Cardinality(ReplyFrames(frames[c])) + 1
  BY ReplyCount DEF RelayType
<1>2. Behind(c) = 0 /\ next'[c] = next[c] + 1
  BY DEF InStep, Took, RelayType
<1>3. CASE handler'[c].pc = "reply" /\ frames' = [frames EXCEPT ![c] = Append(@, f)]
  <2>1. frames'[c] = Append(frames[c], f)
    BY <1>3 DEF RelayType
  <2> QED
    BY <1>1, <1>2, <1>3, <2>1 DEF InStep, Behind
<1>4. CASE handler'[c].pc = "done"
  BY <1>4 DEF InStep
<1> QED
  BY <1>3, <1>4 DEF Replied

AllInStep == \A c \in Conn : InStep(c)

(* It is enough to look at the connection whose handler moves. *)
LEMMA InStepLocal ==
    ASSUME RelayType, AllInStep, NEW c \in Conn, OthersStay(c), InStep(c)',
           \A d \in Conn \ {c} :
              /\ next'[d] = next[d]
              /\ \/ frames'[d] = frames[d]
                 \/ \E g \in Frame : g.type = "deliver" /\ frames'[d] = Append(frames[d], g)
    PROVE  AllInStep'
<1>1. ASSUME NEW d \in Conn \ {c} PROVE InStep(d)'
  BY <1>1, OthersInStep DEF AllInStep, OthersStay
<1> QED
  BY <1>1 DEF AllInStep

(* Replies keep in step when a request is taken, *)
LEMMA TakeRequestInStep ==
    ASSUME RelayInv, AllInStep, NEW c \in Conn, TakeRequest(c)
    PROVE  AllInStep'
<1>1. RelayType /\ InStep(c)
  BY DEF RelayInv, AllInStep
<1>2. ASSUME OthersStay(c), Took(c), NEW f \in Frame, f.type # "deliver", Replied(c, f)
      PROVE  AllInStep'
  <2>1. InStep(c)'
    BY <1>1, <1>2, TakenInStep
  <2>2. \A d \in Conn \ {c} : next'[d] = next[d] /\ frames'[d] = frames[d]
    BY <1>1, <1>2 DEF Took, Replied, RelayType
  <2> QED
    BY <1>1, <1>2, <2>1, <2>2, InStepLocal
<1>3. ASSUME OthersStay(c), QuietTake(c) PROVE AllInStep'
  BY <1>2, <1>3 DEF QuietTake, Plain
<1>4. CASE Register(c) \/ GetBundle(c)
  BY <1>1, <1>3, <1>4, RegisterEffect, GetBundleEffect
<1>5. CASE \/ RegisterNobody(c) \/ Unknown(c) \/ GetNoBundle(c)
           \/ RefuseSend(c) \/ RefuseFetch(c)
  BY <1>1, <1>3, <1>5, RefusedEffect
<1>6. CASE Fetch(c)
  <2> DEFINE f == [type |-> "messages", messages |-> queues[handler[c].user]]
  <2>1. OthersStay(c) /\ Took(c) /\ Replied(c, f) /\ handler[c].user \in User
    BY <1>1, <1>6, FetchEffect
  <2>2. f \in Frame /\ f.type # "deliver"
    BY <1>1, <2>1, FrameFacts DEF RelayType
  <2> HIDE DEF f
  <2> QED
    BY <1>2, <2>1, <2>2
<1>7. CASE Send(c)
  <2> DEFINE e == SentEnvelope(c)
             r == connections[e.to]
             g == [type |-> "deliver", envelope |-> e]
  <2>1. /\ OthersStay(c) /\ Took(c) /\ e \in Envelope
        /\ \/ /\ r \in Conn
              /\ frames' = [frames EXCEPT ![r] = Append(@, g)]
              /\ handler'[c].pc = "deliver"
           \/ \E f \in Plain : Replied(c, f)
    BY <1>1, <1>7, SendEffect
  <2>2. g \in Frame /\ g.type = "deliver"
    BY <2>1, FrameFacts
  <2> HIDE DEF e, r, g
  <2>3. CASE /\ r \in Conn
             /\ frames' = [frames EXCEPT ![r] = Append(@, g)]
             /\ handler'[c].pc = "deliver"
    <3>1. \A d \in Conn : \/ frames'[d] = frames[d]
                          \/ frames'[d] = Append(frames[d], g)
      BY <1>1, <2>3 DEF RelayType
    <3>2. Cardinality(ReplyFrames(frames'[c])) = Cardinality(ReplyFrames(frames[c]))
      BY <1>1, <2>2, <3>1, ReplyCount DEF RelayType
    <3>3. /\ Cardinality(ReplyFrames(frames[c])) \in Nat /\ next[c] \in Nat
          /\ next'[c] = next[c] + 1 /\ Behind(c) = 0
      BY <1>1, <2>1, <2>2, ReplyCount DEF RelayType, Took, InStep
    <3>4. InStep(c)'
      BY <2>3, <3>2, <3>3 DEF InStep, Behind
    <3>5. \A d \in Conn \ {c} : next'[d] = next[d]
      BY <1>1, <2>1 DEF Took, RelayType
    <3> QED
      BY <1>1, <2>1, <2>2, <3>1, <3>4, <3>5, InStepLocal
  <2>4. CASE \E f \in Plain : Replied(c, f)
    BY <1>2, <2>1, <2>4 DEF Plain
  <2> QED
    BY <2>1, <2>3, <2>4
<1> QED
  BY <1>4, <1>5, <1>6, <1>7 DEF TakeRequest

(* and when a handler continues, *)
LEMMA ContinueInStep ==
    ASSUME RelayInv, AllInStep, NEW c \in Conn, Continue(c)
    PROVE  AllInStep'
<1>1. RelayType /\ InStep(c) /\ (Delivering(c) => HasInHand(c))
  BY DEF RelayInv, AllInStep
<1>2. ASSUME OthersStay(c), next' = next, handler[c].pc = "deliver",
             handler'[c].pc \in {"reply", "ack"},
             NEW f \in Plain, frames' = [frames EXCEPT ![c] = Append(@, f)]
      PROVE  AllInStep'
  <2>1. /\ frames'[c] = Append(frames[c], f)
        /\ \A d \in Conn \ {c} : frames'[d] = frames[d]
    BY <1>1, <1>2 DEF RelayType
  <2>2. /\ Cardinality(ReplyFrames(frames'[c])) =
              Cardinality(ReplyFrames(frames[c])) + 1
        /\ Cardinality(ReplyFrames(frames[c])) \in Nat /\ next[c] \in Nat
        /\ Behind(c) = 1
    BY <1>1, <1>2, <2>1, ReplyCount DEF RelayType, Plain, InStep
  <2>3. Behind(c)' = 0
    BY <1>2, <2>2 DEF Behind
  <2> QED
    BY <1>1, <1>2, <2>1, <2>3, InStepLocal DEF InStep
<1>3. ASSUME OthersStay(c), next' = next, frames' = frames,
             \/ handler'[c].pc = "done"
             \/ handler'[c].pc = "idle" /\ handler[c].pc \in {"reply", "ack"}
      PROVE  AllInStep'
  BY <1>1, <1>3, InStepLocal DEF InStep, Behind
<1>4. CASE Resume(c)
  BY <1>1, <1>3, <1>4, ResumeEffect
<1>5. CASE Disconnected(c)
  BY <1>1, <1>3, <1>5, DisconnectedEffect
<1>6. CASE AcknowledgeRaises(c)
  <2>1. HasInHand(c)
    BY <1>1, <1>6 DEF AcknowledgeRaises, Delivering
  <2> QED
    BY <1>1, <1>3, <1>6, <2>1, AcknowledgeRaisesEffect
<1>7. CASE DeliveryRaises(c)
  <2>1. HasInHand(c)
    BY <1>1, <1>7 DEF DeliveryRaises, Delivering
  <2>2. /\ OthersStay(c) /\ next' = next /\ handler[c].pc = "deliver"
        /\ \E f \in Plain : Replied(c, f)
    BY <1>1, <1>7, <2>1, DeliveryRaisesEffect
  <2> QED
    BY <1>2, <1>3, <2>2 DEF Replied
<1>8. CASE Acknowledge(c)
  BY <1>1, <1>2, <1>8, AcknowledgeEffect
<1> QED
  BY <1>4, <1>5, <1>6, <1>7, <1>8 DEF Continue

(* and so in every step. *)
LEMMA NextInStep == RelayInv /\ AllInStep /\ [Next]_vars => AllInStep'
<1> SUFFICES ASSUME RelayInv, AllInStep, [Next]_vars PROVE AllInStep'
  OBVIOUS
<1>1. ASSUME UNCHANGED <<next, handler, frames>> PROVE AllInStep'
  BY <1>1 DEF AllInStep, InStep, Behind
<1>2. ASSUME NEW c \in Conn, Connect(c) \/ Leave(c) \/ Notice(c) PROVE AllInStep'
  BY <1>1, <1>2, SocketEffect DEF RelayInv
<1>3. CASE UNCHANGED vars
  BY <1>1, <1>3 DEF vars
<1> QED
  BY <1>2, <1>3, TakeRequestInStep, ContinueInStep DEF Next

(* However requests, deliveries and closing connections are interleaved, a *)
(* handler has written one reply for each request it is through with.      *)
THEOREM RequestsAnsweredOnce == Spec => []OneReplyPerRequest
<1>1. Init => AllInStep
  <2>1. ReplyFrames(<< >>) = {}
    BY DEF ReplyFrames
  <2>2. Cardinality({}) = 0
    BY FS_EmptySet
  <2>3. SUFFICES ASSUME Init, NEW c \in Conn PROVE InStep(c)
    BY DEF AllInStep
  <2>4. frames[c] = << >> /\ next[c] = 1 /\ handler[c].pc = "idle"
    BY <2>3 DEF Init, NewHandler
  <2>5. Cardinality(ReplyFrames(frames[c])) = 0
    BY <2>1, <2>2, <2>4
  <2>6. Behind(c) = 0
    BY <2>4, <2>5 DEF Behind
  <2> QED
    BY <2>4, <2>6 DEF InStep
<1>2. AllInStep => OneReplyPerRequest
  BY DEF AllInStep, InStep, Behind, ReplyFrames, OneReplyPerRequest
<1> QED
  BY InitInv, NextInv, NextInStep, <1>1, <1>2, PTL DEF Spec

-----------------------------------------------------------------------------
(* Prekeys. *)

(* Registration no of connection c published bundle b. *)
SameUpload(b, d) == b.conn = d.conn /\ b.no = d.no

(* Bundles are kept under the name of the user who opened the connection   *)
(* they came on, and a prekey that was served is not in them.              *)
BundlesOwned ==
    \A u \in User : bundles[u] # None =>
        Owner[bundles[u].conn] = u /\ bundles[u].no < next[bundles[u].conn]

ServedBefore ==
    \A c \in Conn : \A i \in DOMAIN frames[c] : frames[c][i].type = "bundle" =>
        LET b == frames[c][i].bundle IN
        /\ b.no < next[b.conn]
        /\ \A u \in User : bundles[u] # None /\ SameUpload(bundles[u], b)
                               => b.opks \cap bundles[u].opks = {}

PrekeyInv == BundlesOwned /\ ServedBefore /\ PrekeysServedOnce

(* A frame of type bundle has a bundle. *)
LEMMA BundleFrames ==
    ASSUME NEW s \in Seq(Frame), NEW i \in DOMAIN s, s[i].type = "bundle"
    PROVE  s[i].bundle \in PublishedBundle
<1>1. s[i] \in Frame
  OBVIOUS
<1> QED
  BY <1>1 DEF Frame

(* Steps that leave the bundles alone and write none. *)
LEMMA PrekeysUntouched ==
    ASSUME RelayType, RelayType', PrekeyInv, bundles' = bundles,
           \A c \in Conn : next[c] <= next'[c],
           \A c \in Conn : \/ frames'[c] = frames[c]
                           \/ \E f \in Frame : /\ f.type # "bundle"
                                               /\ frames'[c] = Append(frames[c], f)
    PROVE  PrekeyInv'
<1>1. \A c \in Conn : \A i \in DOMAIN frames'[c] : frames'[c][i].type = "bundle" =>
         i \in DOMAIN frames[c] /\ frames'[c][i] = frames[c][i]
  <2>1. SUFFICES ASSUME NEW c \in Conn, NEW i \in DOMAIN frames'[c],
                        frames'[c][i].type = "bundle", frames'[c] # frames[c]
                 PROVE  i \in DOMAIN frames[c] /\ frames'[c][i] = frames[c][i]
    BY DEF RelayType
  <2>2. PICK f \in Frame : f.type # "bundle" /\ frames'[c] = Append(frames[c], f)
    BY <2>1
  <2> QED
    BY <2>1, <2>2, AppendProperties, LenProperties DEF RelayType
<1>2. BundlesOwned'
  BY DEF PrekeyInv, BundlesOwned, RelayType, PublishedBundle
<1>3. ServedBefore'
  <2>1. SUFFICES ASSUME NEW c \in Conn, NEW i \in DOMAIN frames'[c],
                        frames'[c][i].type = "bundle"
                 PROVE  LET b == frames'[c][i].bundle IN
                        /\ b.no < next'[b.conn]
                        /\ \A u \in User : bundles'[u] # None /\ SameUpload(bundles'[u], b)
                               => b.opks \cap bundles'[u].opks = {}
    BY DEF ServedBefore
  <2> DEFINE b == frames[c][i].bundle
  <2>2. i \in DOMAIN frames[c] /\ frames'[c][i] = frames[c][i]
    BY <1>1, <2>1
  <2>3. /\ b.no < next[b.conn]
        /\ \A u \in User : bundles[u] # None /\ SameUpload(bundles[u], b)
               => b.opks \cap bundles[u].opks = {}
    BY <2>1, <2>2 DEF PrekeyInv, ServedBefore
  <2>4. b \in PublishedBundle
    BY <2>1, <2>2, BundleFrames DEF RelayType
  <2>5. b.conn \in Conn /\ b.no \in Nat
    BY <2>4 DEF PublishedBundle
  <2>6. next[b.conn] \in Nat /\ next'[b.conn] \in Nat /\ next[b.conn] <= next'[b.conn]
    BY <2>5 DEF RelayType
  <2>7. b.no < next'[b.conn]
    BY <2>3, <2>5, <2>6
  <2> QED
    BY <2>2, <2>3, <2>7
<1>4. PrekeysServedOnce'
  BY <1>1 DEF PrekeyInv, PrekeysServedOnce
<1> QED
  BY <1>2, <1>3, <1>4 DEF PrekeyInv

(* A registration that publishes makes a new upload. *)
LEMMA RegisterPrekeys ==
    ASSUME RelayInv, PrekeyInv, NEW c \in Conn, Register(c)
    PROVE  PrekeyInv'
<1> DEFINE v == Owner[c]
           b == [conn |-> c, no |-> next[c], opks |-> 0 .. NumOpks - 1]
<1>1. /\ RelayType /\ RelayType' /\ QuietTake(c)
  BY RegisterEffect DEF RelayInv
<1>2. v \in User /\ b.conn = c /\ b.no = next[c]
  BY RelayAssumption
<1>3. bundles' = [bundles EXCEPT ![v] = b]
  BY DEF Register
<1>4. /\ bundles'[v] = b /\ \A u \in User \ {v} : bundles'[u] = bundles[u]
  BY <1>1, <1>2, <1>3 DEF RelayType
<1>5. /\ next'[c] = next[c] + 1 /\ next[c] \in Nat
      /\ \A d \in Conn \ {c} : next'[d] = next[d]
  BY <1>1 DEF QuietTake, Took, RelayType
<1>6. PICK f \in Frame : f.type # "bundle" /\ Replied(c, f)
  <2>1. Reply(c, Ok("registered"), v, [connections EXCEPT ![v] = c])
    BY DEF Register
  <2>2. Ok("registered") \in Frame /\ Ok("registered").type # "bundle"
    BY FrameFacts DEF Ok
  <2>3. [connections EXCEPT ![v] = c] \in [User -> Conn \cup {None}]
    BY <1>1, <1>2 DEF RelayType
  <2> QED
    BY <1>1, <1>2, <2>1, <2>2, <2>3, RepliedFacts
<1> HIDE DEF b, v
<1>7. \A d \in Conn : \A i \in DOMAIN frames'[d] : frames'[d][i].type = "bundle" =>
         i \in DOMAIN frames[d] /\ frames'[d][i] = frames[d][i]
  <2>1. SUFFICES ASSUME NEW d \in Conn, NEW i \in DOMAIN frames'[d],
                        frames'[d][i].type = "bundle", frames'[d] # frames[d]
                 PROVE  i \in DOMAIN frames[d] /\ frames'[d][i] = frames[d][i]
    BY <1>1 DEF RelayType
  <2>2. frames'[d] = Append(frames[d], f)
    BY <1>1, <1>6, <2>1 DEF Replied, RelayType
  <2> QED
    BY <1>1, <1>6, <2>1, <2>2, AppendProperties, LenProperties DEF RelayType
<1>8. BundlesOwned'
  <2>1. SUFFICES ASSUME NEW u \in User, bundles'[u] # None
                 PROVE  Owner[bundles'[u].conn] = u
                        /\ bundles'[u].no < next'[bundles'[u].conn]
    BY DEF BundlesOwned
  <2>2. CASE u = v
    BY <1>2, <1>4, <1>5, <2>2 DEF v
  <2>3. CASE u # v
    <3>1. bundles'[u] = bundles[u] /\ bundles[u] \in PublishedBundle
      BY <1>1, <1>4, <2>1, <2>3 DEF RelayType
    <3>2. /\ bundles[u].conn \in Conn /\ bundles[u].no \in Nat
          /\ Owner[bundles[u].conn] = u /\ bundles[u].no < next[bundles[u].conn]
      BY <2>1, <3>1 DEF PublishedBundle, PrekeyInv, BundlesOwned
    <3>3. /\ next[bundles[u].conn] \in Nat
          /\ next'[bundles[u].conn] = next[bundles[u].conn]
                \/ next'[bundles[u].conn] = next[bundles[u].conn] + 1
      BY <1>1, <1>5, <3>2 DEF RelayType
    <3>4. bundles[u].no < next'[bundles[u].conn]
      BY <3>2, <3>3
    <3> QED
      BY <3>1, <3>2, <3>4
  <2> QED
    BY <2>2, <2>3
<1>9. ServedBefore'
  <2>1. SUFFICES ASSUME NEW d \in Conn, NEW i \in DOMAIN frames'[d],
                        frames'[d][i].type = "bundle"
                 PROVE  LET x == frames'[d][i].bundle IN
                        /\ x.no < next'[x.conn]
                        /\ \A u \in User : bundles'[u] # None /\ SameUpload(bundles'[u], x)
                               => x.opks \cap bundles'[u].opks = {}
    BY DEF ServedBefore
  <2> DEFINE x == frames[d][i].bundle
  <2>2. i \in DOMAIN frames[d] /\ frames'[d][i] = frames[d][i]
    BY <1>7, <2>1
  <2>3. /\ x.no < next[x.conn]
        /\ \A u \in User : bundles[u] # None /\ SameUpload(bundles[u], x)
               => x.opks \cap bundles[u].opks = {}
    BY <2>1, <2>2 DEF PrekeyInv, ServedBefore
  <2>4. x \in PublishedBundle
    BY <1>1, <2>1, <2>2, BundleFrames DEF RelayType
  <2>5. x.conn \in Conn /\ x.no \in Nat /\ next[x.conn] \in Nat
    BY <1>1, <2>4 DEF PublishedBundle, RelayType
  <2> HIDE DEF x
  <2>6. x.no < next'[x.conn]
    BY <1>5, <2>3, <2>5
  <2>7. ~ SameUpload(bundles'[v], x)
    BY <1>2, <1>4, <2>3, <2>5 DEF SameUpload
  <2> QED
    BY <1>4, <2>2, <2>3, <2>6, <2>7 DEF x
<1>10. PrekeysServedOnce'
  BY <1>7 DEF PrekeyInv, PrekeysServedOnce
<1> QED
  BY <1>8, <1>9, <1>10 DEF PrekeyInv

(* A prekey that is served was in the bundle, and is not there any more.   *)
LEMMA GetBundlePrekeys ==
    ASSUME RelayInv, PrekeyInv, NEW c \in Conn, GetBundle(c)
    PROVE  PrekeyInv'
<1> DEFINE v == Named(c)
           b == [bundles[v] EXCEPT !.opks = First(@)]
           f == [type |-> "bundle", bundle |-> b]
<1>1. RelayType /\ RelayType' /\ QuietTake(c)
  BY GetBundleEffect DEF RelayInv
<1>2. /\ Takes(c, "get_bundle") /\ HasBundle(v)
      /\ bundles' = [bundles EXCEPT ![v].opks = Unserved(@)]
      /\ Reply(c, f, handler[c].user, connections)
  BY DEF GetBundle
<1>3. v \in User
  BY <1>1, <1>2, TakesFacts DEF HasBundle
<1>4. /\ bundles[v] \in PublishedBundle /\ bundles[v] # None
      /\ b \in PublishedBundle
      /\ b.conn = bundles[v].conn /\ b.no = bundles[v].no
      /\ b.opks = First(bundles[v].opks)
      /\ b.opks \subseteq bundles[v].opks
  BY <1>1, <1>2, <1>3, ServedFacts, FirstFacts DEF HasBundle, PublishedBundle
<1>5. /\ bundles'[v].conn = b.conn /\ bundles'[v].no = b.no
      /\ bundles'[v].opks = bundles[v].opks \ b.opks
      /\ \A u \in User \ {v} : bundles'[u] = bundles[u]
  BY <1>1, <1>2, <1>3, <1>4 DEF RelayType, Unserved, PublishedBundle
<1>6. \A d \in Conn : next[d] \in Nat /\ next'[d] \in Nat /\ next[d] <= next'[d]
  BY <1>1 DEF QuietTake, Took, RelayType
<1>7. Replied(c, f) /\ f.type = "bundle" /\ f.bundle = b
  <2>1. f \in Frame
    BY <1>4, FrameFacts
  <2>2. handler[c].user \in User \cup {None} /\ connections \in [User -> Conn \cup {None}]
    BY <1>1 DEF RelayType, Handler
  <2> HIDE DEF b
  <2> QED
    BY <1>1, <1>2, <2>1, <2>2, RepliedFacts
<1>8. \A u \in User : bundles[u] # None =>
         /\ bundles[u] \in PublishedBundle /\ bundles[u].conn \in Conn
         /\ bundles[u].no \in Nat
         /\ Owner[bundles[u].conn] = u /\ bundles[u].no < next[bundles[u].conn]
  BY <1>1 DEF PrekeyInv, BundlesOwned, RelayType, PublishedBundle
<1> HIDE DEF b, v, f
(* The frames that carry a bundle: the old ones, and b. *)
<1>9. \A d \in Conn : \A i \in DOMAIN frames'[d] : frames'[d][i].type = "bundle" =>
         \/ i \in DOMAIN frames[d] /\ frames'[d][i] = frames[d][i]
         \/ d = c /\ i = Len(frames[c]) + 1 /\ frames'[d][i].bundle = b
  <2>1. SUFFICES ASSUME NEW d \in Conn, NEW i \in DOMAIN frames'[d],
                        frames'[d] # frames[d]
                 PROVE  \/ i \in DOMAIN frames[d] /\ frames'[d][i] = frames[d][i]
                        \/ d = c /\ i = Len(frames[c]) + 1 /\ frames'[d][i].bundle = b
    BY <1>1 DEF RelayType
  <2>2. d = c /\ frames'[d] = Append(frames[d], f)
    BY <1>1, <1>7, <2>1 DEF Replied, RelayType
  <2> QED
    BY <1>1, <1>7, <2>1, <2>2, AppendProperties, LenProperties DEF RelayType
<1>10. BundlesOwned'
  BY <1>4, <1>5, <1>6, <1>8 DEF BundlesOwned
(* What was served before of an upload is not in b. *)
<1>11. \A d \in Conn : \A i \in DOMAIN frames[d] : frames[d][i].type = "bundle" =>
          /\ frames[d][i].bundle \in PublishedBundle
          /\ frames[d][i].bundle.no < next'[frames[d][i].bundle.conn]
          /\ SameUpload(bundles[v], frames[d][i].bundle) =>
                frames[d][i].bundle.opks \cap bundles[v].opks = {}
  <2>1. SUFFICES ASSUME NEW d \in Conn, NEW i \in DOMAIN frames[d],
                        frames[d][i].type = "bundle"
                 PROVE  LET x == frames[d][i].bundle IN
                        /\ x \in PublishedBundle /\ x.no < next'[x.conn]
                        /\ SameUpload(bundles[v], x) => x.opks \cap bundles[v].opks = {}
    OBVIOUS
  <2> DEFINE x == frames[d][i].bundle
  <2>2. /\ x.no < next[x.conn]
        /\ SameUpload(bundles[v], x) => x.opks \cap bundles[v].opks = {}
    BY <1>3, <1>4, <2>1 DEF PrekeyInv, ServedBefore
  <2>3. x \in PublishedBundle
    BY <1>1, <2>1, BundleFrames DEF RelayType
  <2>4. x.conn \in Conn /\ x.no \in Nat
    BY <2>3 DEF PublishedBundle
  <2> HIDE DEF x
  <2>5. x.no < next'[x.conn]
    BY <1>6, <2>2, <2>4
  <2> QED
    BY <2>2, <2>3, <2>5 DEF x
<1>12. ServedBefore'
  <2>1. SUFFICES ASSUME NEW d \in Conn, NEW i \in DOMAIN frames'[d],
                        frames'[d][i].type = "bundle"
                 PROVE  LET x == frames'[d][i].bundle IN
                        /\ x.no < next'[x.conn]
                        /\ \A u \in User : bundles'[u] # None /\ SameUpload(bundles'[u], x)
                               => x.opks \cap bundles'[u].opks = {}
    BY DEF ServedBefore
  <2> DEFINE x == frames'[d][i].bundle
  <2>2. CASE i \in DOMAIN frames[d] /\ frames'[d][i] = frames[d][i]
    <3>1. x.no < next'[x.conn]
      BY <1>11, <2>1, <2>2
    <3>2. \A u \in User \ {v} : bundles'[u] # None /\ SameUpload(bundles'[u], x)
               => x.opks \cap bundles'[u].opks = {}
      BY <1>5, <2>1, <2>2 DEF PrekeyInv, ServedBefore
    <3>3. SameUpload(bundles'[v], x) => x.opks \cap bundles'[v].opks = {}
      BY <1>4, <1>5, <1>11, <2>1, <2>2 DEF SameUpload
    <3> QED
      BY <3>1, <3>2, <3>3
  <2>3. CASE x = b
    <3>1. b.no < next'[b.conn]
      BY <1>3, <1>4, <1>6, <1>8
    <3>2. \A u \in User \ {v} : bundles'[u] # None => ~ SameUpload(bundles'[u], b)
      BY <1>3, <1>4, <1>5, <1>8 DEF SameUpload
    <3>3. b.opks \cap bundles'[v].opks = {}
      BY <1>5
    <3> QED
      BY <2>3, <3>1, <3>2, <3>3
  <2> QED
    BY <1>9, <2>1, <2>2, <2>3
<1>13. PrekeysServedOnce'
  <2>1. SUFFICES ASSUME NEW d \in Conn, NEW e \in Conn,
                        NEW i \in DOMAIN frames'[d], NEW j \in DOMAIN frames'[e],
                        frames'[d][i].type = "bundle", frames'[e][j].type = "bundle",
                        frames'[d][i].bundle.opks # {},
                        frames'[d][i].bundle = frames'[e][j].bundle
                 PROVE  <<d, i>> = <<e, j>>
    BY DEF PrekeysServedOnce
  <2> DEFINE Old(k, n) == n \in DOMAIN frames[k] /\ frames'[k][n] = frames[k][n]
             New(k, n) == k = c /\ n = Len(frames[c]) + 1 /\ frames'[k][n].bundle = b
  <2>2. (Old(d, i) \/ New(d, i)) /\ (Old(e, j) \/ New(e, j))
    BY <1>9, <2>1
  <2>3. \A k \in Conn : \A n \in DOMAIN frames[k] :
           frames[k][n].type = "bundle" /\ frames[k][n].bundle = b => b.opks = {}
    BY <1>4, <1>11 DEF SameUpload
  <2>4. CASE Old(d, i) /\ Old(e, j)
    BY <2>1, <2>4 DEF PrekeyInv, PrekeysServedOnce
  <2>5. CASE New(d, i) /\ New(e, j)
    BY <2>5
  <2>6. CASE \/ Old(d, i) /\ New(e, j)
             \/ New(d, i) /\ Old(e, j)
    BY <2>1, <2>3, <2>6
  <2> QED
    BY <2>2, <2>4, <2>5, <2>6
<1> QED
  BY <1>10, <1>12, <1>13 DEF PrekeyInv

(* No other request, and no await, touches the bundles. *)
LEMMA TakeRequestPrekeys ==
    ASSUME RelayInv, PrekeyInv, NEW c \in Conn, TakeRequest(c)
    PROVE  PrekeyInv'
<1>1. RelayType /\ RelayType'
  BY TakeRequestInv DEF RelayInv
<1>2. ASSUME Took(c), bundles' = bundles, NEW d \in Conn, NEW f \in Frame, f.type # "bundle",
             frames' = frames \/ frames' = [frames EXCEPT ![d] = Append(@, f)]
      PROVE  PrekeyInv'
  <2>1. \A e \in Conn : next[e] <= next'[e]
    BY <1>1, <1>2 DEF Took, RelayType
  <2>2. \A e \in Conn : frames'[e] = frames[e] \/ frames'[e] = Append(frames[e], f)
    BY <1>1, <1>2 DEF RelayType
  <2> QED
    BY <1>1, <1>2, <2>1, <2>2, PrekeysUntouched
<1>3. ASSUME NEW f \in Frame, f.type # "bundle", Took(c), Replied(c, f), bundles' = bundles
      PROVE  PrekeyInv'
  BY <1>2, <1>3 DEF Replied
<1>4. CASE \/ RegisterNobody(c) \/ Unknown(c) \/ GetNoBundle(c)
           \/ RefuseSend(c) \/ RefuseFetch(c)
  <2>1. PICK user \in User \cup {None} :
           Reply(c, Error, user, connections) /\ bundles' = bundles
    <3>1. handler[c].user \in User \cup {None}
      BY <1>1 DEF RelayType, Handler
    <3>2. CASE RegisterNobody(c)
      BY <3>2 DEF RegisterNobody
    <3>3. CASE Unknown(c) \/ GetNoBundle(c) \/ RefuseSend(c) \/ RefuseFetch(c)
      BY <3>1, <3>3 DEF Unknown, GetNoBundle, RefuseSend, RefuseFetch, ReplyError
    <3> QED
      BY <1>4, <3>2, <3>3
  <2>2. Took(c)
    BY <1>1, <1>4, RefusedEffect DEF QuietTake
  <2>3. Error \in Frame /\ Error.type # "bundle"
    BY FrameFacts DEF Error
  <2>4. connections \in [User -> Conn \cup {None}]
    BY <1>1 DEF RelayType
  <2>5. Replied(c, Error)
    BY <1>1, <2>1, <2>3, <2>4, RepliedFacts
  <2> QED
    BY <1>3, <2>1, <2>2, <2>3, <2>5
<1>5. CASE Fetch(c)
  <2> DEFINE f == [type |-> "messages", messages |-> queues[handler[c].user]]
  <2>1. Took(c) /\ Replied(c, f) /\ handler[c].user \in User /\ bundles' = bundles
    BY <1>1, <1>5, FetchEffect DEF Fetch
  <2>2. f \in Frame /\ f.type # "bundle"
    BY <1>1, <2>1, FrameFacts DEF RelayType
  <2> HIDE DEF f
  <2> QED
    BY <1>3, <2>1, <2>2
<1>6. CASE Send(c)
  <2> DEFINE e == SentEnvelope(c)
             r == connections[e.to]
             g == [type |-> "deliver", envelope |-> e]
  <2>1. /\ Took(c) /\ e \in Envelope /\ bundles' = bundles
        /\ \/ Reply(c, Ok("queued"), handler[c].user, connections)
           \/ r \in Conn /\ frames' = [frames EXCEPT ![r] = Append(@, g)]
    <3>1. /\ Took(c) /\ e \in Envelope /\ e.to \in User
      BY <1>1, <1>6, SendEffect, SentFacts
    <3>2. /\ bundles' = bundles
          /\ \/ Reply(c, Ok("queued"), handler[c].user, connections)
             \/ Works(r) /\ frames' = [frames EXCEPT ![r] = Append(@, g)]
      BY <1>6 DEF Send, SentEnvelope
    <3>3. Works(r) => r \in Conn
      BY <1>1, <3>1 DEF Works, RelayType
    <3> QED
      BY <3>1, <3>2, <3>3
  <2>2. /\ g \in Frame /\ g.type # "bundle"
        /\ Ok("queued") \in Frame /\ Ok("queued").type # "bundle"
    BY <2>1, FrameFacts DEF Ok
  <2>3. handler[c].user \in User \cup {None} /\ connections \in [User -> Conn \cup {None}]
    BY <1>1 DEF RelayType, Handler
  <2> HIDE DEF e, r, g
  <2>4. Reply(c, Ok("queued"), handler[c].user, connections) => Replied(c, Ok("queued"))
    BY <1>1, <2>2, <2>3, RepliedFacts
  <2> QED
    BY <1>2, <1>3, <2>1, <2>2, <2>4
<1> QED
  BY <1>4, <1>5, <1>6, RegisterPrekeys, GetBundlePrekeys DEF TakeRequest

(* A handler that continues serves no prekey. *)
LEMMA ContinuePrekeys ==
    ASSUME RelayInv, PrekeyInv, NEW c \in Conn, Continue(c)
    PROVE  PrekeyInv'
<1>1. RelayType /\ RelayType'
  BY ContinueInv DEF RelayInv
<1>2. ASSUME bundles' = bundles, next' = next, NEW f \in Frame, f.type # "bundle",
             frames' = frames \/ frames' = [frames EXCEPT ![c] = Append(@, f)]
      PROVE  PrekeyInv'
  <2>1. \A e \in Conn : next[e] <= next'[e]
    BY <1>1, <1>2 DEF RelayType
  <2>2. \A e \in Conn : frames'[e] = frames[e] \/ frames'[e] = Append(frames[e], f)
    BY <1>1, <1>2 DEF RelayType
  <2> QED
    BY <1>1, <1>2, <2>1, <2>2, PrekeysUntouched
<1>3. \A m \in {"registered", "delivered", "queued"} : Ok(m) \in Frame /\ Ok(m).type # "bundle"
  BY FrameFacts DEF Ok
<1>4. CASE Resume(c) \/ Disconnected(c) \/ AcknowledgeRaises(c)
  BY <1>2, <1>3, <1>4 DEF Resume, Disconnected, AcknowledgeRaises
<1>5. CASE Acknowledge(c)
  BY <1>2, <1>3, <1>5 DEF Acknowledge
<1>6. CASE DeliveryRaises(c)
  BY <1>2, <1>3, <1>6 DEF DeliveryRaises, Reply
<1> QED
  BY <1>4, <1>5, <1>6 DEF Continue

(* No step serves a prekey again. *)
LEMMA NextPrekeys == RelayInv /\ PrekeyInv /\ [Next]_vars => PrekeyInv'
<1> SUFFICES ASSUME RelayInv, PrekeyInv, [Next]_vars PROVE PrekeyInv'
  OBVIOUS
<1>1. RelayType /\ RelayType'
  BY NextInv DEF RelayInv
<1>2. ASSUME UNCHANGED <<bundles, next, frames>> PROVE PrekeyInv'
  BY <1>1, <1>2 DEF PrekeyInv, BundlesOwned, ServedBefore, PrekeysServedOnce
<1>3. ASSUME NEW c \in Conn, Connect(c) \/ Leave(c) \/ Notice(c) PROVE PrekeyInv'
  BY <1>1, <1>2, <1>3, SocketEffect
<1>4. CASE UNCHANGED vars
  BY <1>2, <1>4 DEF vars
<1> QED
  BY <1>3, <1>4, TakeRequestPrekeys, ContinuePrekeys DEF Next

(* No two clients are served the same prekey of an upload, however often   *)
(* the users register and whoever asks in between.                         *)
THEOREM PrekeysNotServedTwice == Spec => []PrekeysServedOnce
<1>1. Init => PrekeyInv
  BY DEF Init, PrekeyInv, BundlesOwned, ServedBefore, PrekeysServedOnce
<1>2. PrekeyInv => PrekeysServedOnce
  BY DEF PrekeyInv
<1> QED
  BY InitInv, NextInv, NextPrekeys, <1>1, <1>2, PTL DEF Spec

-----------------------------------------------------------------------------
(* Who a handler serves. *)

(* A handler serves nobody or the user who opened its connection, and a    *)
(* user's active connection is one that user opened.                       *)
Owned ==
    /\ \A c \in Conn : {handler[c].user, handler[c].then} \subseteq {None, Owner[c]}
    /\ \A u \in User : connections[u] # None => Owner[connections[u]] = u

(* Replies leave everything with its owner, if the tables do. *)
LEMMA ReplyOwned ==
    ASSUME RelayType, Owned, NEW c \in Conn, NEW f \in Frame,
           NEW user \in {None, Owner[c]},
           NEW conns \in [User -> Conn \cup {None}],
           \A u \in User : conns[u] # None => Owner[conns[u]] = u,
           Reply(c, f, user, conns)
    PROVE  Owned'
<1>1. user \in User \cup {None}
  BY RelayAssumption
<1>2. /\ \A d \in Conn \ {c} : handler'[d] = handler[d]
      /\ handler'[c].user = handler[c].user
      /\ handler'[c].then \in {user, handler[c].then}
      /\ \/ connections' = conns
         \/ connections' = Unregister(conns, c, handler[c].user)
  BY <1>1, ReplyFacts
<1>3. \A u \in User : connections'[u] # None => Owner[connections'[u]] = u
  BY <1>2 DEF Unregister
<1>4. ASSUME NEW d \in Conn
      PROVE  {handler'[d].user, handler'[d].then} \subseteq {None, Owner[d]}
  BY <1>2 DEF Owned
<1> QED
  BY <1>3, <1>4 DEF Owned

(* Taking a request leaves everything with its owner, *)
LEMMA TakeRequestOwned ==
    ASSUME RelayInv, Owned, NEW c \in Conn, TakeRequest(c)
    PROVE  Owned'
<1>1. /\ RelayType /\ Owner[c] \in User
      /\ handler[c].user \in {None, Owner[c]}
      /\ connections \in [User -> Conn \cup {None}]
      /\ \A u \in User : connections[u] # None => Owner[connections[u]] = u
  BY RelayAssumption DEF RelayInv, Owned, RelayType
<1>2. ASSUME NEW f \in Frame, NEW user \in {None, Owner[c]}, Reply(c, f, user, connections)
      PROVE  Owned'
  BY <1>1, <1>2, ReplyOwned
<1>3. Error \in Frame /\ \A m \in {"registered", "delivered", "queued"} : Ok(m) \in Frame
  BY FrameFacts
<1>4. CASE Register(c)
  <2> DEFINE conns == [connections EXCEPT ![Owner[c]] = c]
  <2>1. Reply(c, Ok("registered"), Owner[c], conns)
    BY <1>4 DEF Register
  <2>2. /\ conns \in [User -> Conn \cup {None}]
        /\ \A u \in User : conns[u] # None => Owner[conns[u]] = u
    BY <1>1
  <2> HIDE DEF conns
  <2> QED
    BY <1>1, <1>3, <2>1, <2>2, ReplyOwned
<1>5. CASE RegisterNobody(c)
  BY <1>2, <1>3, <1>5 DEF RegisterNobody
<1>6. CASE Unknown(c) \/ GetNoBundle(c) \/ RefuseSend(c) \/ RefuseFetch(c)
  BY <1>1, <1>2, <1>3, <1>6
     DEF Unknown, GetNoBundle, RefuseSend, RefuseFetch, ReplyError
<1>7. CASE GetBundle(c)
  <2> DEFINE f == [type   |-> "bundle",
                   bundle |-> [bundles[Named(c)] EXCEPT !.opks = First(@)]]
  <2>1. /\ Takes(c, "get_bundle") /\ HasBundle(Named(c))
        /\ Reply(c, f, handler[c].user, connections)
    BY <1>7 DEF GetBundle
  <2>2. f \in Frame
    BY <1>1, <2>1, TakesFacts, ServedFacts, FrameFacts DEF HasBundle
  <2> HIDE DEF f
  <2> QED
    BY <1>1, <1>2, <2>1, <2>2
<1>8. CASE Fetch(c)
  <2> DEFINE f == [type |-> "messages", messages |-> queues[handler[c].user]]
  <2>1. Reply(c, f, handler[c].user, connections)
    BY <1>8 DEF Fetch
  <2>2. f \in Frame
    BY <1>1, <1>8, FetchEffect, FrameFacts DEF RelayType
  <2> HIDE DEF f
  <2> QED
    BY <1>1, <1>2, <2>1, <2>2
<1>9. CASE Send(c)
  <2>1. CASE Reply(c, Ok("queued"), handler[c].user, connections)
    BY <1>1, <1>2, <1>3, <2>1
  <2>2. CASE /\ Works(connections[SentEnvelope(c).to])
             /\ LET e == SentEnvelope(c) IN
                handler' = [handler EXCEPT ![c] = [@ EXCEPT
                              !.pc = "deliver", !.envelope = e, !.rcpt = connections[e.to]]]
             /\ connections' = connections
    <3>1. /\ handler'[c].user = handler[c].user
          /\ handler'[c].then = handler[c].then
          /\ \A d \in Conn \ {c} : handler'[d] = handler[d]
      BY <1>1, <1>9, <2>2, DeliverFacts
    <3> QED
      BY <2>2, <3>1 DEF Owned
  <2> QED
    BY <1>9, <2>1, <2>2 DEF Send, SentEnvelope
<1> QED
  BY <1>4, <1>5, <1>6, <1>7, <1>8, <1>9 DEF TakeRequest

(* and so does what a handler does afterwards, *)
LEMMA ContinueOwned ==
    ASSUME RelayInv, Owned, NEW c \in Conn, Continue(c)
    PROVE  Owned'
<1>1. /\ RelayType /\ handler[c] \in Handler
      /\ handler[c].user \in {None, Owner[c]} /\ handler[c].then \in {None, Owner[c]}
      /\ connections \in [User -> Conn \cup {None}]
      /\ \A u \in User : connections[u] # None => Owner[connections[u]] = u
  BY DEF RelayInv, Owned, RelayType
<1>2. CASE Resume(c)
  <2> DEFINE user == IF handler[c].pc = "ack" THEN handler[c].user
                     ELSE handler[c].then
             h == [NewHandler EXCEPT !.user = user]
  <2>1. handler' = [handler EXCEPT ![c] = h] /\ connections' = connections
    BY <1>2 DEF Resume
  <2>2. user \in {None, Owner[c]}
    BY <1>1
  <2> HIDE DEF user
  <2>3. {h.user, h.then} \subseteq {None, Owner[c]}
    BY <2>2 DEF NewHandler
  <2> HIDE DEF h
  <2>4. handler'[c] = h /\ \A d \in Conn \ {c} : handler'[d] = handler[d]
    BY <1>1, <2>1 DEF RelayType
  <2>5. ASSUME NEW d \in Conn
        PROVE  {handler'[d].user, handler'[d].then} \subseteq {None, Owner[d]}
    BY <2>3, <2>4 DEF Owned
  <2> QED
    BY <1>1, <2>1, <2>5 DEF Owned
<1>3. CASE Disconnected(c) \/ AcknowledgeRaises(c)
  <2>1. /\ handler' = [handler EXCEPT ![c].pc = "done"]
        /\ connections' = Unregister(connections, c, handler[c].user)
    BY <1>3 DEF Disconnected, AcknowledgeRaises, Exit
  <2>2. \A d \in Conn : /\ handler'[d].user = handler[d].user
                        /\ handler'[d].then = handler[d].then
    BY <1>1, <2>1 DEF RelayType, Handler
  <2>3. \A u \in User : connections'[u] # None => Owner[connections'[u]] = u
    BY <1>1, <2>1 DEF Unregister
  <2> QED
    BY <2>2, <2>3 DEF Owned
<1>4. CASE DeliveryRaises(c)
  <2>1. Reply(c, Ok("queued"), handler[c].user, connections)
    BY <1>4 DEF DeliveryRaises
  <2> QED
    BY <1>1, <2>1, FrameFacts, ReplyOwned
<1>5. CASE Acknowledge(c)
  <2>1. handler' = [handler EXCEPT ![c].pc = "ack"] /\ connections' = connections
    BY <1>5 DEF Acknowledge
  <2>2. \A d \in Conn : /\ handler'[d].user = handler[d].user
                        /\ handler'[d].then = handler[d].then
    BY <1>1, <2>1 DEF RelayType, Handler
  <2> QED
    BY <2>1, <2>2 DEF Owned
<1> QED
  BY <1>2, <1>3, <1>4, <1>5 DEF Continue

(* and so every step. *)
LEMMA NextOwned == RelayInv /\ Owned /\ [Next]_vars => Owned'
<1> SUFFICES ASSUME RelayInv, Owned, [Next]_vars PROVE Owned'
  OBVIOUS
<1>1. ASSUME UNCHANGED <<handler, connections>> PROVE Owned'
  BY <1>1 DEF Owned
<1>2. ASSUME NEW c \in Conn, Connect(c) \/ Leave(c) \/ Notice(c) PROVE Owned'
  BY <1>1, <1>2, SocketEffect DEF RelayInv
<1>3. CASE UNCHANGED vars
  BY <1>1, <1>3 DEF vars
<1> QED
  BY <1>2, <1>3, TakeRequestOwned, ContinueOwned DEF Next

(* At the start nothing is owned. *)
LEMMA InitOwned == Init => Owned
<1> SUFFICES ASSUME Init PROVE Owned
  OBVIOUS
<1>1. \A c \in Conn : handler[c].user = None /\ handler[c].then = None
  BY DEF Init, NewHandler
<1> QED
  BY <1>1 DEF Init, Owned

-----------------------------------------------------------------------------
(* Envelopes. *)

(* The frames of s that carry e. *)
CarriersIn(s, e) == {i \in DOMAIN s : Carries(s[i], e)}

IsWritten(e) == \E d \in Conn : CarriersIn(frames[d], e) # {}

WrittenTwice(e) ==
    \E d, g \in Conn : \E i \in CarriersIn(frames[d], e), j \in CarriersIn(frames[g], e) :
        <<d, i>> # <<g, j>>

OnClosed(e) == \E d \in Conn : ws[d] = "closed" /\ CarriersIn(frames[d], e) # {}

(* A queue holds envelopes of its user, a frame carries envelopes of who   *)
(* reads it, and all of them were accepted.                                *)
InItsPlace ==
    /\ \A e \in accepted : e.no < next[e.conn]
    /\ \A u \in User : \A i \in DOMAIN queues[u] :
          queues[u][i] \in accepted /\ queues[u][i].to = u
    /\ \A e \in Envelope : \A d \in Conn : CarriersIn(frames[d], e) # {} =>
          e \in accepted /\ Owner[d] = e.to

(* The envelope a handler delivers is one its own client sent, and it is   *)
(* written to the connection the handler waits on.                         *)
HandWritten ==
    \A c \in Conn : Delivering(c) =>
        /\ handler[c].envelope \in accepted /\ handler[c].envelope.conn = c
        /\ CarriersIn(frames[handler[c].rcpt], handler[c].envelope) # {}

Located == InItsPlace /\ HandWritten

(* An envelope is where it can be had, or a fetch has lost this one. *)
Placed(e) == Queued(e) \/ IsWritten(e) \/ e \in lost

NoneLost == \A e \in accepted : Placed(e)

OnceWhileOpen ==
    \A e \in accepted : ((IsWritten(e) /\ Queued(e)) \/ WrittenTwice(e)) =>
        handler[e.conn].pc = "done" \/ OnClosed(e)

EnvelopeInv == Located /\ NoneLost /\ OnceWhileOpen

(* What a step of the relay does for envelopes that are located: it loses  *)
(* none that was not lost, and handles none twice, but for the reasons.    *)
PlacedStays == \A e \in accepted' : (e \in accepted => Placed(e)) => Placed(e)'

OnceStays == OnceWhileOpen => OnceWhileOpen'

KeepsEnvelopes == Located' /\ PlacedStays /\ OnceStays

(* A frame that is written carries an envelope, or not, in the last place. *)
LEMMA AppendCarriers ==
    ASSUME NEW s \in Seq(Frame), NEW f \in Frame, NEW e
    PROVE  /\ Carries(f, e) => CarriersIn(Append(s, f), e) = CarriersIn(s, e) \cup {Len(s) + 1}
           /\ ~ Carries(f, e) => CarriersIn(Append(s, f), e) = CarriersIn(s, e)
           /\ Len(s) + 1 \notin CarriersIn(s, e)
<1>1. /\ Len(s) \in Nat /\ DOMAIN s = 1 .. Len(s)
      /\ DOMAIN Append(s, f) = 1 .. (Len(s) + 1)
      /\ Append(s, f)[Len(s) + 1] = f
      /\ \A i \in 1 .. Len(s) : Append(s, f)[i] = s[i]
  BY AppendProperties, LenProperties
<1> DEFINE n == Len(s)
           t == Append(s, f)
           C(g) == Carries(g, e)
<1>2. 1 .. (n + 1) = (1 .. n) \cup {n + 1} /\ n + 1 \notin 1 .. n
  BY <1>1
<1>3. CarriersIn(s, e) = {i \in 1 .. n : C(s[i])}
  BY <1>1 DEF CarriersIn
<1>4. CarriersIn(t, e) = {i \in 1 .. (n + 1) : C(t[i])}
  BY <1>1 DEF CarriersIn
<1>5. t[n + 1] = f /\ \A i \in 1 .. n : t[i] = s[i]
  BY <1>1
<1> HIDE DEF n, t, C
<1>6. /\ C(f) => CarriersIn(t, e) = CarriersIn(s, e) \cup {n + 1}
      /\ ~ C(f) => CarriersIn(t, e) = CarriersIn(s, e)
      /\ n + 1 \notin CarriersIn(s, e)
  BY <1>2, <1>3, <1>4, <1>5
<1> QED
  BY <1>6 DEF n, t, C

(* What no step of the relay undoes. *)
Steady ==
    /\ script' = script
    /\ lost \subseteq lost'
    /\ \A d \in Conn : next[d] <= next'[d]
    /\ \A d \in Conn : ws[d] = "closed" => ws'[d] = "closed"
    /\ \A d \in Conn : handler[d].pc = "done" =>
          handler'[d].pc = "done" /\ next'[d] = next[d]

(* Nothing is written that carries an envelope. *)
WritesPlain ==
    \A d \in Conn : \/ frames'[d] = frames[d]
                    \/ \E f \in Plain : frames'[d] = Append(frames[d], f)

(* Taking a request undoes none of that. *)
LEMMA TookSteady ==
    ASSUME RelayType, RelayType', NEW c \in Conn, Took(c), OthersStay(c),
           lost \subseteq lost'
    PROVE  Steady
<1>1. /\ next'[c] = next[c] + 1 /\ \A d \in Conn \ {c} : next'[d] = next[d]
      /\ \A d \in Conn : next[d] \in Nat
  BY DEF Took, RelayType
<1>2. \A d \in Conn : next[d] <= next'[d]
  BY <1>1
<1> QED
  BY <1>1, <1>2 DEF Took, OthersStay, Steady

(* Plain frames carry no envelope. *)
LEMMA PlainCarriers ==
    ASSUME RelayType, WritesPlain, NEW d \in Conn, NEW e
    PROVE  CarriersIn(frames'[d], e) = CarriersIn(frames[d], e)
<1>1. CASE frames'[d] = frames[d]
  BY <1>1
<1>2. ASSUME NEW f \in Plain, frames'[d] = Append(frames[d], f)
      PROVE  CarriersIn(frames'[d], e) = CarriersIn(frames[d], e)
  <2>1. f \in Frame /\ ~ Carries(f, e)
    BY DEF Plain, Carries
  <2> QED
    BY <1>2, <2>1, AppendCarriers DEF RelayType
<1> QED
  BY <1>1, <1>2 DEF WritesPlain

(* A plain reply writes one plain frame. *)
LEMMA RepliedPlain ==
    ASSUME RelayType, NEW c \in Conn, NEW f \in Plain, Replied(c, f)
    PROVE  WritesPlain
BY DEF Replied, WritesPlain, RelayType

(* Steps that handle no envelope. *)
LEMMA QuietEnvelopes ==
    ASSUME RelayType, RelayType', Located, Steady, WritesPlain,
           UNCHANGED <<queues, accepted, lost>>,
           \A c \in Conn : Delivering(c)' =>
              /\ Delivering(c) /\ handler[c].rcpt \in Conn
              /\ handler'[c].envelope = handler[c].envelope
              /\ handler'[c].rcpt = handler[c].rcpt
    PROVE  KeepsEnvelopes
<1>1. \A d \in Conn : \A e : CarriersIn(frames'[d], e) = CarriersIn(frames[d], e)
  BY PlainCarriers
<1>2. \A e \in accepted : e \in Envelope /\ e.conn \in Conn /\ e.to \in User /\ e.no \in Nat
  BY DEF RelayType, Envelope
<1>3. InItsPlace'
  <2>1. \A e \in accepted : e.no < next'[e.conn]
    <3>1. SUFFICES ASSUME NEW e \in accepted PROVE e.no < next'[e.conn]
      OBVIOUS
    <3>2. /\ e.no \in Nat /\ next[e.conn] \in Nat /\ next'[e.conn] \in Nat
          /\ next[e.conn] <= next'[e.conn] /\ e.no < next[e.conn]
      BY <1>2 DEF RelayType, Steady, Located, InItsPlace
    <3> QED
      BY <3>2
  <2> QED
    BY <1>1, <2>1 DEF Located, InItsPlace
<1>4. HandWritten'
  BY <1>1 DEF Located, HandWritten
<1>5. PlacedStays
  <2>1. SUFFICES ASSUME NEW e \in accepted', e \in accepted => Placed(e)
                 PROVE  Queued(e)' \/ IsWritten(e)' \/ e \in lost'
    BY DEF PlacedStays, Placed
  <2>2. CASE Queued(e)
    BY <2>2 DEF Queued
  <2>3. CASE IsWritten(e)
    BY <1>1, <2>3 DEF IsWritten
  <2>4. CASE e \in lost
    BY <2>4 DEF Steady
  <2> QED
    BY <2>1, <2>2, <2>3, <2>4 DEF Placed
<1>6. OnceStays
  <2>1. SUFFICES ASSUME OnceWhileOpen, NEW e \in accepted,
                        (IsWritten(e)' /\ Queued(e)') \/ WrittenTwice(e)'
                 PROVE  handler'[e.conn].pc = "done" \/ OnClosed(e)'
    BY DEF OnceStays, OnceWhileOpen
  <2>2. (IsWritten(e) /\ Queued(e)) \/ WrittenTwice(e)
    BY <1>1, <2>1 DEF IsWritten, Queued, WrittenTwice
  <2>3. handler[e.conn].pc = "done" \/ OnClosed(e)
    BY <2>1, <2>2 DEF OnceWhileOpen
  <2> QED
    BY <1>1, <1>2, <2>3 DEF Steady, OnClosed
<1> QED
  BY <1>3, <1>4, <1>5, <1>6 DEF KeepsEnvelopes, Located

(* What excuses an envelope that is handled twice is not taken back. *)
LEMMA ExcuseStays ==
    ASSUME Steady, NEW e \in Envelope,
           \A d \in Conn : CarriersIn(frames[d], e) \subseteq CarriersIn(frames'[d], e),
           handler[e.conn].pc = "done" \/ OnClosed(e)
    PROVE  handler'[e.conn].pc = "done" \/ OnClosed(e)'
<1>1. e.conn \in Conn
  BY DEF Envelope
<1> QED
  BY <1>1 DEF Steady, OnClosed

(* Numbers of requests are only counted up. *)
LEMMA NumbersStay ==
    ASSUME RelayType, RelayType', Steady, Located, NEW e \in accepted
    PROVE  e \in Envelope /\ e.no < next'[e.conn]
<1>1. e \in Envelope /\ e.conn \in Conn /\ e.no \in Nat
  BY DEF RelayType, Envelope
<1>2. /\ next[e.conn] \in Nat /\ next'[e.conn] \in Nat
      /\ next[e.conn] <= next'[e.conn] /\ e.no < next[e.conn]
  BY <1>1 DEF RelayType, Steady, Located, InItsPlace
<1> QED
  BY <1>1, <1>2

(* A fetch: what was in the queue is in the frame, or the handler ended.   *)
LEMMA FetchEnvelopes ==
    ASSUME RelayInv, Owned, Located, NEW c \in Conn, Fetch(c)
    PROVE  KeepsEnvelopes
<1> DEFINE u == handler[c].user
           f == [type |-> "messages", messages |-> queues[u]]
           n == Len(frames[c]) + 1
           InQueue(e) == \E i \in DOMAIN queues[u] : queues[u][i] = e
<1>1. /\ RelayType /\ RelayType' /\ OthersStay(c) /\ Took(c)
      /\ script[c][next[c]].type = "fetch"
      /\ u \in User /\ accepted' = accepted
      /\ queues' = [queues EXCEPT ![u] = << >>]
      /\ lost' = IF ws[c] = "closed" THEN lost \cup Range(queues[u]) ELSE lost
      /\ Replied(c, f)
  BY FetchEffect DEF RelayInv
<1>2. u = Owner[c]
  BY <1>1, RelayAssumption DEF Owned
<1>3. Steady
  BY <1>1, TookSteady
<1>4. f \in Frame /\ \A e : Carries(f, e) <=> InQueue(e)
  BY <1>1, FrameFacts DEF RelayType, Carries
<1>5. /\ queues'[u] = << >> /\ \A v \in User \ {u} : queues'[v] = queues[v]
  BY <1>1 DEF RelayType
<1>6. \A e \in Envelope : InQueue(e) => e \in accepted /\ e.to = u
  BY <1>1 DEF Located, InItsPlace
<1>7. \A e \in Envelope : e.to \in User /\ (e.to = u => (Queued(e) <=> InQueue(e)))
  BY DEF Queued, Envelope
<1>8. \A e : InQueue(e) => e \in Range(queues[u])
  BY DEF Range
<1>9. \A d \in Conn \ {c} : frames'[d] = frames[d]
  BY <1>1 DEF Replied, RelayType
<1>10. \/ /\ frames'[c] = Append(frames[c], f) /\ handler'[c].pc = "reply"
       \/ /\ frames' = frames /\ handler'[c].pc = "done" /\ ws[c] = "closed"
  BY <1>1 DEF Replied, RelayType
<1> HIDE DEF u, f, InQueue, n
(* Where envelopes are carried after the step. *)
<1>11. ASSUME NEW e
       PROVE  /\ \A d \in Conn \ {c} : CarriersIn(frames'[d], e) = CarriersIn(frames[d], e)
              /\ \/ CarriersIn(frames'[c], e) = CarriersIn(frames[c], e)
                 \/ /\ CarriersIn(frames'[c], e) = CarriersIn(frames[c], e) \cup {n}
                    /\ InQueue(e)
              /\ handler'[c].pc = "reply" /\ InQueue(e) =>
                    CarriersIn(frames'[c], e) = CarriersIn(frames[c], e) \cup {n}
  <2>1. CASE frames'[c] = Append(frames[c], f)
    BY <1>1, <1>4, <1>9, <2>1, AppendCarriers DEF RelayType, n
  <2>2. CASE frames' = frames /\ handler'[c].pc = "done"
    BY <1>9, <2>2
  <2> QED
    BY <1>10, <2>1, <2>2
<1>12. \A e : \A d \in Conn : CarriersIn(frames[d], e) \subseteq CarriersIn(frames'[d], e)
  BY <1>11
<1>13. InItsPlace'
  <2>1. \A e \in accepted' : e.no < next'[e.conn]
    BY <1>1, <1>3, NumbersStay
  <2>2. \A v \in User : \A i \in DOMAIN queues'[v] :
           queues'[v][i] \in accepted' /\ queues'[v][i].to = v
    BY <1>1, <1>5 DEF Located, InItsPlace
  <2>3. \A e \in Envelope : \A d \in Conn : CarriersIn(frames'[d], e) # {} =>
           e \in accepted' /\ Owner[d] = e.to
    BY <1>1, <1>2, <1>6, <1>11 DEF Located, InItsPlace
  <2> QED
    BY <2>1, <2>2, <2>3 DEF InItsPlace
<1>14. HandWritten'
  <2>1. SUFFICES ASSUME NEW d \in Conn, Delivering(d)'
                 PROVE  /\ handler'[d].envelope \in accepted' /\ handler'[d].envelope.conn = d
                        /\ CarriersIn(frames'[handler'[d].rcpt], handler'[d].envelope) # {}
    BY DEF HandWritten
  <2>2. d # c /\ handler'[d] = handler[d] /\ Delivering(d)
    BY <1>1, <1>10, <2>1 DEF OthersStay, Delivering
  <2>3. handler[d].rcpt \in Conn
    BY <2>2 DEF RelayInv, HasInHand
  <2> QED
    BY <1>1, <1>12, <2>2, <2>3 DEF Located, HandWritten
<1>15. PlacedStays
  <2>1. SUFFICES ASSUME NEW e \in accepted', e \in accepted => Placed(e)
                 PROVE  Queued(e)' \/ IsWritten(e)' \/ e \in lost'
    BY <1>1 DEF PlacedStays, Placed
  <2>2. e \in Envelope /\ e.to \in User
    BY <1>1, <1>7 DEF RelayType
  <2>3. CASE Queued(e) /\ e.to # u
    BY <1>5, <2>2, <2>3 DEF Queued
  <2>4. CASE Queued(e) /\ e.to = u /\ handler'[c].pc = "reply"
    <3>1. CarriersIn(frames'[c], e) # {}
      BY <1>7, <1>11, <2>2, <2>4
    <3> QED
      BY <3>1 DEF IsWritten
  <2>5. CASE Queued(e) /\ e.to = u /\ handler'[c].pc = "done"
    <3>1. ws[c] = "closed"
      BY <1>10, <2>5
    <3> QED
      BY <1>1, <1>7, <1>8, <2>2, <2>5, <3>1
  <2>6. CASE IsWritten(e)
    BY <1>12, <2>6 DEF IsWritten
  <2>7. CASE e \in lost
    BY <1>3, <2>7 DEF Steady
  <2> QED
    BY <1>1, <1>10, <2>1, <2>3, <2>4, <2>5, <2>6, <2>7 DEF Placed
<1>16. OnceStays
  <2>1. SUFFICES ASSUME OnceWhileOpen, NEW e \in accepted,
                        (IsWritten(e)' /\ Queued(e)') \/ WrittenTwice(e)'
                 PROVE  handler'[e.conn].pc = "done" \/ OnClosed(e)'
    BY <1>1 DEF OnceStays, OnceWhileOpen
  <2>2. e \in Envelope /\ e.to \in User
    BY <1>1, <1>7 DEF RelayType
  <2>3. SUFFICES (IsWritten(e) /\ Queued(e)) \/ WrittenTwice(e)
    BY <1>3, <1>12, <2>1, <2>2, ExcuseStays DEF OnceWhileOpen
  <2>4. Queued(e)' => Queued(e) /\ e.to # u
    BY <1>5, <2>2 DEF Queued
  <2>5. CASE InQueue(e)
    <3>1. Queued(e) /\ ~ Queued(e)'
      BY <1>6, <1>7, <2>2, <2>4, <2>5
    <3>2. CASE IsWritten(e)
      BY <3>1, <3>2
    <3>3. CASE ~ IsWritten(e)
      <4>1. \A d \in Conn : CarriersIn(frames'[d], e) \subseteq (IF d = c THEN {n} ELSE {})
        BY <1>11, <3>3 DEF IsWritten
      <4>2. ~ WrittenTwice(e)'
        BY <4>1 DEF WrittenTwice
      <4> QED
        BY <2>1, <3>1, <4>2
    <3> QED
      BY <3>2, <3>3
  <2>6. CASE ~ InQueue(e)
    <3>1. \A d \in Conn : CarriersIn(frames'[d], e) = CarriersIn(frames[d], e)
      BY <1>11, <2>6
    <3> QED
      BY <2>1, <2>4, <3>1 DEF IsWritten, WrittenTwice
  <2> QED
    BY <2>5, <2>6
<1> QED
  BY <1>13, <1>14, <1>15, <1>16 DEF KeepsEnvelopes, Located

(* What is queued after one more envelope is. *)
LEMMA QueuedFacts ==
    ASSUME RelayType, NEW n \in Envelope, Enqueue(n), NEW e \in Envelope
    PROVE  Queued(e)' <=> Queued(e) \/ e = n
<1>1. /\ queues'[n.to] = Append(queues[n.to], n)
      /\ \A u \in User \ {n.to} : queues'[u] = queues[u]
      /\ n.to \in User /\ e.to \in User
  BY EnqueueFacts DEF Envelope
<1>2. /\ queues[n.to] \in Seq(Envelope)
      /\ DOMAIN Append(queues[n.to], n) = DOMAIN queues[n.to] \cup {Len(queues[n.to]) + 1}
      /\ Append(queues[n.to], n)[Len(queues[n.to]) + 1] = n
      /\ \A i \in DOMAIN queues[n.to] : Append(queues[n.to], n)[i] = queues[n.to][i]
  BY <1>1, AppendProperties, LenProperties DEF RelayType
<1>3. CASE e.to = n.to
  BY <1>1, <1>2, <1>3 DEF Queued
<1>4. CASE e.to # n.to
  BY <1>1, <1>4 DEF Queued
<1> QED
  BY <1>3, <1>4

(* Queues stay in their place. *)
LEMMA QueuePlaces ==
    ASSUME RelayType, NEW n \in Envelope, Enqueue(n), n \in accepted',
           InItsPlace, accepted \subseteq accepted'
    PROVE  \A u \in User : \A i \in DOMAIN queues'[u] :
              queues'[u][i] \in accepted' /\ queues'[u][i].to = u
<1>1. /\ queues'[n.to] = Append(queues[n.to], n)
      /\ \A u \in User \ {n.to} : queues'[u] = queues[u]
      /\ n.to \in User
  BY EnqueueFacts DEF Envelope
<1>2. /\ queues[n.to] \in Seq(Envelope)
      /\ DOMAIN Append(queues[n.to], n) = DOMAIN queues[n.to] \cup {Len(queues[n.to]) + 1}
      /\ Append(queues[n.to], n)[Len(queues[n.to]) + 1] = n
      /\ \A i \in DOMAIN queues[n.to] : Append(queues[n.to], n)[i] = queues[n.to][i]
  BY <1>1, AppendProperties, LenProperties DEF RelayType
<1>3. \A u \in User : \A i \in DOMAIN queues[u] :
         queues[u][i] \in accepted' /\ queues[u][i].to = u
  BY DEF InItsPlace
<1> HIDE DEF InItsPlace
<1> QED
  BY <1>1, <1>2, <1>3

(* A send: its envelope is a new one, that is nowhere yet. *)
LEMMA SendEnvelopes ==
    ASSUME RelayInv, Owned, Located, NEW c \in Conn, Send(c)
    PROVE  KeepsEnvelopes
<1>0. PICK n \in Envelope : n = SentEnvelope(c)
  BY SentFacts DEF RelayInv
<1> DEFINE r == connections[n.to]
           g == [type |-> "deliver", envelope |-> n]
<1>1. /\ RelayType /\ RelayType' /\ OthersStay(c) /\ Took(c)
      /\ n \in Envelope /\ accepted' = accepted \cup {n} /\ lost' = lost
      /\ \/ /\ r \in Conn /\ UNCHANGED queues
            /\ frames' = [frames EXCEPT ![r] = Append(@, g)]
            /\ handler'[c].pc = "deliver"
            /\ handler'[c].envelope = n /\ handler'[c].rcpt = r
         \/ /\ Enqueue(n)
            /\ \E f \in Plain : Replied(c, f)
  BY <1>0, SendEffect DEF RelayInv
<1>2. Steady
  BY <1>1, TookSteady
<1>3. /\ n.conn = c /\ n.no = next[c] /\ next'[c] = next[c] + 1 /\ next[c] \in Nat
      /\ n.to \in User
  BY <1>0, <1>1, SentFacts DEF RelayInv, SentEnvelope, Took, RelayType
<1>4. n \notin accepted
  BY <1>3 DEF Located, InItsPlace
<1>5. /\ \A d \in Conn : CarriersIn(frames[d], n) = {}
      /\ ~ Queued(n)
  BY <1>1, <1>3, <1>4 DEF Located, InItsPlace, Queued
<1>6. r \in Conn => Owner[r] = n.to
  BY <1>3, RelayAssumption DEF Owned
<1>7. g \in Frame /\ \A e : Carries(g, e) <=> e = n
  BY <1>1, FrameFacts DEF Carries
<1> HIDE DEF r, g
<1>8. \A e \in accepted : e \in Envelope /\ e # n /\ e.conn \in Conn /\ e.to \in User
  BY <1>1, <1>4 DEF RelayType, Envelope
(* Other envelopes are where they were. *)
<1>9. ASSUME NEW e, e # n, NEW d \in Conn
      PROVE  CarriersIn(frames'[d], e) = CarriersIn(frames[d], e)
  <2>1. CASE r \in Conn /\ frames' = [frames EXCEPT ![r] = Append(@, g)]
    <3>1. frames'[d] = frames[d] \/ frames'[d] = Append(frames[d], g)
      BY <1>1, <2>1 DEF RelayType
    <3> QED
      BY <1>1, <1>7, <1>9, <3>1, AppendCarriers DEF RelayType
  <2>2. CASE \E f \in Plain : Replied(c, f)
    BY <1>1, <2>2, RepliedPlain, PlainCarriers
  <2> QED
    BY <1>1, <2>1, <2>2
<1>10. ASSUME NEW e \in Envelope, e # n PROVE Queued(e)' <=> Queued(e)
  BY <1>1, <1>10, QueuedFacts DEF Queued
(* The new one is written to its addressee, or queued. *)
<1>11. \/ /\ r \in Conn /\ ~ Queued(n)'
          /\ CarriersIn(frames'[r], n) = {Len(frames[r]) + 1}
          /\ \A d \in Conn \ {r} : CarriersIn(frames'[d], n) = {}
          /\ handler'[c].envelope = n /\ handler'[c].rcpt = r
       \/ /\ Queued(n)' /\ handler'[c].pc \in {"reply", "done"}
          /\ \A d \in Conn : CarriersIn(frames'[d], n) = {}
  <2>1. CASE /\ r \in Conn /\ UNCHANGED queues
             /\ frames' = [frames EXCEPT ![r] = Append(@, g)]
             /\ handler'[c].envelope = n /\ handler'[c].rcpt = r
    <3>1. ~ Queued(n)'
      BY <1>5, <2>1 DEF Queued
    <3>2. /\ frames'[r] = Append(frames[r], g)
          /\ \A d \in Conn \ {r} : frames'[d] = frames[d]
      BY <1>1, <2>1 DEF RelayType
    <3>3. CarriersIn(frames'[r], n) = {Len(frames[r]) + 1}
      <4>1. frames[r] \in Seq(Frame) /\ g \in Frame /\ Carries(g, n)
        BY <1>1, <1>7, <2>1 DEF RelayType
      <4>2. CarriersIn(Append(frames[r], g), n) =
               CarriersIn(frames[r], n) \cup {Len(frames[r]) + 1}
        BY <4>1, AppendCarriers
      <4> QED
        BY <1>5, <2>1, <3>2, <4>2
    <3> QED
      BY <1>5, <2>1, <3>1, <3>2, <3>3
  <2>2. CASE Enqueue(n) /\ \E f \in Plain : Replied(c, f)
    <3>1. Queued(n)'
      BY <1>1, <2>2, QueuedFacts
    <3>2. \A d \in Conn : CarriersIn(frames'[d], n) = {}
      BY <1>1, <1>5, <2>2, RepliedPlain, PlainCarriers
    <3>3. handler'[c].pc \in {"reply", "done"}
      BY <2>2 DEF Replied
    <3> QED
      BY <3>1, <3>2, <3>3
  <2> QED
    BY <1>1, <2>1, <2>2
<1>12. InItsPlace'
  <2>1. \A e \in accepted' : e.no < next'[e.conn]
    BY <1>1, <1>2, <1>3, NumbersStay
  <2>2. \A u \in User : \A i \in DOMAIN queues'[u] :
           queues'[u][i] \in accepted' /\ queues'[u][i].to = u
    <3>1. InItsPlace
      BY DEF KeepsEnvelopes, Located
    <3>2. CASE UNCHANGED queues
      BY <1>1, <3>1, <3>2 DEF InItsPlace
    <3>3. CASE Enqueue(n)
      BY <1>1, <3>1, <3>3, QueuePlaces
    <3> QED
      BY <1>1, <3>2, <3>3
  <2>3. ASSUME NEW e \in Envelope, NEW d \in Conn, CarriersIn(frames'[d], e) # {}
        PROVE  e \in accepted' /\ Owner[d] = e.to
    <3>1. CASE e = n
      BY <1>1, <1>6, <1>11, <2>3, <3>1
    <3>2. CASE e # n
      BY <1>1, <1>9, <2>3, <3>2 DEF Located, InItsPlace
    <3> QED
      BY <3>1, <3>2
  <2> QED
    BY <2>1, <2>2, <2>3 DEF InItsPlace
<1>13. HandWritten'
  <2>1. SUFFICES ASSUME NEW d \in Conn, Delivering(d)'
                 PROVE  /\ handler'[d].envelope \in accepted' /\ handler'[d].envelope.conn = d
                        /\ CarriersIn(frames'[handler'[d].rcpt], handler'[d].envelope) # {}
    BY DEF HandWritten
  <2>2. CASE d = c
    BY <1>1, <1>3, <1>11, <2>1, <2>2 DEF Delivering
  <2>3. CASE d # c
    <3>1. handler'[d] = handler[d] /\ Delivering(d) /\ handler[d].rcpt \in Conn
      BY <1>1, <2>1, <2>3 DEF OthersStay, Delivering, RelayInv, HasInHand
    <3>2. /\ handler[d].envelope \in accepted /\ handler[d].envelope.conn = d
          /\ CarriersIn(frames[handler[d].rcpt], handler[d].envelope) # {}
      BY <3>1 DEF Located, HandWritten
    <3> QED
      BY <1>1, <1>8, <1>9, <3>1, <3>2
  <2> QED
    BY <2>2, <2>3
<1>14. PlacedStays
  <2>1. SUFFICES ASSUME NEW e \in accepted', e \in accepted => Placed(e)
                 PROVE  Queued(e)' \/ IsWritten(e)' \/ e \in lost'
    BY DEF PlacedStays, Placed
  <2>2. CASE e = n
    BY <1>11, <2>2 DEF IsWritten
  <2>3. CASE e \in accepted
    <3>1. e # n /\ e \in Envelope /\ e.to \in User
      BY <1>8, <2>3
    <3>2. Queued(e) => Queued(e)'
      BY <1>10, <3>1
    <3>3. IsWritten(e) => IsWritten(e)'
      BY <1>9, <3>1 DEF IsWritten
    <3> QED
      BY <1>1, <2>1, <2>3, <3>2, <3>3 DEF Placed
  <2> QED
    BY <1>1, <2>2, <2>3
<1>15. OnceStays
  <2>1. SUFFICES ASSUME OnceWhileOpen, NEW e \in accepted',
                        (IsWritten(e)' /\ Queued(e)') \/ WrittenTwice(e)'
                 PROVE  handler'[e.conn].pc = "done" \/ OnClosed(e)'
    BY DEF OnceStays, OnceWhileOpen
  <2>2. CASE e = n
    <3>1. ~ (IsWritten(n)' /\ Queued(n)')
      BY <1>11 DEF IsWritten
    <3>2. \A d, k \in Conn : \A i \in CarriersIn(frames'[d], n),
                                j \in CarriersIn(frames'[k], n) : <<d, i>> = <<k, j>>
      <4>1. CASE /\ CarriersIn(frames'[r], n) = {Len(frames[r]) + 1}
                 /\ \A d \in Conn \ {r} : CarriersIn(frames'[d], n) = {}
        <5>1. \A d \in Conn : \A i \in CarriersIn(frames'[d], n) :
                 d = r /\ i = Len(frames[r]) + 1
          BY <4>1
        <5> QED
          BY <5>1
      <4>2. CASE \A d \in Conn : CarriersIn(frames'[d], n) = {}
        BY <4>2
      <4> QED
        BY <1>11, <4>1, <4>2
    <3>3. ~ WrittenTwice(n)'
      BY <3>2 DEF WrittenTwice
    <3> QED
      BY <2>1, <2>2, <3>1, <3>3
  <2>3. CASE e \in accepted
    <3>1. e # n /\ e \in Envelope
      BY <1>8, <2>3
    <3>2. \A d \in Conn : CarriersIn(frames'[d], e) = CarriersIn(frames[d], e)
      BY <1>9, <3>1
    <3>3. (IsWritten(e) /\ Queued(e)) \/ WrittenTwice(e)
      BY <1>10, <2>1, <3>1, <3>2 DEF IsWritten, WrittenTwice
    <3> QED
      BY <1>2, <2>1, <2>3, <3>1, <3>2, <3>3, ExcuseStays DEF OnceWhileOpen
  <2> QED
    BY <1>1, <2>2, <2>3
<1> QED
  BY <1>12, <1>13, <1>14, <1>15 DEF KeepsEnvelopes, Located

(* An envelope that was written is queued all the same: the connection it  *)
(* was written to is closed, or the handler of its sender ends.            *)
LEMMA RequeueEnvelopes ==
    ASSUME RelayType, RelayType', Located, Steady, WritesPlain,
           NEW c \in Conn, OthersStay(c), Delivering(c), HasInHand(c),
           \A d \in Conn : Delivering(d) => HasInHand(d),
           Enqueue(handler[c].envelope), accepted' = accepted,
           handler'[c].pc \in {"reply", "done"},
           handler'[c].pc = "done" \/ ws[handler[c].rcpt] = "closed"
    PROVE  KeepsEnvelopes
<1>1. PICK n \in Envelope, r \in Conn : n = handler[c].envelope /\ r = handler[c].rcpt
  BY DEF HasInHand
<1>2. /\ n \in accepted /\ n.conn = c /\ Enqueue(n) /\ CarriersIn(frames[r], n) # {}
  BY <1>1 DEF Located, HandWritten
<1>3. \A e : \A d \in Conn : CarriersIn(frames'[d], e) = CarriersIn(frames[d], e)
  BY PlainCarriers
<1>4. \A e \in accepted :
         e \in Envelope /\ e.to \in User /\ (Queued(e)' <=> Queued(e) \/ e = n)
  BY <1>2, QueuedFacts DEF RelayType, Envelope
<1>5. InItsPlace'
  <2>1. \A e \in accepted' : e.no < next'[e.conn]
    BY NumbersStay
  <2>2. \A u \in User : \A i \in DOMAIN queues'[u] :
           queues'[u][i] \in accepted' /\ queues'[u][i].to = u
    BY <1>2, QueuePlaces DEF KeepsEnvelopes, Located
  <2> QED
    BY <1>3, <2>1, <2>2 DEF Located, InItsPlace
<1>6. HandWritten'
  <2>1. SUFFICES ASSUME NEW d \in Conn, Delivering(d)'
                 PROVE  /\ handler'[d].envelope \in accepted' /\ handler'[d].envelope.conn = d
                        /\ CarriersIn(frames'[handler'[d].rcpt], handler'[d].envelope) # {}
    BY DEF HandWritten
  <2>2. /\ handler'[d] = handler[d] /\ Delivering(d) /\ handler[d].rcpt \in Conn
    BY <2>1 DEF OthersStay, Delivering, HasInHand
  <2> QED
    BY <1>3, <2>2 DEF Located, HandWritten
<1>7. PlacedStays
  <2>1. ASSUME NEW e \in accepted
        PROVE  /\ IsWritten(e) => IsWritten(e)'
               /\ e \in lost => e \in lost'
    BY <1>3, <1>4 DEF IsWritten, Steady
  <2> QED
    BY <1>4, <2>1 DEF Placed, PlacedStays
<1>8. OnceStays
  <2>1. SUFFICES ASSUME OnceWhileOpen, NEW e \in accepted,
                        (IsWritten(e)' /\ Queued(e)') \/ WrittenTwice(e)'
                 PROVE  handler'[e.conn].pc = "done" \/ OnClosed(e)'
    BY DEF OnceStays, OnceWhileOpen
  <2>2. CASE e = n
    BY <1>1, <1>2, <1>3, <2>2 DEF Steady, OnClosed
  <2>3. CASE e # n
    <3>1. (IsWritten(e) /\ Queued(e)) \/ WrittenTwice(e)
      BY <1>3, <1>4, <2>1, <2>3 DEF IsWritten, WrittenTwice
    <3> QED
      BY <1>3, <1>4, <2>1, <3>1, ExcuseStays DEF OnceWhileOpen
  <2> QED
    BY <2>2, <2>3
<1> QED
  BY <1>5, <1>6, <1>7, <1>8 DEF KeepsEnvelopes, Located

(* Taking a request leaves every envelope in its place, *)
LEMMA TakeRequestEnvelopes ==
    ASSUME RelayInv, Owned, Located, NEW c \in Conn, TakeRequest(c)
    PROVE  KeepsEnvelopes
<1>1. RelayType /\ RelayType' /\ \A d \in Conn : Delivering(d) => HasInHand(d)
  BY TakeRequestInv DEF RelayInv
<1>2. ASSUME OthersStay(c), QuietTake(c) PROVE KeepsEnvelopes
  <2>1. Took(c) /\ UNCHANGED <<queues, accepted, lost>> /\ WritesPlain
    BY <1>1, <1>2, RepliedPlain DEF QuietTake
  <2>2. Steady
    BY <1>1, <1>2, <2>1, TookSteady
  <2>3. ASSUME NEW d \in Conn, Delivering(d)'
        PROVE  /\ Delivering(d) /\ handler[d].rcpt \in Conn
               /\ handler'[d].envelope = handler[d].envelope
               /\ handler'[d].rcpt = handler[d].rcpt
    BY <1>1, <1>2, <2>3 DEF QuietTake, Replied, OthersStay, Delivering, HasInHand
  <2> QED
    BY <1>1, <2>1, <2>2, <2>3, QuietEnvelopes
<1>3. CASE Register(c) \/ GetBundle(c)
  BY <1>1, <1>2, <1>3, RegisterEffect, GetBundleEffect
<1>4. CASE \/ RegisterNobody(c) \/ Unknown(c) \/ GetNoBundle(c)
           \/ RefuseSend(c) \/ RefuseFetch(c)
  BY <1>1, <1>2, <1>4, RefusedEffect
<1> QED
  BY <1>3, <1>4, FetchEnvelopes, SendEnvelopes DEF TakeRequest

(* and so does what a handler does afterwards, *)
LEMMA ContinueEnvelopes ==
    ASSUME RelayInv, Located, NEW c \in Conn, Continue(c)
    PROVE  KeepsEnvelopes
<1>1. RelayType /\ RelayType' /\ \A d \in Conn : Delivering(d) => HasInHand(d)
  BY ContinueInv DEF RelayInv
<1>2. ASSUME UNCHANGED <<script, next, ws, lost>>, OthersStay(c), handler[c].pc # "done"
      PROVE  Steady
  <2>1. \A d \in Conn : next[d] \in Nat /\ next[d] <= next'[d]
    BY <1>1, <1>2 DEF RelayType
  <2> QED
    BY <1>2, <2>1 DEF Steady, OthersStay
<1>3. CASE Resume(c) \/ Disconnected(c)
  <2>1. /\ OthersStay(c) /\ handler[c].pc # "done" /\ handler'[c].pc \in {"idle", "done"}
        /\ UNCHANGED <<ws, script, next, queues, frames, accepted, lost>>
    BY <1>1, <1>3, ResumeEffect, DisconnectedEffect
  <2>2. \A d \in Conn : Delivering(d)' => handler'[d] = handler[d] /\ HasInHand(d) /\ Delivering(d)
    BY <1>1, <2>1 DEF OthersStay, Delivering
  <2> QED
    BY <1>1, <1>2, <2>1, <2>2, QuietEnvelopes DEF WritesPlain, HasInHand
<1>4. CASE Acknowledge(c)
  <2>1. /\ OthersStay(c) /\ handler[c].pc = "deliver"
        /\ handler'[c].envelope = handler[c].envelope
        /\ handler'[c].rcpt = handler[c].rcpt
        /\ \E f \in Plain : frames' = [frames EXCEPT ![c] = Append(@, f)]
        /\ UNCHANGED <<ws, script, next, queues, accepted, lost>>
    BY <1>1, <1>4, AcknowledgeEffect
  <2>2. WritesPlain
    BY <1>1, <2>1 DEF WritesPlain, RelayType
  <2>3. \A d \in Conn : Delivering(d)' =>
           /\ Delivering(d) /\ handler[d].rcpt \in Conn
           /\ handler'[d].envelope = handler[d].envelope
           /\ handler'[d].rcpt = handler[d].rcpt
    BY <1>1, <2>1 DEF OthersStay, Delivering, HasInHand
  <2> QED
    BY <1>1, <1>2, <2>1, <2>2, <2>3, QuietEnvelopes
<1>5. CASE DeliveryRaises(c)
  <2>1. Delivering(c) /\ HasInHand(c)
    BY <1>1, <1>5 DEF DeliveryRaises, Delivering
  <2>2. /\ OthersStay(c) /\ handler[c].pc = "deliver" /\ ws[handler[c].rcpt] = "closed"
        /\ Enqueue(handler[c].envelope)
        /\ \E f \in Plain : Replied(c, f)
        /\ UNCHANGED <<ws, script, next, accepted, lost>>
    BY <1>1, <1>5, <2>1, DeliveryRaisesEffect
  <2>3. WritesPlain /\ handler'[c].pc \in {"reply", "done"}
    BY <1>1, <2>2, RepliedPlain DEF Replied
  <2> QED
    BY <1>1, <1>2, <2>1, <2>2, <2>3, RequeueEnvelopes
<1>6. CASE AcknowledgeRaises(c)
  <2>1. Delivering(c) /\ HasInHand(c)
    BY <1>1, <1>6 DEF AcknowledgeRaises, Delivering
  <2>2. /\ OthersStay(c) /\ handler[c].pc \in {"deliver", "ack"} /\ handler'[c].pc = "done"
        /\ Enqueue(handler[c].envelope)
        /\ UNCHANGED <<ws, script, next, frames, accepted, lost>>
    BY <1>1, <1>6, <2>1, AcknowledgeRaisesEffect
  <2>3. WritesPlain
    BY <2>2 DEF WritesPlain
  <2> QED
    BY <1>1, <1>2, <2>1, <2>2, <2>3, RequeueEnvelopes
<1> QED
  BY <1>3, <1>4, <1>5, <1>6 DEF Continue

(* and so every step. *)
LEMMA NextEnvelopes == RelayInv /\ Owned /\ EnvelopeInv /\ [Next]_vars => EnvelopeInv'
<1>0. SUFFICES ASSUME RelayInv, Owned, EnvelopeInv, [Next]_vars PROVE KeepsEnvelopes
  BY DEF EnvelopeInv, KeepsEnvelopes, PlacedStays, OnceStays, NoneLost
<1> Located
  BY <1>0 DEF EnvelopeInv
<1>1. RelayType /\ RelayType' /\ \A d \in Conn : Delivering(d) => HasInHand(d)
  BY <1>0, NextInv DEF RelayInv
<1>2. ASSUME UNCHANGED <<script, next, handler, queues, frames, accepted, lost>>,
             \A d \in Conn : ws[d] = "closed" => ws'[d] = "closed"
      PROVE  KeepsEnvelopes
  <2>1. Steady /\ WritesPlain
    BY <1>1, <1>2 DEF Steady, WritesPlain, RelayType
  <2> QED
    BY <1>1, <1>2, <2>1, QuietEnvelopes DEF Delivering, HasInHand
<1>3. ASSUME NEW c \in Conn, Connect(c) \/ Leave(c) \/ Notice(c) PROVE KeepsEnvelopes
  BY <1>1, <1>2, <1>3, SocketEffect
<1>4. CASE UNCHANGED vars
  BY <1>2, <1>4 DEF vars
<1> QED
  BY <1>0, <1>3, <1>4, TakeRequestEnvelopes, ContinueEnvelopes DEF Next

(* At the start there is no envelope. *)
LEMMA InitEnvelopes == Init => EnvelopeInv
<1> SUFFICES ASSUME Init PROVE EnvelopeInv
  OBVIOUS
<1>1. /\ accepted = {} /\ \A u \in User : queues[u] = << >>
      /\ \A c \in Conn : frames[c] = << >> /\ ~ Delivering(c)
  BY DEF Init, NewHandler, Delivering
<1>2. \A c \in Conn : \A e : CarriersIn(frames[c], e) = {}
  BY <1>1 DEF CarriersIn
<1> QED
  BY <1>1, <1>2 DEF EnvelopeInv, Located, InItsPlace, HandWritten, NoneLost, OnceWhileOpen

(* Where an envelope was written, by its carriers. *)
LEMMA WritingsFacts ==
    ASSUME NEW e
    PROVE  /\ \A x \in Writings(e) : \E d \in Conn : \E i \in CarriersIn(frames[d], e) :
                 x = <<d, i>>
           /\ \A d \in Conn : \A i \in CarriersIn(frames[d], e) : <<d, i>> \in Writings(e)
BY DEF Writings, CarriersIn

(* Whatever is delivered, queued, fetched and cut off in between, an       *)
(* envelope is gone only if a fetch popped this one and, its connection    *)
(* being closed, wrote nothing; any number of other fetches do not excuse  *)
(* a loss.                                                                 *)
THEOREM OnlyFetchLoses == Spec => []LostOnlyInFetch
<1>1. EnvelopeInv => LostOnlyInFetch
  <2>1. \A e : IsWritten(e) => Writings(e) # {}
    BY WritingsFacts DEF IsWritten
  <2> QED
    BY <2>1 DEF EnvelopeInv, NoneLost, Placed, LostOnlyInFetch
<1> QED
  BY InitInv, NextInv, InitOwned, NextOwned, InitEnvelopes, NextEnvelopes, <1>1, PTL
     DEF Spec

(* Only a closed connection makes the relay handle an envelope twice, and  *)
(* no one but its addressee is ever written it.                            *)
THEOREM EnvelopesHandledOnce == Spec => []HandledOnceWhileOpen
<1>1. RelayInv /\ EnvelopeInv => HandledOnceWhileOpen
  <2>1. SUFFICES ASSUME RelayInv, EnvelopeInv, NEW e \in accepted
                 PROVE  /\ \A x \in Writings(e) : Owner[x[1]] = e.to
                        /\ (Writings(e) # {} /\ Queued(e)) \/ Cardinality(Writings(e)) > 1 =>
                              \/ handler[e.conn].pc = "done"
                              \/ \E x \in Writings(e) : ws[x[1]] = "closed"
    BY DEF HandledOnceWhileOpen
  <2>2. e \in Envelope
    BY <2>1 DEF RelayInv, RelayType
  <2>3. ASSUME NEW x \in Writings(e) PROVE Owner[x[1]] = e.to
    <3>1. PICK d \in Conn : \E i \in CarriersIn(frames[d], e) : x = <<d, i>>
      BY WritingsFacts
    <3> QED
      BY <2>1, <2>2, <3>1 DEF EnvelopeInv, Located, InItsPlace
  <2>4. Cardinality(Writings(e)) > 1 => WrittenTwice(e)
    <3>1. SUFFICES ASSUME ~ WrittenTwice(e) PROVE ~ (Cardinality(Writings(e)) > 1)
      OBVIOUS
    <3>2. \A x, y \in Writings(e) : x = y
      BY <3>1, WritingsFacts DEF WrittenTwice
    <3>3. CASE Writings(e) = {}
      <4>1. Cardinality(Writings(e)) = 0
        BY <3>3, FS_EmptySet
      <4> QED
        BY <4>1
    <3>4. ASSUME NEW x \in Writings(e) PROVE ~ (Cardinality(Writings(e)) > 1)
      <4>1. Writings(e) = {x}
        BY <3>2, <3>4
      <4>2. Cardinality(Writings(e)) = 1
        BY <4>1, FS_Singleton
      <4> QED
        BY <4>2
    <3> QED
      BY <3>3, <3>4
  <2>5. Writings(e) # {} => IsWritten(e)
    BY WritingsFacts DEF IsWritten
  <2>6. OnClosed(e) => \E x \in Writings(e) : ws[x[1]] = "closed"
    <3>1. SUFFICES ASSUME NEW d \in Conn, ws[d] = "closed", NEW i \in CarriersIn(frames[d], e)
                   PROVE  \E x \in Writings(e) : ws[x[1]] = "closed"
      BY DEF OnClosed
    <3>2. <<d, i>> \in Writings(e) /\ <<d, i>>[1] = d
      BY WritingsFacts
    <3> QED
      BY <3>1, <3>2
  <2> QED
    BY <2>1, <2>3, <2>4, <2>5, <2>6 DEF EnvelopeInv, OnceWhileOpen
<1> QED
  BY InitInv, NextInv, InitOwned, NextOwned, InitEnvelopes, NextEnvelopes, <1>1, PTL
     DEF Spec

-----------------------------------------------------------------------------
(* Active connections. *)

(* A registration that names a user. *)
RegistersAt(s, i) == i \in DOMAIN s /\ s[i].type = "register" /\ s[i].to # None

(* Only a registration that was taken makes a handler serve a user.        *)
ServesOnceRegistered ==
    \A c \in Conn : handler[c].user # None \/ handler[c].then # None =>
        \E i \in 1 .. (next[c] - 1) : RegistersAt(script[c], i)

(* A reply leaves open connections the ones served. *)
LEMMA ReplyServes ==
    ASSUME RelayInv, RelayType', ServesOnceRegistered, NEW c \in Conn, Took(c), NEW f \in Frame,
           NEW user \in User \cup {None},
           \/ user \in {None, handler[c].user}
           \/ RegistersAt(script[c], next[c]),
           NEW conns \in [User -> Conn \cup {None}],
           Reply(c, f, user, conns)
    PROVE  ServesOnceRegistered'
<1>1. /\ \A d \in Conn \ {c} : handler'[d] = handler[d]
      /\ handler'[c].user = handler[c].user
      /\ handler'[c].then \in {user, handler[c].then}
  BY ReplyFacts DEF RelayInv
<1>2. /\ script' = script /\ next'[c] = next[c] + 1
      /\ next[c] \in Nat \ {0} /\ next[c] \in DOMAIN script[c]
      /\ \A d \in Conn \ {c} : next'[d] = next[d]
  BY DEF Took, RelayInv, RelayType
<1>3. SUFFICES ASSUME NEW d \in Conn, handler'[d].user # None \/ handler'[d].then # None
               PROVE  \E i \in 1 .. (next'[d] - 1) : RegistersAt(script'[d], i)
  BY DEF ServesOnceRegistered
<1>4. CASE d # c
  BY <1>1, <1>2, <1>3, <1>4 DEF ServesOnceRegistered
<1>5. CASE d = c /\ RegistersAt(script[c], next[c])
  <2>1. next[c] \in 1 .. (next'[c] - 1)
    BY <1>2
  <2> QED
    BY <1>2, <1>5, <2>1
<1>6. CASE d = c /\ user \in {None, handler[c].user}
  <2>1. handler[c].user # None \/ handler[c].then # None
    BY <1>1, <1>3, <1>6
  <2>2. PICK i \in 1 .. (next[c] - 1) : RegistersAt(script[c], i)
    BY <2>1 DEF ServesOnceRegistered
  <2>3. i \in 1 .. (next'[c] - 1)
    BY <1>2
  <2> QED
    BY <1>2, <1>6, <2>2, <2>3
<1> QED
  BY <1>4, <1>5, <1>6

(* Taking a request does so, while connections register once, *)
LEMMA TakeRequestServes ==
    ASSUME RelayInv, ServesOnceRegistered, NEW c \in Conn, TakeRequest(c)
    PROVE  ServesOnceRegistered'
<1>1. /\ RelayType /\ RelayType' /\ Owner[c] \in User
      /\ handler[c].user \in User \cup {None}
      /\ connections \in [User -> Conn \cup {None}]
  BY RelayAssumption, TakeRequestInv DEF RelayInv, RelayType, Handler
<1>2. ASSUME Took(c), NEW f \in Frame, NEW user \in {None, handler[c].user},
             Reply(c, f, user, connections)
      PROVE  ServesOnceRegistered'
  BY <1>1, <1>2, ReplyServes
<1>3. Error \in Frame /\ \A m \in {"registered", "delivered", "queued"} : Ok(m) \in Frame
  BY FrameFacts
<1>4. CASE Register(c)
  <2> DEFINE conns == [connections EXCEPT ![Owner[c]] = c]
  <2>1. /\ Reply(c, Ok("registered"), Owner[c], conns)
        /\ RegistersAt(script[c], next[c])
    BY <1>4 DEF Register, Takes, Named, RegistersAt
  <2>2. conns \in [User -> Conn \cup {None}] /\ Took(c)
    BY <1>1, <1>4, RegisterEffect DEF QuietTake
  <2> HIDE DEF conns
  <2> QED
    BY <1>1, <1>3, <2>1, <2>2, ReplyServes
<1>5. CASE \/ RegisterNobody(c) \/ Unknown(c) \/ GetNoBundle(c)
           \/ RefuseSend(c) \/ RefuseFetch(c)
  <2>1. Took(c)
    BY <1>1, <1>5, RefusedEffect DEF QuietTake
  <2>2. \E user \in {None, handler[c].user} : Reply(c, Error, user, connections)
    BY <1>5 DEF RegisterNobody, Unknown, GetNoBundle, RefuseSend, RefuseFetch, ReplyError
  <2> QED
    BY <1>2, <1>3, <2>1, <2>2
<1>6. CASE GetBundle(c)
  <2> DEFINE f == [type   |-> "bundle",
                   bundle |-> [bundles[Named(c)] EXCEPT !.opks = First(@)]]
  <2>1. /\ Takes(c, "get_bundle") /\ HasBundle(Named(c)) /\ Took(c)
        /\ Reply(c, f, handler[c].user, connections)
    BY <1>1, <1>6, GetBundleEffect DEF GetBundle, QuietTake
  <2>2. f \in Frame
    BY <1>1, <2>1, TakesFacts, ServedFacts, FrameFacts DEF HasBundle
  <2> HIDE DEF f
  <2> QED
    BY <1>2, <2>1, <2>2
<1>7. CASE Fetch(c)
  <2> DEFINE f == [type |-> "messages", messages |-> queues[handler[c].user]]
  <2>1. Reply(c, f, handler[c].user, connections) /\ Took(c)
    BY <1>1, <1>7, FetchEffect DEF Fetch
  <2>2. f \in Frame
    BY <1>1, <1>7, FetchEffect, FrameFacts DEF RelayType
  <2> HIDE DEF f
  <2> QED
    BY <1>2, <2>1, <2>2
<1>8. CASE Send(c)
  <2>1. Took(c)
    BY <1>1, <1>8, SendEffect
  <2>2. CASE Reply(c, Ok("queued"), handler[c].user, connections)
    BY <1>2, <1>3, <2>1, <2>2
  <2>3. CASE /\ Works(connections[SentEnvelope(c).to])
             /\ LET e == SentEnvelope(c) IN
                handler' = [handler EXCEPT ![c] = [@ EXCEPT
                              !.pc = "deliver", !.envelope = e, !.rcpt = connections[e.to]]]
    <3>1. \A d \in Conn : /\ handler'[d].user = handler[d].user
                          /\ handler'[d].then = handler[d].then
      BY <1>1, <1>8, <2>3, DeliverFacts
    <3>2. /\ script' = script /\ \A d \in Conn : next[d] \in Nat /\ next'[d] \in Nat
          /\ \A d \in Conn : next[d] <= next'[d]
      BY <1>1, <2>1 DEF Took, RelayType
    <3>3. \A d \in Conn : \A i \in 1 .. (next[d] - 1) : i \in 1 .. (next'[d] - 1)
      BY <3>2
    <3> QED
      BY <3>1, <3>2, <3>3 DEF ServesOnceRegistered
  <2> QED
    BY <1>8, <2>2, <2>3 DEF Send, SentEnvelope
<1> QED
  BY <1>4, <1>5, <1>6, <1>7, <1>8 DEF TakeRequest

(* and so does every step. *)
LEMMA NextServes == RelayInv /\ ServesOnceRegistered /\ [Next]_vars => ServesOnceRegistered'
<1> SUFFICES ASSUME RelayInv, ServesOnceRegistered, [Next]_vars PROVE ServesOnceRegistered'
  OBVIOUS
<1>1. RelayType /\ \A d \in Conn : Delivering(d) => HasInHand(d)
  BY DEF RelayInv
<1>2. ASSUME UNCHANGED <<script, next>>,
             \A c \in Conn : {handler'[c].user, handler'[c].then}
                                \subseteq {handler[c].user, handler[c].then, None}
      PROVE  ServesOnceRegistered'
  BY <1>2 DEF ServesOnceRegistered
<1>3. ASSUME NEW c \in Conn, Connect(c) \/ Leave(c) \/ Notice(c)
      PROVE  ServesOnceRegistered'
  BY <1>1, <1>2, <1>3, SocketEffect
<1>4. CASE UNCHANGED vars
  BY <1>2, <1>4 DEF vars
<1>5. ASSUME NEW c \in Conn, Continue(c) PROVE ServesOnceRegistered'
  <2>1. UNCHANGED <<script, next>>
    BY <1>5 DEF Continue, Resume, Disconnected, DeliveryRaises, Acknowledge,
                AcknowledgeRaises
  <2>2. CASE Resume(c)
    <3> DEFINE user == IF handler[c].pc = "ack" THEN handler[c].user ELSE handler[c].then
               h == [NewHandler EXCEPT !.user = user]
    <3>1. handler' = [handler EXCEPT ![c] = h] /\ h.user = user /\ h.then = None
      BY <2>2 DEF Resume, NewHandler
    <3> HIDE DEF h
    <3>2. \A d \in Conn : handler'[d] = IF d = c THEN h ELSE handler[d]
      BY <1>1, <3>1 DEF RelayType
    <3> QED
      BY <1>2, <2>1, <3>1, <3>2
  <2>3. CASE Disconnected(c) \/ AcknowledgeRaises(c) \/ Acknowledge(c)
    <3>1. \E pc : handler' = [handler EXCEPT ![c].pc = pc]
      BY <2>3 DEF Disconnected, AcknowledgeRaises, Acknowledge, Exit
    <3>2. \A d \in Conn : /\ handler'[d].user = handler[d].user
                          /\ handler'[d].then = handler[d].then
      BY <1>1, <3>1 DEF RelayType, Handler
    <3> QED
      BY <1>2, <2>1, <3>2
  <2>4. CASE DeliveryRaises(c)
    <3>1. /\ Reply(c, Ok("queued"), handler[c].user, connections)
          /\ handler[c].user \in User \cup {None} /\ Ok("queued") \in Frame
          /\ connections \in [User -> Conn \cup {None}]
      BY <1>1, <2>4, FrameFacts DEF DeliveryRaises, RelayType, Handler
    <3>2. /\ \A d \in Conn \ {c} : handler'[d] = handler[d]
          /\ handler'[c].user = handler[c].user
          /\ handler'[c].then \in {handler[c].user, handler[c].then}
      BY <1>1, <3>1, ReplyFacts
    <3> QED
      BY <1>2, <2>1, <3>2
  <2> QED
    BY <1>5, <2>2, <2>3, <2>4 DEF Continue
<1> QED
  BY <1>3, <1>4, <1>5, TakeRequestServes DEF Next

(* What the table of active connections loses in a step. *)
OnlyClosedTakenOff ==
    \A u \in User : (connections[u] # None /\ connections'[u] = None)
                      => ws[connections[u]] = "closed"

(* A handler that ends takes off only its own, closed connection. *)
LEMMA ExitTakesOff ==
    ASSUME NEW c \in Conn, ws[c] = "closed", RelayType,
           connections' = Unregister(connections, c, handler[c].user)
    PROVE  OnlyClosedTakenOff
BY DEF OnlyClosedTakenOff, Unregister, RelayType

(* A reply that raises does the same. *)
LEMMA ReplyTakesOff ==
    ASSUME NEW c \in Conn, NEW f, NEW user, RelayType, Reply(c, f, user, connections)
    PROVE  OnlyClosedTakenOff
<1>1. CASE connections' = connections
  BY <1>1 DEF OnlyClosedTakenOff
<1>2. CASE ws[c] = "closed" /\ connections' = Unregister(connections, c, handler[c].user)
  BY <1>2, ExitTakesOff
<1> QED
  BY <1>1, <1>2 DEF Reply, Exit

(* The first registration of a connection takes no other connection off:   *)
(* its handler serves nobody yet.                                          *)
LEMMA RegisterTakesOff ==
    ASSUME RelayInv, ServesOnceRegistered, RegistersOnce, script \in ChosenScripts,
           NEW c \in Conn, Register(c)
    PROVE  OnlyClosedTakenOff
<1>1. /\ Takes(c, "register") /\ Named(c) # None
      /\ Reply(c, Ok("registered"), Owner[c], [connections EXCEPT ![Owner[c]] = c])
  BY DEF Register
<1>2. RegistersAt(script[c], next[c]) /\ next[c] \in Nat
  BY <1>1 DEF Takes, Named, RegistersAt, RelayInv, RelayType
<1>3. handler[c].user = None
  <2>1. SUFFICES ASSUME NEW i \in 1 .. (next[c] - 1), RegistersAt(script[c], i)
                 PROVE  FALSE
    BY DEF ServesOnceRegistered
  <2>2. script[c] \in Scripts[c]
    BY DEF ChosenScripts
  <2>3. i = next[c]
    BY <1>2, <2>1, <2>2 DEF RegistersOnce, RegistersAt
  <2> QED
    BY <1>2, <2>3
<1>4. connections' = [connections EXCEPT ![Owner[c]] = c]
  BY <1>1, <1>3 DEF Reply, Exit, Unregister
<1>5. c # None
  BY RelayAssumption
<1> QED
  BY <1>4, <1>5, RelayAssumption DEF OnlyClosedTakenOff, RelayInv, RelayType

(* No step takes an open connection off, but a registration. *)
LEMMA NextTakesOff ==
    RelayInv /\ ServesOnceRegistered /\ RegistersOnce /\ script \in ChosenScripts /\ [Next]_vars
        => OnlyClosedTakenOff
<1> SUFFICES ASSUME RelayInv, ServesOnceRegistered, RegistersOnce,
                    script \in ChosenScripts, [Next]_vars
             PROVE  OnlyClosedTakenOff
  OBVIOUS
<1>1. RelayType
  BY DEF RelayInv
<1>2. ASSUME connections' = connections PROVE OnlyClosedTakenOff
  BY <1>2 DEF OnlyClosedTakenOff
<1>3. ASSUME NEW c \in Conn, TakeRequest(c) PROVE OnlyClosedTakenOff
  <2>1. CASE \/ RegisterNobody(c) \/ Unknown(c) \/ GetNoBundle(c) \/ GetBundle(c)
             \/ RefuseSend(c) \/ RefuseFetch(c) \/ Fetch(c)
    BY <1>1, <2>1, ReplyTakesOff
       DEF RegisterNobody, Unknown, GetNoBundle, GetBundle, RefuseSend, RefuseFetch,
           Fetch, ReplyError
  <2>2. CASE Send(c)
    BY <1>1, <1>2, <2>2, ReplyTakesOff DEF Send
  <2> QED
    BY <1>3, <2>1, <2>2, RegisterTakesOff DEF TakeRequest
<1>4. ASSUME NEW c \in Conn, Continue(c) PROVE OnlyClosedTakenOff
  <2>1. CASE Resume(c) \/ Acknowledge(c)
    BY <1>2, <2>1 DEF Resume, Acknowledge
  <2>2. CASE Disconnected(c) \/ AcknowledgeRaises(c)
    BY <1>1, <2>2, ExitTakesOff DEF Disconnected, AcknowledgeRaises, Exit
  <2>3. CASE DeliveryRaises(c)
    BY <1>1, <2>3, ReplyTakesOff DEF DeliveryRaises
  <2> QED
    BY <1>4, <2>1, <2>2, <2>3 DEF Continue
<1>5. ASSUME NEW c \in Conn, Connect(c) \/ Leave(c) \/ Notice(c) PROVE OnlyClosedTakenOff
  BY <1>1, <1>2, <1>5, SocketEffect
<1>6. CASE UNCHANGED vars
  BY <1>2, <1>6 DEF vars
<1> QED
  BY <1>3, <1>4, <1>5, <1>6 DEF Next

(* If clients register once on a connection, as the commands do, no        *)
(* handler takes a connection off the table that is not closed: what the   *)
(* cleanup of an old connection finds there may be a newer one.            *)
THEOREM ActiveConnectionStays ==
    ASSUME RegistersOnce
    PROVE  Spec => OpenConnectionStays
<1>1. Init => ServesOnceRegistered /\ script \in ChosenScripts
  <2>1. Init => \A c \in Conn : handler[c].user = None /\ handler[c].then = None
    BY DEF Init, NewHandler
  <2> QED
    BY <2>1 DEF Init, ServesOnceRegistered
<1>2. script \in ChosenScripts /\ RelayInv /\ [Next]_vars => (script \in ChosenScripts)'
  BY ScriptStays
<1>3. RelayInv /\ ServesOnceRegistered /\ script \in ChosenScripts /\ [Next]_vars
         => [\A u \in User : (connections[u] # None /\ connections'[u] = None)
                => ws[connections[u]] = "closed"]_vars
  BY NextTakesOff DEF OnlyClosedTakenOff
<1> QED
  BY InitInv, NextInv, NextServes, <1>1, <1>2, <1>3, PTL DEF Spec, OpenConnectionStays
=============================================================================
