----------------------------- MODULE ChatProofs -----------------------------
(***************************************************************************)
(* Theorems about Chat, for any number of lines and deliveries.            *)
(***************************************************************************)
EXTENDS Chat, SequenceTheorems, TLAPS

-----------------------------------------------------------------------------
(* Types. *)

(* A frame has a number and is not the absence of one. *)
LEMMA FrameFacts ==
    ASSUME NEW f \in Frame
    PROVE  f.no \in Nat /\ f # NoFrame
BY DEF Frame, NoFrame

(* The setup leaves the state typed, with or without a reply unread.      *)
LEMMA TypeInit == Init => TypeOK
<1> SUFFICES ASSUME Init PROVE TypeOK
  OBVIOUS
<1>1. wire \in Seq(Frame) /\ slips \in Nat
  <2>1. << >> \in Seq(Frame)
    OBVIOUS
  <2>2. [type |-> "messages", no |-> 0] \in Frame
    BY DEF Frame
  <2> DEFINE f == [type |-> "messages", no |-> 0]
  <2> HIDE DEF f
  <2>3. <<f>> \in Seq(Frame)
    BY <2>2 DEF f
  <2>4. \/ wire = << >> /\ slips = 0
        \/ wire = <<f>> /\ slips = 1
    BY DEF Init, f
  <2>5. CASE wire = << >> /\ slips = 0
    BY <2>1, <2>5
  <2>6. CASE wire = <<f>> /\ slips = 1
    BY <2>3, <2>6
  <2> QED
    BY <2>4, <2>5, <2>6
<1>2. /\ dispatcher \in [state : {"recv", "held", "cancelled", "ended"},
                         frame : Frame \cup {NoFrame}]
      /\ dispatcher.state = "held" <=> dispatcher.frame # NoFrame
  BY DEF Init, MakeDispatcher
<1>3. open \in BOOLEAN /\ session \in BOOLEAN /\ ignored \in BOOLEAN
  BY DEF Init
<1> QED
  BY <1>1, <1>2, <1>3 DEF Init, TypeOK

(* The frame at the head of the wire is one, and leaves a wire of frames.  *)
LEMMA ReadType ==
    ASSUME TypeOK, wire # << >>, Read
    PROVE  /\ Head(wire) \in Frame /\ Head(wire).no \in Nat
           /\ Head(wire) # NoFrame
           /\ wire' \in Seq(Frame)
<1>1. Head(wire) \in Frame /\ Tail(wire) \in Seq(Frame)
  BY HeadTailProperties DEF TypeOK
<1> QED
  BY <1>1, FrameFacts DEF Read

(* Cancelling a dispatcher leaves it with the frame it holds, if any.      *)
LEMMA CancelledType ==
    ASSUME TypeOK
    PROVE  /\ Cancelled(dispatcher) \in [state : {"recv", "held", "cancelled", "ended"},
                                         frame : Frame \cup {NoFrame}]
           /\ Cancelled(dispatcher).state = "held" <=>
                 Cancelled(dispatcher).frame # NoFrame
BY DEF TypeOK, Cancelled

(* A request is made, or is not. *)
LEMMA AskType ==
    ASSUME TypeOK, NEW type \in {"get_bundle", "send"}, NEW pc \in {"rpc", "ack"},
           Ask(type, pc)
    PROVE  /\ asked' \in Nat
           /\ requests' \in Seq(Request)
           /\ main' \in [pc : {"prompt", "cancel", "rpc", "ack", "quit"}, no : Nat]
<1>1. CASE open
  <2>1. /\ asked' = asked + 1 /\ asked' \in Nat
        /\ requests' = Append(requests, [type |-> type, no |-> asked'])
        /\ main' = [pc |-> pc, no |-> asked']
    BY <1>1 DEF Ask, TypeOK
  <2>2. [type |-> type, no |-> asked'] \in Request
    BY <2>1 DEF Request
  <2> QED
    BY <2>1, <2>2 DEF TypeOK
<1>2. CASE ~ open
  BY <1>2 DEF Ask, Prompt, TypeOK
<1> QED
  BY <1>1, <1>2

(* Every step of every task keeps the types. *)
LEMMA TypeStep == TypeOK /\ [Next]_vars => TypeOK'
<1> SUFFICES ASSUME TypeOK, [Next]_vars PROVE TypeOK'
  OBVIOUS
<1>1. CASE Answer
  <2>1. Head(requests) \in Request /\ Tail(requests) \in Seq(Request)
    BY <1>1, HeadTailProperties DEF Answer, TypeOK
  <2>2. PICK t \in {"ok", "bundle", "error"} :
           wire' = Append(wire, [type |-> t, no |-> Head(requests).no])
    BY <1>1 DEF Answer
  <2>3. [type |-> t, no |-> Head(requests).no] \in Frame
    BY <2>1 DEF Frame, Request
  <2>4. wire' \in Seq(Frame) /\ requests' \in Seq(Request)
    BY <1>1, <2>1, <2>2, <2>3 DEF Answer, TypeOK
  <2> QED
    BY <1>1, <2>4 DEF Answer, TypeOK, tasks, history
<1>2. CASE Deliver
  <2>1. delivered' \in Nat
    BY <1>2 DEF Deliver, TypeOK
  <2>2. [type |-> "deliver", no |-> delivered'] \in Frame
    BY <2>1 DEF Frame
  <2>3. wire' \in Seq(Frame)
    BY <1>2, <2>2 DEF Deliver, TypeOK
  <2> QED
    BY <1>2, <2>1, <2>3 DEF Deliver, TypeOK, tasks, history
<1>3. CASE Break
  <2>1. PICK n \in 0 .. Len(wire) : wire' = SubSeq(wire, 1, n)
    BY <1>3 DEF Break
  <2>2. wire' \in Seq(Frame)
    BY <2>1, SubSeqProperties DEF TypeOK
  <2> QED
    <3>1. open' \in BOOLEAN
      BY <1>3 DEF Break
    <3>2. requests' \in Seq(Request)
      BY <1>3, EmptySeq DEF Break
    <3> QED
      BY <1>3, <2>2, <3>1, <3>2 DEF Break, TypeOK, tasks, history
<1>4. CASE Receive
  <2>1. /\ Head(wire) \in Frame /\ Head(wire) # NoFrame /\ wire' \in Seq(Frame)
    BY <1>4, ReadType DEF Receive
  <2> QED
    BY <1>4, <2>1 DEF Receive, TypeOK, history
<1>5. CASE Dispatch
  <2>1. dispatcher.frame \in Frame
    BY <1>5 DEF Dispatch, TypeOK
  <2>2. ack_q' \in Seq(Frame) /\ inbox_q' \in Seq(Frame)
    <3>1. ack_q \in Seq(Frame) /\ inbox_q \in Seq(Frame)
      BY DEF TypeOK
    <3> DEFINE f == dispatcher.frame
    <3>2. \/ ack_q' = ack_q /\ inbox_q' = Append(inbox_q, f)
          \/ inbox_q' = inbox_q /\ ack_q' = Append(ack_q, f)
      BY <1>5 DEF Dispatch, Route
    <3>3. f \in Frame
      BY <2>1
    <3> HIDE DEF f
    <3> QED
      <4>1. Append(inbox_q, f) \in Seq(Frame) /\ Append(ack_q, f) \in Seq(Frame)
        BY <3>1, <3>3
      <4> QED
        BY <3>1, <3>2, <4>1
  <2> QED
    BY <1>5, <2>2 DEF Dispatch, MakeDispatcher, TypeOK, history
<1>6. CASE EndDispatcher
  BY <1>6 DEF EndDispatcher, TypeOK, history
<1>7. CASE Show
  <2>1. /\ Head(inbox_q) \in Frame /\ Head(inbox_q).no \in Nat
        /\ Tail(inbox_q) \in Seq(Frame)
    BY <1>7, HeadTailProperties, FrameFacts DEF Show, TypeOK
  <2> QED
    <3>1. inbox_q' \in Seq(Frame) /\ processed' \in Seq(Frame)
      BY <1>7, <2>1 DEF Show, TypeOK
    <3>2. session' \in BOOLEAN
      BY <1>7 DEF Show, TypeOK
    <3> QED
      BY <1>7, <3>1, <3>2 DEF Show, TypeOK
<1>8. CASE Type
  <2>1. lines' \in Nat
    BY <1>8 DEF Type, TypeOK
  <2>2. ignored' \in BOOLEAN
    BY <1>8 DEF Type, TypeOK
  <2>3. CASE session
    <3>1. Ask("send", "ack") /\ dispatcher' = dispatcher
      BY <1>8, <2>3 DEF Type
    <3>2. /\ asked' \in Nat /\ requests' \in Seq(Request)
          /\ main' \in [pc : {"prompt", "cancel", "rpc", "ack", "quit"}, no : Nat]
      BY <3>1, AskType
    <3> QED
      BY <1>8, <2>1, <2>2, <3>1, <3>2 DEF Type, TypeOK
  <2>4. CASE ~ session
    <3>1. /\ main' = [main EXCEPT !.pc = "cancel"]
          /\ dispatcher' = Cancelled(dispatcher)
          /\ UNCHANGED <<asked, requests>>
      BY <1>8, <2>4 DEF Type
    <3>2. main' \in [pc : {"prompt", "cancel", "rpc", "ack", "quit"}, no : Nat]
      BY <3>1 DEF TypeOK
    <3> QED
      BY <1>8, <2>1, <2>2, <3>1, <3>2, CancelledType DEF Type, TypeOK
  <2> QED
    BY <2>3, <2>4
<1>9. CASE Quit
  <2>1. open' \in BOOLEAN
    BY <1>9 DEF Quit
  <2>2. requests' \in Seq(Request)
    BY <1>9, EmptySeq DEF Quit
  <2>3. main' \in [pc : {"prompt", "cancel", "rpc", "ack", "quit"}, no : Nat]
    BY <1>9 DEF Quit, TypeOK
  <2>4. /\ dispatcher' \in [state : {"recv", "held", "cancelled", "ended"},
                            frame : Frame \cup {NoFrame}]
        /\ dispatcher'.state = "held" <=> dispatcher'.frame # NoFrame
    BY <1>9 DEF Quit, MakeDispatcher
  <2> QED
    BY <1>9, <2>1, <2>2, <2>3, <2>4 DEF Quit, TypeOK, history
<1>10. CASE Initiate
  <2>1. /\ asked' \in Nat /\ requests' \in Seq(Request)
        /\ main' \in [pc : {"prompt", "cancel", "rpc", "ack", "quit"}, no : Nat]
    BY <1>10, AskType DEF Initiate
  <2> QED
    BY <1>10, <2>1 DEF Initiate, MakeDispatcher, TypeOK, history
<1>11. CASE GotBundle
  <2>1. /\ asked' \in Nat /\ requests' \in Seq(Request)
        /\ main' \in [pc : {"prompt", "cancel", "rpc", "ack", "quit"}, no : Nat]
    BY <1>11, AskType DEF GotBundle
  <2>2. wire' \in Seq(Frame)
    BY <1>11, ReadType DEF GotBundle
  <2> QED
    BY <1>11, <2>1, <2>2 DEF GotBundle, MakeDispatcher, TypeOK
<1>12. CASE RpcFailed
  <2>1. /\ wire' \in Seq(Frame) /\ misread' \subseteq Nat /\ slips' \in Nat
    <3>1. CASE wire # << >>
      <4>1. Read /\ Head(wire).no \in Nat /\ wire' \in Seq(Frame)
        BY <1>12, <3>1, ReadType DEF RpcFailed
      <4>2. \/ misread' = misread \cup {Head(wire).no}
            \/ misread' = misread
        BY <1>12, <3>1 DEF RpcFailed
      <4>3. slips' = slips \/ slips' = slips + 1
        BY <1>12, <3>1 DEF RpcFailed
      <4>4. misread \subseteq Nat /\ slips \in Nat
        BY DEF TypeOK
      <4>5. misread' \subseteq Nat
        BY <4>1, <4>2, <4>4
      <4>6. slips' \in Nat
        BY <4>3, <4>4
      <4> QED
        BY <4>1, <4>5, <4>6
    <3>2. CASE wire = << >>
      BY <1>12, <3>2 DEF RpcFailed, TypeOK
    <3> QED
      BY <3>1, <3>2
  <2> QED
    BY <1>12, <2>1 DEF RpcFailed, Prompt, MakeDispatcher, TypeOK
<1>13. CASE GotAck
  <2>1. /\ Head(ack_q) \in Frame /\ Head(ack_q).no \in Nat
        /\ Tail(ack_q) \in Seq(Frame)
    BY <1>13, HeadTailProperties, FrameFacts DEF GotAck, TypeOK
  <2>2. [sent |-> main.no, got |-> Head(ack_q).no, slips |-> slips]
           \in [sent : Nat, got : Nat, slips : Nat]
    BY <2>1 DEF TypeOK
  <2>3. acks' \in Seq([sent : Nat, got : Nat, slips : Nat])
    BY <1>13, <2>2 DEF GotAck, TypeOK
  <2> QED
    BY <1>13, <2>1, <2>3 DEF GotAck, Prompt, TypeOK
<1>14. CASE AckTimeout
  <2>1. slips' \in Nat
    BY <1>14 DEF AckTimeout, TypeOK
  <2>2. main' \in [pc : {"prompt", "cancel", "rpc", "ack", "quit"}, no : Nat]
    BY <1>14 DEF AckTimeout, Prompt, TypeOK
  <2> QED
    BY <1>14, <2>1, <2>2 DEF AckTimeout, TypeOK
<1>15. CASE UNCHANGED vars
  BY <1>15 DEF vars, tasks, history, TypeOK
<1> QED
  BY <1>1, <1>2, <1>3, <1>4, <1>5, <1>6, <1>7, <1>8, <1>9, <1>10, <1>11, <1>12,
     <1>13, <1>14, <1>15 DEF Next, Dispatcher, Main

(* The variables of a chat have their types; a dispatcher that is said to  *)
(* have a frame in hand has one, and no other does.                        *)
THEOREM TypeCorrect == Spec => []TypeOK
BY TypeInit, TypeStep, PTL DEF Spec

-----------------------------------------------------------------------------
(* Only an ended dispatcher lets the main loop start an rpc, and none is   *)
(* made before the rpc is over.                                            *)
LEMMA OneReceiverStep == TypeOK /\ OneReceiver /\ [Next]_vars => OneReceiver'
<1> SUFFICES ASSUME TypeOK, OneReceiver, [Next]_vars, main'.pc = "rpc"
             PROVE  dispatcher'.state = "ended"
  BY DEF OneReceiver
<1>1. ASSUME UNCHANGED <<main, dispatcher>> PROVE dispatcher'.state = "ended"
  BY <1>1 DEF OneReceiver
<1>2. CASE Initiate
  BY <1>2 DEF Initiate, Ask, Prompt, TypeOK
<1>3. CASE Receive \/ Dispatch \/ EndDispatcher
  BY <1>3 DEF Receive, Dispatch, EndDispatcher, OneReceiver, TypeOK
<1>4. CASE Type
  BY <1>4 DEF Type, Ask, Prompt, TypeOK
<1>5. CASE Quit \/ RpcFailed \/ GotAck \/ AckTimeout
  BY <1>5 DEF Quit, RpcFailed, GotAck, AckTimeout, Prompt, TypeOK
<1>6. CASE GotBundle
  BY <1>6 DEF GotBundle, Ask, Prompt, TypeOK
<1>7. CASE Answer \/ Deliver \/ Break \/ Show \/ UNCHANGED vars
  BY <1>1, <1>7 DEF Answer, Deliver, Break, Show, vars, tasks
<1> QED
  BY <1>2, <1>3, <1>4, <1>5, <1>6, <1>7 DEF Next, Dispatcher, Main

(* An rpc of the main loop and the dispatcher never wait for a frame       *)
(* together, however often the dispatcher is cancelled and made anew.      *)
THEOREM OneTaskReceives == Spec => []OneReceiver
<1>1. Init => OneReceiver
  BY DEF Init, OneReceiver
<1> QED
  BY <1>1, TypeInit, TypeStep, OneReceiverStep, PTL DEF Spec

-----------------------------------------------------------------------------
(* Numbers in sequences. *)

(* What the stages of a chat hold. *)
Item == Frame \cup Request \cup {NoFrame}

(* Frames and requests are numbered items. *)
LEMMA ItemFacts ==
    /\ \A x \in Item : x.no \in Nat
    /\ \A s \in Seq(Frame) \cup Seq(Request) : s \in Seq(Item)
<1>1. \A x \in Item : x.no \in Nat
  BY DEF Item, Frame, Request, NoFrame
<1>2. Frame \subseteq Item /\ Request \subseteq Item
  BY DEF Item
<1> HIDE DEF Item
<1>3. Seq(Frame) \subseteq Seq(Item) /\ Seq(Request) \subseteq Seq(Item)
  BY <1>2
<1> QED
  BY <1>1, <1>3

(* The numbers in one item, *)
LEMMA NumbersSingle ==
    ASSUME NEW x \in Item, NEW ts
    PROVE  /\ Numbers(<<x>>, ts) = IF x.type \in ts THEN {x.no} ELSE {}
           /\ Ascend(<<x>>, ts)
<1>1. DOMAIN <<x>> = {1} /\ <<x>>[1] = x
  OBVIOUS
<1> DEFINE s == <<x>>
<1> HIDE DEF s
<1>2. DOMAIN s = {1} /\ s[1] = x
  BY <1>1 DEF s
<1>3. Numbers(s, ts) = IF x.type \in ts THEN {x.no} ELSE {}
  BY <1>2 DEF Numbers
<1>4. Ascend(s, ts)
  BY <1>2 DEF Ascend
<1> QED
  BY <1>3, <1>4 DEF s

(* in a sequence with an item at its end, *)
LEMMA NumbersAppend ==
    ASSUME NEW s \in Seq(Item), NEW x \in Item, NEW ts
    PROVE  /\ Numbers(Append(s, x), ts) =
                  Numbers(s, ts) \cup (IF x.type \in ts THEN {x.no} ELSE {})
           /\ Ascend(s, ts) /\ (x.type \in ts => \A n \in Numbers(s, ts) : n < x.no)
                 => Ascend(Append(s, x), ts)
<1> DEFINE t == Append(s, x)
           k == Len(s) + 1
<1>1. /\ Len(s) \in Nat /\ DOMAIN s = 1 .. Len(s) /\ DOMAIN t = 1 .. k
      /\ t[k] = x /\ \A i \in 1 .. Len(s) : t[i] = s[i]
  BY AppendProperties, LenProperties
<1>2. DOMAIN t = DOMAIN s \cup {k} /\ k \notin DOMAIN s
  BY <1>1
<1>3. t[k] = x /\ \A i \in DOMAIN s : t[i] = s[i] /\ i < k
  BY <1>1
<1>4. \A i \in DOMAIN s : s[i].no \in Nat
  BY ItemFacts
<1> HIDE DEF t
<1>5. Numbers(t, ts) = Numbers(s, ts) \cup (IF x.type \in ts THEN {x.no} ELSE {})
  BY <1>2, <1>3 DEF Numbers
<1>6. ASSUME Ascend(s, ts), x.type \in ts => \A n \in Numbers(s, ts) : n < x.no
      PROVE  Ascend(t, ts)
  <2>1. SUFFICES ASSUME NEW i \in DOMAIN t, NEW j \in DOMAIN t, i < j,
                        {t[i].type, t[j].type} \subseteq ts
                 PROVE  t[i].no < t[j].no
    BY DEF Ascend
  <2>2. i \in DOMAIN s
    BY <1>1, <2>1
  <2>3. CASE j \in DOMAIN s
    BY <1>3, <1>6, <2>1, <2>2, <2>3 DEF Ascend
  <2>4. CASE j = k
    BY <1>3, <1>6, <2>1, <2>2, <2>4 DEF Numbers
  <2> QED
    BY <1>2, <2>3, <2>4
<1> QED
  BY <1>5, <1>6 DEF t

(* in a sequence without its first item, *)
LEMMA NumbersTail ==
    ASSUME NEW s \in Seq(Item), s # << >>, NEW ts
    PROVE  /\ Head(s) \in Item /\ Tail(s) \in Seq(Item)
           /\ Numbers(s, ts) =
                  (IF Head(s).type \in ts THEN {Head(s).no} ELSE {}) \cup Numbers(Tail(s), ts)
           /\ Ascend(s, ts) => /\ Ascend(Tail(s), ts)
                               /\ Head(s).type \in ts =>
                                     \A n \in Numbers(Tail(s), ts) : Head(s).no < n
<1> DEFINE t == Tail(s)
           n == Len(s)
           h == Head(s)
<1>1. /\ n \in Nat /\ n > 0 /\ DOMAIN s = 1 .. n /\ h = s[1] /\ h \in Item
      /\ t \in Seq(Item) /\ Len(t) = n - 1 /\ DOMAIN t = 1 .. (n - 1)
      /\ \A i \in 1 .. (n - 1) : t[i] = s[i + 1]
  BY HeadTailProperties, LenProperties, EmptySeq
<1> HIDE DEF t, n, h
<1>2. \A i \in DOMAIN s : i = 1 \/ (i - 1 \in DOMAIN t /\ s[i] = t[i - 1])
  BY <1>1
<1>3. \A i \in DOMAIN t : i + 1 \in DOMAIN s /\ t[i] = s[i + 1] /\ 1 < i + 1
  BY <1>1
<1>4. 1 \in DOMAIN s
  BY <1>1
<1>5. Numbers(s, ts) = (IF h.type \in ts THEN {h.no} ELSE {}) \cup Numbers(t, ts)
  <2>1. ASSUME NEW m \in Numbers(s, ts)
        PROVE  m \in (IF h.type \in ts THEN {h.no} ELSE {}) \cup Numbers(t, ts)
    BY <1>1, <1>2, <2>1 DEF Numbers
  <2>2. ASSUME NEW m \in (IF h.type \in ts THEN {h.no} ELSE {}) \cup Numbers(t, ts)
        PROVE  m \in Numbers(s, ts)
    BY <1>1, <1>3, <1>4, <2>2 DEF Numbers
  <2> QED
    BY <2>1, <2>2
<1>6. ASSUME Ascend(s, ts) PROVE Ascend(t, ts)
  <2>1. SUFFICES ASSUME NEW i \in DOMAIN t, NEW j \in DOMAIN t, i < j,
                        {t[i].type, t[j].type} \subseteq ts
                 PROVE  t[i].no < t[j].no
    BY DEF Ascend
  <2>2. i + 1 < j + 1
    BY <1>1, <2>1
  <2> QED
    BY <1>3, <1>6, <2>1, <2>2 DEF Ascend
<1>7. ASSUME Ascend(s, ts), h.type \in ts, NEW m \in Numbers(t, ts) PROVE h.no < m
  <2>1. PICK i \in DOMAIN t : t[i].type \in ts /\ m = t[i].no
    BY DEF Numbers
  <2> QED
    BY <1>1, <1>3, <1>4, <1>7, <2>1 DEF Ascend
<1> QED
  BY <1>1, <1>5, <1>6, <1>7 DEF t, h

(* and in the first items of a sequence. *)
LEMMA NumbersPrefix ==
    ASSUME NEW s \in Seq(Item), NEW n \in 0 .. Len(s), NEW ts
    PROVE  /\ Numbers(SubSeq(s, 1, n), ts) \subseteq Numbers(s, ts)
           /\ Ascend(s, ts) => Ascend(SubSeq(s, 1, n), ts)
<1> DEFINE t == SubSeq(s, 1, n)
<1>1. \A i \in DOMAIN t : i \in DOMAIN s /\ t[i] = s[i]
  BY SubSeqProperties, LenProperties
<1> HIDE DEF t
<1> QED
  <2>1. Numbers(t, ts) \subseteq Numbers(s, ts) /\ (Ascend(s, ts) => Ascend(t, ts))
    BY <1>1 DEF Numbers, Ascend
  <2> QED
    BY <2>1 DEF t

(* A line of four stages, stage by stage. *)
LEMMA InLineFacts ==
    ASSUME NEW a, NEW b, NEW c, NEW d, NEW ts
    PROVE  LET Ahead(s, t) == \A m \in Numbers(s, ts), n \in Numbers(t, ts) : m < n
           IN  /\ InLine(<<a, b, c, d>>, ts) <=>
                     /\ Ascend(a, ts) /\ Ascend(b, ts) /\ Ascend(c, ts) /\ Ascend(d, ts)
                     /\ Ahead(a, b) /\ Ahead(a, c) /\ Ahead(a, d)
                     /\ Ahead(b, c) /\ Ahead(b, d) /\ Ahead(c, d)
               /\ UNION {Numbers(<<a, b, c, d>>[s], ts) : s \in DOMAIN <<a, b, c, d>>} =
                     Numbers(a, ts) \cup Numbers(b, ts) \cup Numbers(c, ts) \cup Numbers(d, ts)
<1> DEFINE st == <<a, b, c, d>>
           Ahead(s, t) == \A m \in Numbers(s, ts), n \in Numbers(t, ts) : m < n
<1>1. DOMAIN st = 1 .. 4 /\ st[1] = a /\ st[2] = b /\ st[3] = c /\ st[4] = d
  OBVIOUS
<1>2. DOMAIN st = {1, 2, 3, 4}
  BY <1>1
<1> HIDE DEF st
<1>3. InLine(st, ts) <=> /\ \A s \in DOMAIN st : Ascend(st[s], ts)
                         /\ \A s, t \in DOMAIN st : s < t => Ahead(st[s], st[t])
  BY DEF InLine
<1> HIDE DEF Ahead
<1>4. (\A s \in DOMAIN st : Ascend(st[s], ts)) <=>
         Ascend(a, ts) /\ Ascend(b, ts) /\ Ascend(c, ts) /\ Ascend(d, ts)
  BY <1>1, <1>2
<1>5. (\A s, t \in DOMAIN st : s < t => Ahead(st[s], st[t])) <=>
         /\ Ahead(a, b) /\ Ahead(a, c) /\ Ahead(a, d)
         /\ Ahead(b, c) /\ Ahead(b, d) /\ Ahead(c, d)
  BY <1>1, <1>2
<1>6. UNION {Numbers(st[s], ts) : s \in DOMAIN st} =
         Numbers(a, ts) \cup Numbers(b, ts) \cup Numbers(c, ts) \cup Numbers(d, ts)
  BY <1>1, <1>2
<1> QED
  BY <1>3, <1>4, <1>5, <1>6 DEF st, Ahead

-----------------------------------------------------------------------------
(* Deliveries. *)

D == {"deliver"}

Kept == Numbers(processed, D) \cup Numbers(inbox_q, D)
           \cup Numbers(<<dispatcher.frame>>, D) \cup Numbers(wire, D)

AheadD(s, t) == \A m \in Numbers(s, D), n \in Numbers(t, D) : m < n

(* DeliveriesKept, stage by stage. *)
KeptInLine ==
    /\ Ascend(processed, D) /\ Ascend(inbox_q, D) /\ Ascend(wire, D)
    /\ AheadD(processed, inbox_q) /\ AheadD(processed, <<dispatcher.frame>>)
    /\ AheadD(processed, wire) /\ AheadD(inbox_q, <<dispatcher.frame>>)
    /\ AheadD(inbox_q, wire) /\ AheadD(<<dispatcher.frame>>, wire)
    /\ Kept \cap misread = {}
    /\ open => Kept \cup misread = 1 .. delivered

(* The property, in terms of the numbers on the way. *)
LEMMA KeptFacts == TypeOK => (DeliveriesKept <=> KeptInLine)
<1> SUFFICES ASSUME TypeOK PROVE DeliveriesKept <=> KeptInLine
  OBVIOUS
<1> DEFINE h == <<dispatcher.frame>>
<1>1. dispatcher.frame \in Item
  BY DEF TypeOK, Item
<1>2. Ascend(h, D)
  BY <1>1, NumbersSingle
<1>3. /\ InLine(Stages, D) <=>
            /\ Ascend(processed, D) /\ Ascend(inbox_q, D) /\ Ascend(h, D) /\ Ascend(wire, D)
            /\ AheadD(processed, inbox_q) /\ AheadD(processed, h) /\ AheadD(processed, wire)
            /\ AheadD(inbox_q, h) /\ AheadD(inbox_q, wire) /\ AheadD(h, wire)
      /\ UNION {Numbers(Stages[s], D) : s \in DOMAIN Stages} = Kept
  BY InLineFacts DEF Stages, AheadD, Kept
<1> HIDE DEF h
<1>4. DeliveriesKept <=>
         /\ InLine(Stages, D)
         /\ Kept \cap misread = {}
         /\ open => Kept \cup misread = 1 .. delivered
  BY <1>3 DEF DeliveriesKept, D
<1> QED
  BY <1>2, <1>3, <1>4 DEF h, KeptInLine

(* A frame that is not there has no number. *)
LEMMA NoFrameFacts ==
    ASSUME NEW ts, "none" \notin ts
    PROVE  Numbers(<<NoFrame>>, ts) = {}
<1>1. NoFrame \in Item /\ NoFrame.type = "none"
  BY DEF Item, NoFrame
<1> QED
  BY <1>1, NumbersSingle

(* No step of any task loses an envelope, or puts one before another.      *)
LEMMA DeliveriesStep ==
    TypeOK /\ TypeOK' /\ OneReceiver /\ DeliveriesKept /\ [Next]_vars => DeliveriesKept'
<1> SUFFICES ASSUME TypeOK, TypeOK', OneReceiver, DeliveriesKept, [Next]_vars
             PROVE  DeliveriesKept'
  OBVIOUS
<1> DEFINE EP == Numbers(processed, D)
           EI == Numbers(inbox_q, D)
           EH == Numbers(<<dispatcher.frame>>, D)
           EW == Numbers(wire, D)
           All == EP \cup EI \cup EH \cup EW
           Less(A, B) == \A m \in A, n \in B : m < n
           Line(A, B, C, E) == /\ Less(A, B) /\ Less(A, C) /\ Less(A, E)
                               /\ Less(B, C) /\ Less(B, E) /\ Less(C, E)
           Up(p, i, w) == Ascend(p, D) /\ Ascend(i, D) /\ Ascend(w, D)
           Taken(all, mis, op, del) == /\ all \cap mis = {}
                                       /\ op => all \cup mis = 1 .. del
<1>1. /\ Up(processed, inbox_q, wire) /\ Line(EP, EI, EH, EW)
      /\ Taken(All, misread, open, delivered)
  BY KeptFacts DEF KeptInLine, AheadD, Kept
<1>2. SUFFICES /\ Up(processed', inbox_q', wire') /\ Line(EP', EI', EH', EW')
               /\ Taken(All', misread', open', delivered')
  <2>1. TypeOK' => (DeliveriesKept' <=> KeptInLine')
    BY KeptFacts, PTL
  <2> QED
    BY <2>1 DEF KeptInLine, AheadD, Kept
<1>3. /\ processed \in Seq(Item) /\ inbox_q \in Seq(Item) /\ wire \in Seq(Item)
      /\ dispatcher.frame \in Item /\ dispatcher'.frame \in Item
      /\ delivered \in Nat /\ misread \subseteq Nat
  BY ItemFacts DEF TypeOK, Item
<1>4. EH = IF dispatcher.frame.type \in D THEN {dispatcher.frame.no} ELSE {}
  BY <1>3, NumbersSingle
<1>5. dispatcher.state # "held" => EH = {}
  BY NoFrameFacts DEF TypeOK, D
<1>6. dispatcher'.state # "held" => EH' = {}
  <2>1. dispatcher'.state # "held" => dispatcher'.frame = NoFrame
    BY DEF TypeOK
  <2> QED
    BY <2>1, NoFrameFacts DEF D
<1> HIDE DEF EP, EI, EH, EW
<1>7. ASSUME UNCHANGED <<processed, inbox_q, wire, misread, delivered>>,
             dispatcher'.frame = dispatcher.frame, open' => open
      PROVE  /\ Up(processed', inbox_q', wire') /\ Line(EP', EI', EH', EW')
             /\ Taken(All', misread', open', delivered')
  <2>1. EP' = EP /\ EI' = EI /\ EH' = EH /\ EW' = EW
    BY <1>7 DEF EP, EI, EH, EW
  <2> QED
    BY <1>1, <1>7, <2>1
<1>8. CASE Answer
  <2>1. PICK t \in {"ok", "bundle", "error"} :
           wire' = Append(wire, [type |-> t, no |-> Head(requests).no])
    BY <1>8 DEF Answer
  <2> DEFINE x == [type |-> t, no |-> Head(requests).no]
  <2>2. x \in Item /\ x.type \notin D /\ wire' = Append(wire, x)
    <3>1. Head(requests) \in Request
      BY <1>8, HeadTailProperties DEF Answer, TypeOK
    <3> QED
      BY <2>1, <3>1 DEF Request, Frame, Item, D
  <2> HIDE DEF x
  <2>3. EW' = EW /\ Ascend(wire', D)
    <3>1. Numbers(Append(wire, x), D) =
             Numbers(wire, D) \cup (IF x.type \in D THEN {x.no} ELSE {})
      BY <1>3, <2>2, NumbersAppend
    <3>2. Ascend(Append(wire, x), D)
      BY <1>1, <1>3, <2>2, NumbersAppend
    <3> QED
      BY <2>2, <3>1, <3>2 DEF EW
  <2>4. UNCHANGED <<processed, inbox_q, dispatcher, misread, delivered, open>>
    BY <1>8 DEF Answer, tasks, history
  <2> QED
    BY <1>1, <2>3, <2>4 DEF EP, EI, EH
<1>9. CASE Deliver
  <2> DEFINE x == [type |-> "deliver", no |-> delivered + 1]
  <2>1. wire' = Append(wire, x) /\ open /\ delivered' = delivered + 1
    BY <1>9 DEF Deliver
  <2>2. x \in Item /\ x.type \in D /\ x.no = delivered + 1
    BY <1>3 DEF Frame, Item, D
  <2>3. \A n \in All : n \in Nat /\ n < delivered + 1
    BY <1>1, <1>3, <2>1
  <2> HIDE DEF x
  <2>4. EW' = EW \cup {delivered + 1} /\ Ascend(wire', D)
    BY <1>1, <1>3, <2>1, <2>2, <2>3, NumbersAppend DEF EW
  <2>5. UNCHANGED <<processed, inbox_q, dispatcher, misread, open>>
    BY <1>9 DEF Deliver, tasks, history
  <2>6. EP' = EP /\ EI' = EI /\ EH' = EH
    BY <2>5 DEF EP, EI, EH
  <2>7. Line(EP', EI', EH', EW')
    BY <1>1, <2>3, <2>4, <2>6
  <2>8. Taken(All', misread', open', delivered')
    <3>1. 1 .. delivered' = (1 .. delivered) \cup {delivered + 1}
      BY <1>3, <2>1
    <3>2. delivered + 1 \notin misread
      BY <1>1, <1>3, <2>1
    <3> QED
      BY <1>1, <2>1, <2>4, <2>5, <2>6, <3>1, <3>2
  <2> QED
    BY <1>1, <2>4, <2>5, <2>7, <2>8
<1>10. CASE Break
  <2>1. PICK n \in 0 .. Len(wire) : wire' = SubSeq(wire, 1, n)
    BY <1>10 DEF Break
  <2>2. EW' \subseteq EW /\ Ascend(wire', D)
    BY <1>1, <1>3, <2>1, NumbersPrefix DEF EW
  <2>3. UNCHANGED <<processed, inbox_q, dispatcher, misread>> /\ ~ open'
    BY <1>10 DEF Break, tasks, history
  <2> QED
    BY <1>1, <2>2, <2>3 DEF EP, EI, EH
<1>11. CASE Receive
  <2>1. /\ wire # << >> /\ wire' = Tail(wire) /\ dispatcher'.frame = Head(wire)
        /\ EH = {}
    BY <1>5, <1>11 DEF Receive, Read
  <2>2. EH' = IF Head(wire).type \in D THEN {Head(wire).no} ELSE {}
    BY <1>3, <2>1, NumbersSingle DEF EH
  <2>3. /\ EW = EH' \cup EW' /\ Ascend(wire', D) /\ Less(EH', EW')
    BY <1>1, <1>3, <2>1, <2>2, NumbersTail DEF EW
  <2>4. UNCHANGED <<processed, inbox_q, misread, delivered, open>>
    BY <1>11 DEF Receive, history
  <2> QED
    BY <1>1, <2>1, <2>3, <2>4 DEF EP, EI
<1>12. CASE Dispatch
  <2>1. UNCHANGED <<processed, wire, misread, delivered, open>> /\ EH' = {}
    BY <1>6, <1>12 DEF Dispatch, MakeDispatcher, history
  <2>2. CASE dispatcher.frame.type = "deliver"
    <3>1. inbox_q' = Append(inbox_q, dispatcher.frame)
      BY <1>12, <2>2 DEF Dispatch, Route
    <3>2. EI' = EI \cup EH /\ Ascend(inbox_q', D)
      BY <1>1, <1>3, <1>4, <3>1, NumbersAppend DEF EI
    <3> QED
      BY <1>1, <2>1, <3>2 DEF EP, EW
  <2>3. CASE dispatcher.frame.type # "deliver"
    <3>1. inbox_q' = inbox_q /\ EH = {}
      BY <1>4, <1>12, <2>3 DEF Dispatch, Route, D
    <3> QED
      BY <1>1, <2>1, <3>1 DEF EP, EI, EW
  <2> QED
    BY <2>2, <2>3
<1>13. CASE Show
  <2>1. /\ inbox_q # << >> /\ inbox_q' = Tail(inbox_q)
        /\ processed' = Append(processed, Head(inbox_q))
        /\ UNCHANGED <<wire, dispatcher, misread, delivered, open>>
    BY <1>13 DEF Show
  <2> DEFINE h == Head(inbox_q)
             X == IF h.type \in D THEN {h.no} ELSE {}
  <2>2. /\ h \in Item /\ EI = X \cup EI' /\ Ascend(inbox_q', D) /\ Less(X, EI')
    BY <1>1, <1>3, <2>1, NumbersTail DEF EI
  <2> HIDE DEF h
  <2>3. h.type \in D => \A n \in EP : n < h.no
    BY <1>1, <2>2
  <2>4. EP' = EP \cup X /\ Ascend(processed', D)
    BY <1>1, <1>3, <2>1, <2>2, <2>3, NumbersAppend DEF h, EP
  <2>5. EH' = EH /\ EW' = EW
    BY <2>1 DEF EH, EW
  <2> HIDE DEF X
  <2> QED
    BY <1>1, <2>1, <2>2, <2>4, <2>5
<1>14. CASE Type \/ EndDispatcher
  BY <1>7, <1>14 DEF Type, EndDispatcher, Cancelled, TypeOK, history
<1>15. CASE GotAck \/ AckTimeout
  BY <1>7, <1>15 DEF GotAck, AckTimeout
<1>16. CASE UNCHANGED vars
  BY <1>7, <1>16 DEF vars, tasks, history
<1>17. CASE Quit
  <2>1. UNCHANGED <<processed, inbox_q, wire, misread>> /\ ~ open' /\ EH' = {}
    BY <1>6, <1>17 DEF Quit, MakeDispatcher, history
  <2> QED
    BY <1>1, <2>1 DEF EP, EI, EW
<1>18. CASE Initiate
  <2>1. UNCHANGED <<processed, inbox_q, wire, misread, delivered, open>>
    BY <1>18 DEF Initiate, history
  <2>2. EH = {} /\ EH' = {}
    BY <1>5, <1>6, <1>18 DEF Initiate, MakeDispatcher
  <2> QED
    BY <1>1, <2>1, <2>2 DEF EP, EI, EW
<1>19. CASE GotBundle
  <2>1. /\ wire # << >> /\ wire' = Tail(wire) /\ Head(wire).type \notin D
        /\ UNCHANGED <<processed, inbox_q, misread, delivered, open>>
    BY <1>19 DEF GotBundle, Read, D
  <2>2. EH = {} /\ EH' = {}
    BY <1>5, <1>6, <1>19 DEF GotBundle, MakeDispatcher, OneReceiver
  <2>3. EW' = EW /\ Ascend(wire', D)
    <3>1. /\ Numbers(wire, D) = (IF Head(wire).type \in D THEN {Head(wire).no} ELSE {})
                                   \cup Numbers(Tail(wire), D)
          /\ Ascend(Tail(wire), D)
      BY <1>1, <1>3, <2>1, NumbersTail
    <3> QED
      BY <2>1, <3>1 DEF EW
  <2> QED
    BY <1>1, <2>1, <2>2, <2>3 DEF EP, EI
<1>20. CASE RpcFailed
  <2>1. UNCHANGED <<processed, inbox_q, delivered, open>>
    BY <1>20 DEF RpcFailed
  <2>2. EH = {} /\ EH' = {}
    BY <1>5, <1>6, <1>20 DEF RpcFailed, MakeDispatcher, OneReceiver
  <2>3. CASE wire = << >>
    <3>1. UNCHANGED <<wire, misread>>
      BY <1>20, <2>3 DEF RpcFailed
    <3> QED
      BY <1>1, <2>1, <2>2, <3>1 DEF EP, EI, EW
  <2>4. CASE wire # << >>
    <3> DEFINE X == IF Head(wire).type \in D THEN {Head(wire).no} ELSE {}
    <3>1. wire' = Tail(wire) /\ misread' = misread \cup X
      BY <1>20, <2>4 DEF RpcFailed, Read, D
    <3>2. EW = X \cup EW' /\ Ascend(wire', D) /\ Less(X, EW') /\ X \subseteq Nat
      BY <1>1, <1>3, <2>4, <3>1, NumbersTail, ItemFacts DEF EW
    <3> HIDE DEF X
    <3>3. EP' = EP /\ EI' = EI
      BY <2>1 DEF EP, EI
    <3>4. X \cap EW' = {} /\ X \cap EP = {} /\ X \cap EI = {}
      <4>1. \A m \in X : m \notin EW' /\ m \notin EP /\ m \notin EI
        <5>1. SUFFICES ASSUME NEW m \in X, m \in EW' \/ m \in EP \/ m \in EI
                       PROVE  m < m
          BY <3>2
        <5> QED
          BY <1>1, <3>2, <5>1
      <4> QED
        BY <4>1
    <3> QED
      BY <1>1, <2>1, <2>2, <3>1, <3>2, <3>3, <3>4
  <2> QED
    BY <2>3, <2>4
<1> QED
  BY <1>8, <1>9, <1>10, <1>11, <1>12, <1>13, <1>14, <1>15, <1>16, <1>17, <1>18,
     <1>19, <1>20 DEF Next, Dispatcher, Main

(* At the start nothing is on its way. *)
LEMMA DeliveriesInit == Init => DeliveriesKept
<1> SUFFICES ASSUME Init PROVE DeliveriesKept
  OBVIOUS
<1>1. TypeOK
  BY TypeInit
<1>2. Numbers(<< >>, D) = {} /\ Ascend(<< >>, D)
  BY DEF Numbers, Ascend
<1>3. Numbers(wire, D) = {} /\ Ascend(wire, D)
  <2> DEFINE f == [type |-> "messages", no |-> 0]
  <2>1. f \in Item /\ f.type \notin D
    BY DEF Item, Frame, D
  <2> HIDE DEF f
  <2>2. Numbers(<<f>>, D) = {} /\ Ascend(<<f>>, D)
    BY <2>1, NumbersSingle
  <2>3. wire = << >> \/ wire = <<f>>
    BY DEF Init, f
  <2> QED
    BY <1>2, <2>2, <2>3
<1>4. /\ processed = << >> /\ inbox_q = << >> /\ dispatcher.frame = NoFrame
      /\ misread = {} /\ delivered = 0
  BY DEF Init, MakeDispatcher
<1>5. Numbers(<<dispatcher.frame>>, D) = {}
  BY <1>4, NoFrameFacts DEF D
<1> QED
  BY <1>1, <1>2, <1>3, <1>4, <1>5, KeptFacts DEF KeptInLine, Kept, AheadD

(* However often the dispatcher is cancelled and made anew, and whichever  *)
(* task reads them, envelopes reach the printer once and in the order of   *)
(* their delivery; while the connection holds only an rpc has taken one.   *)
THEOREM DeliveriesNotLost == Spec => []DeliveriesKept
<1>1. Init => OneReceiver
  BY DEF Init, OneReceiver
<1> QED
  BY <1>1, TypeInit, TypeStep, OneReceiverStep, DeliveriesInit, DeliveriesStep, PTL DEF Spec

-----------------------------------------------------------------------------
(* Replies. *)

R == {"ok", "bundle", "error", "messages", "get_bundle", "send"}

(* The requests that are with the relay, and those whose reply no wait of  *)
(* the main loop has taken.                                                *)
Underway == Numbers(ack_q, R) \cup Numbers(<<dispatcher.frame>>, R)
               \cup Numbers(wire, R) \cup Numbers(requests, R)

AheadR(s, t) == \A m \in Numbers(s, R), n \in Numbers(t, R) : m < n

(* Replies come in the order of their requests.  As long as no wait has    *)
(* left a reply behind, only that for which the main loop waits is under   *)
(* way; an rpc starts with no reply left over in the queue.                *)
RepliesInLine ==
    /\ Ascend(ack_q, R) /\ Ascend(wire, R) /\ Ascend(requests, R)
    /\ AheadR(ack_q, <<dispatcher.frame>>) /\ AheadR(ack_q, wire)
    /\ AheadR(ack_q, requests) /\ AheadR(<<dispatcher.frame>>, wire)
    /\ AheadR(<<dispatcher.frame>>, requests) /\ AheadR(wire, requests)

OneUnderway ==
    /\ \A n \in Underway : n <= asked
    /\ main.pc \in {"rpc", "ack"} => main.no = asked
    /\ \A i \in DOMAIN ack_q : ack_q[i].type \in R
    /\ open \/ requests = << >>
    /\ slips = 0 => /\ \A n \in Underway : n = asked /\ main.pc \in {"rpc", "ack"}
                    /\ main.pc = "rpc" => ack_q = << >>

AckInv == RepliesInLine /\ OneUnderway /\ AcksInStep

(* The request that is made is the last, and all others are answered first.*)
LEMMA AskNumbers ==
    ASSUME TypeOK, NEW type \in {"get_bundle", "send"}, NEW pc, Ask(type, pc),
           Ascend(requests, R), \A n \in Numbers(requests, R) : n <= asked
    PROVE  \/ /\ open /\ asked' = asked + 1
              /\ Numbers(requests', R) = Numbers(requests, R) \cup {asked + 1}
              /\ Ascend(requests', R)
              /\ main'.pc = pc /\ main'.no = asked'
           \/ /\ ~ open /\ asked' = asked /\ requests' = requests
              /\ main'.pc = "prompt" /\ main'.no = main.no
<1>1. CASE open
  <2> DEFINE x == [type |-> type, no |-> asked + 1]
  <2>1. /\ asked' = asked + 1 /\ requests' = Append(requests, x)
        /\ main' = [pc |-> pc, no |-> asked'] /\ asked \in Nat
    BY <1>1 DEF Ask, TypeOK
  <2>2. x \in Item /\ x.type \in R /\ x.no = asked + 1 /\ requests \in Seq(Item)
    BY <2>1, ItemFacts DEF Item, Request, R, TypeOK
  <2> HIDE DEF x
  <2>3. Numbers(Append(requests, x), R) =
           Numbers(requests, R) \cup (IF x.type \in R THEN {x.no} ELSE {})
    BY <2>2, NumbersAppend
  <2>4. \A n \in Numbers(requests, R) : n \in Nat /\ n < x.no
    <3>1. \A n \in Numbers(requests, R) : n \in Nat
      BY <2>2, ItemFacts DEF Numbers
    <3> QED
      BY <2>1, <2>2, <3>1
  <2>5. Ascend(Append(requests, x), R)
    BY <2>2, <2>4, NumbersAppend
  <2> QED
    BY <1>1, <2>1, <2>2, <2>3, <2>5
<1>2. CASE ~ open
  BY <1>2 DEF Ask, Prompt, TypeOK
<1> QED
  BY <1>1, <1>2

(* However replies, deliveries and the tasks interleave, no reply passes   *)
(* another, and none is left over.                                         *)
LEMMA AcksStep ==
    TypeOK /\ TypeOK' /\ OneReceiver /\ AckInv /\ [Next]_vars => AckInv'
<1> SUFFICES ASSUME TypeOK, TypeOK', OneReceiver, AckInv, [Next]_vars
             PROVE  AckInv'
  OBVIOUS
<1> DEFINE EA == Numbers(ack_q, R)
           EH == Numbers(<<dispatcher.frame>>, R)
           EW == Numbers(wire, R)
           EQ == Numbers(requests, R)
           All == EA \cup EH \cup EW \cup EQ
           Less(A, B) == \A m \in A, n \in B : m < n
           Line(A, B, C, E) == /\ Less(A, B) /\ Less(A, C) /\ Less(A, E)
                               /\ Less(B, C) /\ Less(B, E) /\ Less(C, E)
           Up(a, w, q) == Ascend(a, R) /\ Ascend(w, R) /\ Ascend(q, R)
           One(all, no) == \A n \in all : n = no
           Goal == /\ Up(ack_q', wire', requests') /\ Line(EA', EH', EW', EQ')
                   /\ \A n \in All' : n <= asked'
                   /\ main'.pc \in {"rpc", "ack"} => main'.no = asked'
                   /\ \A i \in DOMAIN ack_q' : ack_q'[i].type \in R
                   /\ open' \/ requests' = << >>
                   /\ slips' = 0 /\ All' # {} => main'.pc \in {"rpc", "ack"}
                   /\ slips' = 0 => One(All', asked')
                   /\ slips' = 0 /\ main'.pc = "rpc" => ack_q' = << >>
                   /\ AcksInStep'
<1>1. /\ Up(ack_q, wire, requests) /\ Line(EA, EH, EW, EQ)
      /\ \A n \in All : n <= asked
      /\ main.pc \in {"rpc", "ack"} => main.no = asked
      /\ \A i \in DOMAIN ack_q : ack_q[i].type \in R
      /\ open \/ requests = << >>
      /\ slips = 0 /\ All # {} => main.pc \in {"rpc", "ack"}
      /\ slips = 0 => One(All, asked)
      /\ slips = 0 /\ main.pc = "rpc" => ack_q = << >>
      /\ AcksInStep
  BY DEF AckInv, RepliesInLine, OneUnderway, AheadR, Underway
<1>2. SUFFICES Goal
  BY DEF AckInv, RepliesInLine, OneUnderway, AheadR, Underway
<1>3. /\ ack_q \in Seq(Item) /\ wire \in Seq(Item) /\ requests \in Seq(Item)
      /\ dispatcher.frame \in Item /\ dispatcher'.frame \in Item
      /\ asked \in Nat /\ slips \in Nat
  BY ItemFacts DEF TypeOK, Item
<1>4. EH = IF dispatcher.frame.type \in R THEN {dispatcher.frame.no} ELSE {}
  BY <1>3, NumbersSingle
<1>5. dispatcher.state # "held" => EH = {}
  <2>1. dispatcher.state # "held" => dispatcher.frame = NoFrame
    BY DEF TypeOK
  <2> QED
    BY <2>1, NoFrameFacts DEF R
<1>6. dispatcher'.state # "held" => EH' = {}
  <2>1. dispatcher'.state # "held" => dispatcher'.frame = NoFrame
    BY DEF TypeOK
  <2> QED
    BY <2>1, NoFrameFacts DEF R
<1>7. \A n \in All : n \in Nat
  BY <1>3, ItemFacts, NumbersSingle DEF Numbers
<1>8. Numbers(<< >>, R) = {} /\ Ascend(<< >>, R)
  BY DEF Numbers, Ascend
<1> HIDE DEF EA, EH, EW, EQ
<1>9. ASSUME UNCHANGED <<ack_q, wire, requests, asked, slips, acks, open>>,
             dispatcher'.frame = dispatcher.frame,
             \/ main' = main
             \/ main'.pc \notin {"rpc", "ack"} /\ main.pc \notin {"rpc", "ack"}
      PROVE  Goal
  <2>1. EA' = EA /\ EW' = EW /\ EQ' = EQ /\ EH' = EH
    BY <1>9 DEF EA, EW, EQ, EH
  <2>2. AcksInStep'
    BY <1>1, <1>9 DEF AcksInStep
  <2> QED
    BY <1>1, <1>9, <2>1, <2>2
(* What the relay and the dispatcher do: replies move on. *)
<1>10. CASE Answer
  <2>1. PICK t \in {"ok", "bundle", "error"} :
           wire' = Append(wire, [type |-> t, no |-> Head(requests).no])
    BY <1>10 DEF Answer
  <2> DEFINE x == [type |-> t, no |-> Head(requests).no]
             n == Head(requests).no
  <2>2. /\ requests # << >> /\ requests' = Tail(requests)
        /\ UNCHANGED <<ack_q, dispatcher, main, asked, slips, acks, open>>
    BY <1>10 DEF Answer, tasks, history
  <2>3. /\ Head(requests) \in Request /\ Head(requests).type \in R /\ n \in Nat
        /\ x \in Item /\ x.type \in R /\ x.no = n /\ wire' = Append(wire, x)
    <3>1. Head(requests) \in Request
      BY <2>2, HeadTailProperties DEF TypeOK
    <3> QED
      BY <2>1, <3>1 DEF Request, Frame, Item, R
  <2>4. EQ = {n} \cup EQ' /\ Ascend(requests', R) /\ Less({n}, EQ')
    <3>1. /\ Numbers(requests, R) = (IF Head(requests).type \in R THEN {n} ELSE {})
                                       \cup Numbers(Tail(requests), R)
          /\ Ascend(Tail(requests), R) /\ \A m \in Numbers(Tail(requests), R) : n < m
      BY <1>1, <1>3, <2>2, <2>3, NumbersTail
    <3> QED
      BY <2>2, <2>3, <3>1 DEF EQ
  <2> HIDE DEF x, n
  <2>5. EW' = EW \cup {n} /\ Ascend(wire', R)
    <3>1. Numbers(Append(wire, x), R) = Numbers(wire, R) \cup (IF x.type \in R THEN {x.no} ELSE {})
      BY <1>3, <2>3, NumbersAppend
    <3>2. \A m \in Numbers(wire, R) : m < n
      BY <1>1, <2>4 DEF EW
    <3>3. Ascend(Append(wire, x), R)
      BY <1>1, <1>3, <2>3, <3>2, NumbersAppend
    <3> QED
      BY <2>3, <3>1, <3>3 DEF EW
  <2>6. EA' = EA /\ EH' = EH /\ All' = All
    BY <2>2, <2>4, <2>5 DEF EA, EH
  <2>7. Line(EA', EH', EW', EQ')
    BY <1>1, <2>4, <2>5, <2>6
  <2>8. open /\ AcksInStep'
    BY <1>1, <1>10, <2>2 DEF Answer, AcksInStep
  <2> QED
    BY <1>1, <2>2, <2>4, <2>5, <2>6, <2>7, <2>8
<1>11. CASE Deliver
  <2> DEFINE x == [type |-> "deliver", no |-> delivered + 1]
  <2>1. /\ wire' = Append(wire, x)
        /\ UNCHANGED <<ack_q, dispatcher, main, requests, asked, slips, acks, open>>
    BY <1>11 DEF Deliver, tasks, history
  <2>2. x \in Item /\ x.type \notin R
    <3>1. delivered + 1 \in Nat
      BY DEF TypeOK
    <3> QED
      BY <3>1 DEF Frame, Item, R
  <2> HIDE DEF x
  <2>3. EW' = EW /\ Ascend(wire', R)
    <3>1. Numbers(Append(wire, x), R) = Numbers(wire, R) \cup (IF x.type \in R THEN {x.no} ELSE {})
      BY <1>3, <2>2, NumbersAppend
    <3>2. Ascend(Append(wire, x), R)
      BY <1>1, <1>3, <2>2, NumbersAppend
    <3> QED
      BY <2>1, <2>2, <3>1, <3>2 DEF EW
  <2>4. EA' = EA /\ EH' = EH /\ EQ' = EQ /\ AcksInStep'
    BY <1>1, <2>1 DEF EA, EH, EQ, AcksInStep
  <2> QED
    BY <1>1, <2>1, <2>3, <2>4
<1>12. CASE Break
  <2>1. PICK n \in 0 .. Len(wire) : wire' = SubSeq(wire, 1, n)
    BY <1>12 DEF Break
  <2>2. EW' \subseteq EW /\ Ascend(wire', R)
    BY <1>1, <1>3, <2>1, NumbersPrefix DEF EW
  <2>3. /\ UNCHANGED <<ack_q, dispatcher, main, asked, slips, acks>>
        /\ requests' = << >>
    BY <1>12 DEF Break, tasks, history
  <2>4. EA' = EA /\ EH' = EH /\ EQ' = {} /\ Ascend(requests', R) /\ AcksInStep'
    BY <1>1, <1>8, <2>3 DEF EA, EH, EQ, AcksInStep
  <2> QED
    BY <1>1, <2>2, <2>3, <2>4
<1>13. CASE Receive
  <2>1. /\ wire # << >> /\ wire' = Tail(wire) /\ dispatcher'.frame = Head(wire)
        /\ EH = {}
        /\ UNCHANGED <<ack_q, main, requests, asked, slips, acks, open>>
    BY <1>5, <1>13 DEF Receive, Read, history
  <2>2. EH' = IF Head(wire).type \in R THEN {Head(wire).no} ELSE {}
    BY <1>3, <2>1, NumbersSingle DEF EH
  <2>3. /\ EW = EH' \cup EW' /\ Ascend(wire', R) /\ Less(EH', EW')
    BY <1>1, <1>3, <2>1, <2>2, NumbersTail DEF EW
  <2>4. EA' = EA /\ EQ' = EQ /\ AcksInStep'
    BY <1>1, <2>1 DEF EA, EQ, AcksInStep
  <2>5. All' = All /\ Line(EA', EH', EW', EQ')
    BY <1>1, <2>1, <2>3, <2>4
  <2> QED
    BY <1>1, <2>1, <2>3, <2>4, <2>5
<1>14. CASE Dispatch
  <2>1. /\ UNCHANGED <<wire, main, requests, asked, slips, acks, open>>
        /\ EH' = {} /\ main.pc # "rpc" /\ dispatcher.frame \in Frame
    BY <1>6, <1>14 DEF Dispatch, MakeDispatcher, OneReceiver, TypeOK, history
  <2>2. EW' = EW /\ EQ' = EQ /\ AcksInStep'
    BY <1>1, <2>1 DEF EW, EQ, AcksInStep
  <2>3. CASE dispatcher.frame.type = "deliver"
    <3>1. ack_q' = ack_q /\ EH = {}
      BY <1>4, <1>14, <2>3 DEF Dispatch, Route, R
    <3>2. EA' = EA
      BY <3>1 DEF EA
    <3> QED
      BY <1>1, <2>1, <2>2, <3>1, <3>2
  <2>4. CASE dispatcher.frame.type # "deliver"
    <3> DEFINE f == dispatcher.frame
    <3>1. ack_q' = Append(ack_q, f)
      BY <1>14, <2>4 DEF Dispatch, Route
    <3>2. f.type \in R /\ EH = {f.no}
      BY <1>4, <2>1, <2>4 DEF Frame, R
    <3>3. EA' = EA \cup EH /\ Ascend(ack_q', R)
      BY <1>1, <1>3, <3>1, <3>2, NumbersAppend DEF EA
    <3>4. \A i \in DOMAIN ack_q' : ack_q'[i].type \in R
      BY <1>1, <1>3, <3>1, <3>2, AppendProperties, LenProperties
    <3>5. Line(EA', EH', EW', EQ') /\ All' = All
      BY <1>1, <2>1, <2>2, <3>3
    <3> QED
      BY <1>1, <2>1, <2>2, <3>3, <3>4, <3>5
  <2> QED
    BY <2>3, <2>4
<1>15. CASE EndDispatcher \/ Show
  BY <1>9, <1>15 DEF EndDispatcher, Show, history, TypeOK
<1>16. CASE UNCHANGED vars
  BY <1>9, <1>16 DEF vars, tasks, history
(* What the main loop does. *)
<1>17. ASSUME NEW type \in {"get_bundle", "send"}, NEW pc \in {"rpc", "ack"}, Ask(type, pc),
              Up(ack_q', wire', requests), Line(EA', EH', EW', EQ),
              \A n \in EA' \cup EH' \cup EW' \cup EQ : n \in Nat /\ n <= asked,
              \A i \in DOMAIN ack_q' : ack_q'[i].type \in R,
              slips' = 0 => EA' \cup EH' \cup EW' \cup EQ = {},
              slips' = 0 => ack_q' = << >>,
              UNCHANGED <<open, acks>>
       PROVE  Goal
  <2>1. \/ /\ open /\ asked' = asked + 1 /\ EQ' = EQ \cup {asked + 1}
           /\ Ascend(requests', R) /\ main'.pc = pc /\ main'.no = asked'
        \/ /\ ~ open /\ asked' = asked /\ requests' = requests
           /\ main'.pc = "prompt"
    BY <1>17, AskNumbers DEF EQ
  <2>2. AcksInStep'
    BY <1>1, <1>17 DEF AcksInStep
  <2>3. CASE ~ open /\ asked' = asked /\ requests' = requests /\ main'.pc = "prompt"
    <3>1. EQ' = EQ
      BY <2>3 DEF EQ
    <3> QED
      BY <1>1, <1>17, <2>2, <2>3, <3>1
  <2>4. CASE /\ open /\ asked' = asked + 1 /\ EQ' = EQ \cup {asked + 1}
             /\ Ascend(requests', R) /\ main'.pc = pc /\ main'.no = asked'
    <3>1. \A n \in EA' \cup EH' \cup EW' \cup EQ : n < asked + 1
      BY <1>3, <1>17
    <3>2. Line(EA', EH', EW', EQ')
      BY <1>17, <2>4, <3>1
    <3>3. \A n \in All' : n <= asked'
      BY <1>3, <1>17, <2>4
    <3>4. slips' = 0 => One(All', asked')
      BY <1>17, <2>4
    <3> QED
      BY <1>17, <2>2, <2>4, <3>2, <3>3, <3>4
  <2> QED
    BY <2>1, <2>3, <2>4
<1>18. EA = {} => ack_q = << >>
  <2>1. SUFFICES ASSUME ack_q # << >> PROVE EA # {}
    OBVIOUS
  <2>2. 1 \in DOMAIN ack_q
    BY <1>3, <2>1, EmptySeq, LenProperties
  <2> QED
    BY <1>1, <2>2 DEF EA, Numbers
<1>19. CASE Type /\ session
  <2>1. /\ main.pc = "prompt" /\ Ask("send", "ack")
        /\ UNCHANGED <<open, wire, ack_q, dispatcher, acks, slips>>
    BY <1>19 DEF Type
  <2>2. EA' = EA /\ EH' = EH /\ EW' = EW
    BY <2>1 DEF EA, EH, EW
  <2> QED
    BY <1>1, <1>7, <1>17, <1>18, <2>1, <2>2
<1>20. CASE Type /\ ~ session
  BY <1>9, <1>20 DEF Type, Cancelled, TypeOK
<1>21. CASE Quit
  <2>1. /\ UNCHANGED <<ack_q, wire, asked, slips, acks>> /\ EH' = {}
        /\ requests' = << >> /\ main.pc = "prompt" /\ main'.pc = "quit"
    BY <1>6, <1>21 DEF Quit, MakeDispatcher, TypeOK, history
  <2>2. EA' = EA /\ EW' = EW /\ EQ' = {} /\ Ascend(requests', R) /\ AcksInStep'
    BY <1>1, <1>8, <2>1 DEF EA, EW, EQ, AcksInStep
  <2> QED
    BY <1>1, <2>1, <2>2
<1>22. CASE Initiate
  <2>1. /\ main.pc = "cancel" /\ Ask("get_bundle", "rpc")
        /\ UNCHANGED <<open, wire, ack_q, acks, slips>>
        /\ EH = {} /\ EH' = {}
    BY <1>5, <1>6, <1>22 DEF Initiate, MakeDispatcher, history
  <2>2. EA' = EA /\ EW' = EW
    BY <2>1 DEF EA, EW
  <2> QED
    BY <1>1, <1>7, <1>17, <1>18, <2>1, <2>2
(* A wait takes the first of its frames. *)
<1>23. ASSUME wire # << >>, wire' = Tail(wire), Head(wire).type \in R, EH = {}
       PROVE  /\ EW = {Head(wire).no} \cup EW' /\ Ascend(wire', R)
              /\ \A m \in EW' : Head(wire).no < m
              /\ slips = 0 => /\ EA = {} /\ EW' = {} /\ EQ = {}
                              /\ Head(wire).no = asked
  <2>1. EW = {Head(wire).no} \cup EW' /\ Ascend(wire', R) /\ \A m \in EW' : Head(wire).no < m
    BY <1>1, <1>3, <1>23, NumbersTail DEF EW
  <2>2. ASSUME slips = 0 PROVE EA = {} /\ EW' = {} /\ EQ = {} /\ Head(wire).no = asked
    <3>1. Head(wire).no = asked /\ \A n \in EA \cup EW' \cup EQ : n = asked
      BY <1>1, <2>1, <2>2
    <3>2. \A n \in EA : n < Head(wire).no
      BY <1>1, <2>1
    <3>3. \A n \in EW' \cup EQ : Head(wire).no < n
      BY <1>1, <2>1
    <3> QED
      BY <1>3, <3>1, <3>2, <3>3
  <2> QED
    BY <2>1, <2>2
<1>24. CASE GotBundle
  <2>1. /\ main.pc = "rpc" /\ wire # << >> /\ wire' = Tail(wire) /\ Head(wire).type \in R
        /\ Ask("send", "ack") /\ slips' \in {slips, slips + 1}
        /\ UNCHANGED <<open, ack_q, acks>>
        /\ EH = {} /\ EH' = {}
    BY <1>5, <1>6, <1>24 DEF GotBundle, Read, MakeDispatcher, OneReceiver, R
  <2>2. EA' = EA /\ (slips' = 0 => slips = 0)
    BY <1>3, <2>1 DEF EA
  <2> QED
    BY <1>1, <1>7, <1>17, <1>18, <1>23, <2>1, <2>2
<1>25. CASE RpcFailed
  <2>1. /\ main.pc = "rpc" /\ main'.pc = "prompt"
        /\ UNCHANGED <<open, requests, ack_q, asked, acks>>
        /\ EH = {} /\ EH' = {}
    BY <1>5, <1>6, <1>25 DEF RpcFailed, Prompt, MakeDispatcher, OneReceiver, TypeOK
  <2>2. EA' = EA /\ EQ' = EQ /\ AcksInStep'
    BY <1>1, <2>1 DEF EA, EQ, AcksInStep
  <2>3. CASE wire = << >>
    <3>1. UNCHANGED <<wire, slips>> /\ ~ open
      BY <1>25, <2>3 DEF RpcFailed
    <3>2. EW = {} /\ EQ = {} /\ EW' = {}
      BY <1>1, <1>8, <2>3, <3>1 DEF EW, EQ
    <3>3. slips' = 0 => EA = {}
      BY <1>1, <1>8, <2>1, <3>1 DEF EA
    <3> QED
      BY <1>1, <2>1, <2>2, <3>1, <3>2, <3>3
  <2>4. CASE wire # << >> /\ Head(wire).type \in R
    <3>1. wire' = Tail(wire) /\ slips' \in {slips, slips + 1}
      BY <1>25, <2>4 DEF RpcFailed, Read
    <3>2. /\ EW = {Head(wire).no} \cup EW' /\ Ascend(wire', R)
          /\ slips = 0 => EA = {} /\ EW' = {} /\ EQ = {}
      BY <1>23, <2>1, <2>4, <3>1
    <3>3. slips' = 0 => slips = 0
      BY <1>3, <3>1
    <3> QED
      BY <1>1, <2>1, <2>2, <3>2, <3>3
  <2>5. CASE wire # << >> /\ Head(wire).type \notin R
    <3>1. wire' = Tail(wire) /\ slips' = slips + 1
      BY <1>25, <2>5 DEF RpcFailed, Read, R
    <3>2. EW' \subseteq EW /\ Ascend(wire', R)
      BY <1>1, <1>3, <2>5, <3>1, NumbersTail DEF EW
    <3>3. slips' # 0
      BY <1>3, <3>1
    <3> QED
      BY <1>1, <2>1, <2>2, <3>2, <3>3
  <2> QED
    BY <2>3, <2>4, <2>5
<1>26. CASE GotAck
  <2> DEFINE n == Head(ack_q).no
  <2>1. /\ main.pc = "ack" /\ main'.pc = "prompt" /\ ack_q # << >> /\ ack_q' = Tail(ack_q)
        /\ acks' = Append(acks, [sent |-> main.no, got |-> n, slips |-> slips])
        /\ UNCHANGED <<open, wire, requests, dispatcher, asked, slips>>
    BY <1>26 DEF GotAck, Prompt, TypeOK
  <2>2. /\ Head(ack_q) = ack_q[1] /\ 1 \in DOMAIN ack_q /\ Head(ack_q).type \in R
    BY <1>1, <1>3, <2>1, HeadTailProperties, EmptySeq, LenProperties
  <2>3. EA = {n} \cup EA' /\ Ascend(ack_q', R) /\ \A m \in EA' : n < m
    <3>1. /\ Numbers(ack_q, R) = (IF Head(ack_q).type \in R THEN {n} ELSE {})
                                    \cup Numbers(Tail(ack_q), R)
          /\ Ascend(Tail(ack_q), R) /\ \A m \in Numbers(Tail(ack_q), R) : n < m
      BY <1>1, <1>3, <2>1, <2>2, NumbersTail
    <3> QED
      BY <2>1, <2>2, <3>1 DEF EA
  <2>4. EW' = EW /\ EQ' = EQ /\ EH' = EH
    BY <2>1 DEF EW, EQ, EH
  <2>5. \A i \in DOMAIN ack_q' : ack_q'[i].type \in R
    <3>1. \A i \in DOMAIN Tail(ack_q) : i + 1 \in DOMAIN ack_q /\ Tail(ack_q)[i] = ack_q[i + 1]
      BY <1>3, <2>1, HeadTailProperties, EmptySeq, LenProperties
    <3> QED
      BY <1>1, <2>1, <3>1
  <2> HIDE DEF n
  <2>6. n \in Nat /\ n <= main.no /\ (slips = 0 => n = main.no)
    BY <1>1, <1>7, <2>1, <2>3
  <2>7. slips = 0 => All' = {}
    <3>1. ASSUME slips = 0, NEW m \in All' PROVE FALSE
      <4>1. m = asked /\ n = asked
        BY <1>1, <2>3, <2>4, <3>1
      <4>2. n < m
        BY <1>1, <2>3, <2>4, <3>1
      <4> QED
        BY <1>3, <4>1, <4>2
    <3> QED
      BY <3>1
  <2>8. AcksInStep'
    <3> DEFINE a == [sent |-> main.no, got |-> n, slips |-> slips]
               S == [sent : Nat, got : Nat, slips : Nat]
    <3>1. acks \in Seq(S) /\ a \in S /\ a.sent = main.no /\ a.got = n /\ a.slips = slips
      BY <1>3, <2>6 DEF TypeOK
    <3> HIDE DEF a, S
    <3>2. /\ DOMAIN acks' = DOMAIN acks \cup {Len(acks) + 1} /\ acks'[Len(acks) + 1] = a
          /\ \A i \in DOMAIN acks : acks'[i] = acks[i]
      BY <2>1, <3>1, AppendProperties, LenProperties DEF a
    <3> QED
      BY <1>1, <2>6, <3>1, <3>2 DEF AcksInStep
  <2> QED
    BY <1>1, <2>1, <2>3, <2>4, <2>5, <2>7, <2>8
<1>27. CASE AckTimeout
  <2>1. /\ main'.pc = "prompt" /\ slips' # 0
        /\ UNCHANGED <<open, wire, requests, dispatcher, ack_q, asked, acks>>
    BY <1>3, <1>27 DEF AckTimeout, Prompt, TypeOK
  <2>2. EA' = EA /\ EW' = EW /\ EQ' = EQ /\ EH' = EH /\ AcksInStep'
    BY <1>1, <2>1 DEF EA, EW, EQ, EH, AcksInStep
  <2> QED
    BY <1>1, <2>1, <2>2
<1> QED
  BY <1>10, <1>11, <1>12, <1>13, <1>14, <1>15, <1>16, <1>19, <1>20, <1>21, <1>22,
     <1>24, <1>25, <1>26, <1>27 DEF Next, Dispatcher, Main

(* At the start no line is sent. *)
LEMMA AcksInit == Init => AckInv
<1> SUFFICES ASSUME Init PROVE AckInv
  OBVIOUS
<1>1. TypeOK
  BY TypeInit
<1>2. Numbers(<< >>, R) = {} /\ Ascend(<< >>, R)
  BY DEF Numbers, Ascend
<1> DEFINE f == [type |-> "messages", no |-> 0]
<1>3. f \in Item /\ f.type \in R /\ f.no = 0
  BY DEF Item, Frame, R
<1>4. /\ ack_q = << >> /\ requests = << >> /\ dispatcher.frame = NoFrame
      /\ asked = 0 /\ acks = << >> /\ main.pc = "prompt" /\ open
      /\ (wire = << >> /\ slips = 0) \/ (wire = <<f>> /\ slips = 1)
  BY DEF Init, MakeDispatcher
<1>5. Numbers(<<dispatcher.frame>>, R) = {}
  BY <1>4, NoFrameFacts DEF R
<1> HIDE DEF f
<1>6. /\ Ascend(wire, R) /\ Numbers(wire, R) \subseteq {0}
      /\ slips = 0 => Numbers(wire, R) = {}
  <2>1. Numbers(<<f>>, R) = {0} /\ Ascend(<<f>>, R)
    BY <1>3, NumbersSingle
  <2> QED
    BY <1>2, <1>4, <2>1
<1>7. RepliesInLine
  BY <1>2, <1>4, <1>5, <1>6 DEF RepliesInLine, AheadR
<1>8. OneUnderway
  BY <1>2, <1>4, <1>5, <1>6 DEF OneUnderway, Underway
<1>9. AcksInStep
  BY <1>4 DEF AcksInStep
<1> QED
  BY <1>7, <1>8, <1>9 DEF AckInv

(* Whatever comes in between, an acknowledgement is that of the message it *)
(* is taken for until a wait leaves a reply behind, and never that of a    *)
(* later one.                                                              *)
THEOREM AcksMatch == Spec => []AcksInStep
<1>1. Init => OneReceiver
  BY DEF Init, OneReceiver
<1>2. AckInv => AcksInStep
  BY DEF AckInv
<1> QED
  BY <1>1, <1>2, TypeInit, TypeStep, OneReceiverStep, AcksInit, AcksStep, PTL DEF Spec
=============================================================================
