-------------------------------- MODULE Chat --------------------------------
(***************************************************************************)
(* The tasks of one chat, _do_chat of client/cli.py after its setup: the   *)
(* main loop, which reads lines and sends them; the dispatcher, which owns *)
(* the connection's recv and routes frames to ack_q and inbox_q; and the   *)
(* printer, which processes what comes through inbox_q.  A task runs to    *)
(* its next await, so an action is what a task does between two awaits.    *)
(*                                                                         *)
(* Of the relay it takes what Relay shows: it answers requests one by one  *)
(* in their order, and writes deliveries in between.  The polling of the   *)
(* dispatcher and the printer (their one-second and half-second timeouts)  *)
(* changes nothing and is left out.                                        *)
(*                                                                         *)
(* Up to Python 3.11, asyncio.wait_for runs recv as a task of its own, and *)
(* ignores a cancellation that comes when that task is done: the frame is  *)
(* "held".  From 3.12 on recv has the frame when the dispatcher runs: the  *)
(* behaviours in which it is not cancelled with a frame held.              *)
(***************************************************************************)
EXTENDS Integers, Sequences, FiniteSets, SequencesExt

CONSTANTS MaxLines,       \* lines typed, a bound of the model
          MaxDeliveries   \* envelopes the relay delivers, a bound of the model

ASSUME ChatAssumption ==
    /\ MaxLines \in Nat
    /\ MaxDeliveries \in Nat

VARIABLES
    open,        \* the connection is open
    requests,    \* requests the relay has not answered yet
    wire,        \* frames written to the connection that no task has read
    session,     \* store.has_session(peer)
    main,        \* the main loop: what it awaits, and for which request
    dispatcher,  \* the dispatcher: its state, and the frame recv has for it
    ack_q, inbox_q,
    asked,       \* requests made so far
    lines,       \* lines typed so far
    delivered,   \* envelopes delivered so far
    processed,   \* history: the envelopes processed, in order
    misread,     \* history: the envelopes an rpc took for its reply
    acks,        \* history: what the main loop took for acknowledgements
    slips,       \* history: waits that left a reply behind
    ignored      \* history: the dispatcher has ignored a cancellation

tasks   == <<main, dispatcher, ack_q, inbox_q>>
history == <<processed, misread, acks, slips, ignored>>
vars    == <<open, requests, wire, session, tasks, asked, lines, delivered,
             history>>

Request == [type : {"get_bundle", "send"}, no : Nat]

(* A reply names the request it answers; request 0 is of the setup.        *)
Frame == [type : {"ok", "bundle", "error", "messages"}, no : Nat]
         \cup [type : {"deliver"}, no : Nat]

NoFrame == [type |-> "none", no |-> 0]

TypeOK ==
    /\ open \in BOOLEAN
    /\ requests \in Seq(Request)
    /\ wire \in Seq(Frame)
    /\ session \in BOOLEAN
    /\ main \in [pc : {"prompt", "cancel", "rpc", "ack", "quit"}, no : Nat]
    /\ dispatcher \in [state : {"recv", "held", "cancelled", "ended"},
                       frame : Frame \cup {NoFrame}]
    /\ dispatcher.state = "held" <=> dispatcher.frame # NoFrame
    /\ ack_q \in Seq(Frame) /\ inbox_q \in Seq(Frame)
    /\ {asked, lines, delivered, slips} \subseteq Nat
    /\ processed \in Seq(Frame)
    /\ misread \subseteq Nat
    /\ acks \in Seq([sent : Nat, got : Nat, slips : Nat])
    /\ ignored \in BOOLEAN

MakeDispatcher == [state |-> "recv", frame |-> NoFrame]

(* The setup may have left its fetch unanswered, a delivery having been    *)
(* taken for the reply.                                                    *)
Init ==
    /\ open = TRUE
    /\ requests = << >>
    /\ \/ wire = << >> /\ slips = 0
       \/ wire = <<[type |-> "messages", no |-> 0]>> /\ slips = 1
    /\ session \in BOOLEAN
    /\ main = [pc |-> "prompt", no |-> 0]
    /\ dispatcher = MakeDispatcher
    /\ ack_q = << >> /\ inbox_q = << >>
    /\ asked = 0 /\ lines = 0 /\ delivered = 0
    /\ processed = << >> /\ misread = {} /\ acks = << >> /\ ignored = FALSE

-----------------------------------------------------------------------------
(* The relay. *)

Answer ==
    /\ open
    /\ requests # << >>
    /\ \E t \in IF Head(requests).type = "send" THEN {"ok"} ELSE {"bundle", "error"} :
          wire' = Append(wire, [type |-> t, no |-> Head(requests).no])
    /\ requests' = Tail(requests)
    /\ UNCHANGED <<open, session, tasks, asked, lines, delivered, history>>

Deliver ==
    /\ open
    /\ delivered < MaxDeliveries
    /\ delivered' = delivered + 1
    /\ wire' = Append(wire, [type |-> "deliver", no |-> delivered'])
    /\ UNCHANGED <<open, requests, session, tasks, asked, lines, history>>

(* The connection breaks; what was on its way may not arrive. *)
Break ==
    /\ open
    /\ open' = FALSE
    /\ \E n \in 0 .. Len(wire) : wire' = SubSeq(wire, 1, n)
    /\ requests' = << >>
    /\ UNCHANGED <<session, tasks, asked, lines, delivered, history>>

-----------------------------------------------------------------------------
(* The dispatcher. *)

Read == wire' = Tail(wire)

(* All frames are acknowledgements. *)
MutRoute(f) ==
    /\ ack_q' = Append(ack_q, f)
    /\ UNCHANGED inbox_q

(* Deliveries go to the printer, everything else is an acknowledgement. *)
Route(f) ==
    IF f.type = "deliver"
    THEN inbox_q' = Append(inbox_q, f) /\ UNCHANGED ack_q
    ELSE ack_q' = Append(ack_q, f) /\ UNCHANGED inbox_q

(* recv has a frame, which the dispatcher puts into a queue when it runs.  *)
Receive ==
    /\ dispatcher.state = "recv"
    /\ wire # << >>
    /\ Read
    /\ dispatcher' = [state |-> "held", frame |-> Head(wire)]
    /\ UNCHANGED <<open, requests, session, main, ack_q, inbox_q, asked,
                   lines, delivered, history>>

Dispatch ==
    /\ dispatcher.state = "held"
    /\ Route(dispatcher.frame)
    /\ dispatcher' = MakeDispatcher
    /\ UNCHANGED <<open, requests, wire, session, main, asked, lines, delivered,
                   history>>

(* The cancellation is caught with the other exceptions. *)
MutEndDispatcher ==
    /\ dispatcher.state = "cancelled"
    /\ dispatcher' = MakeDispatcher
    /\ UNCHANGED <<open, requests, wire, session, main, ack_q, inbox_q, asked,
                   lines, delivered, history>>

(* The dispatcher takes its cancellation, or recv raises. *)
EndDispatcher ==
    /\ \/ dispatcher.state = "cancelled"
       \/ dispatcher.state = "recv" /\ ~ open /\ wire = << >>
    /\ dispatcher' = [dispatcher EXCEPT !.state = "ended"]
    /\ UNCHANGED <<open, requests, wire, session, main, ack_q, inbox_q, asked,
                   lines, delivered, history>>

(* Whatever the dispatcher holds goes with it. *)
MutCancelled(d) == IF d.state = "ended" THEN d ELSE [d EXCEPT !.state = "cancelled"]

(* dispatcher.cancel(): no effect on one that has a frame or has ended.    *)
Cancelled(d) == IF d.state = "recv" THEN [d EXCEPT !.state = "cancelled"] ELSE d

-----------------------------------------------------------------------------
(* The printer: an envelope of the peer may bring a session with it. *)
Show ==
    /\ main.pc # "quit"
    /\ inbox_q # << >>
    /\ inbox_q' = Tail(inbox_q)
    /\ processed' = Append(processed, Head(inbox_q))
    /\ session' \in {session, TRUE}
    /\ UNCHANGED <<open, requests, wire, main, dispatcher, ack_q, asked, lines,
                   delivered, misread, acks, slips, ignored>>

-----------------------------------------------------------------------------
(* The main loop. *)

Prompt == [main EXCEPT !.pc = "prompt"]

(* Transport.send of the next request, whose reply is awaited at pc; it    *)
(* raises on a broken connection.                                          *)
Ask(type, pc) ==
    IF open
    THEN /\ asked' = asked + 1
         /\ requests' = Append(requests, [type |-> type, no |-> asked'])
         /\ main' = [pc |-> pc, no |-> asked']
    ELSE /\ main' = Prompt
         /\ UNCHANGED <<asked, requests>>

(* The peer's bundle is asked for before the dispatcher has ended. *)
MutType ==
    /\ main.pc = "prompt"
    /\ lines < MaxLines
    /\ lines' = lines + 1
    /\ IF session
       THEN Ask("send", "ack") /\ UNCHANGED dispatcher
       ELSE Ask("get_bundle", "rpc") /\ dispatcher' = Cancelled(dispatcher)
    /\ UNCHANGED <<open, wire, session, ack_q, inbox_q, delivered, history>>

(* A line is typed.  With a session it is sealed and sent; without, the    *)
(* dispatcher is cancelled and its end awaited.                            *)
Type ==
    /\ main.pc = "prompt"
    /\ lines < MaxLines
    /\ lines' = lines + 1
    /\ IF session
       THEN Ask("send", "ack") /\ UNCHANGED dispatcher
       ELSE /\ main' = [main EXCEPT !.pc = "cancel"]
            /\ dispatcher' = Cancelled(dispatcher)
            /\ UNCHANGED <<asked, requests>>
    /\ ignored' = (ignored \/ (~ session /\ dispatcher.state = "held"))
    /\ UNCHANGED <<open, wire, session, ack_q, inbox_q, delivered, processed,
                   misread, acks, slips>>

(* The dispatcher has ended: _x3dh_initiate asks for the bundle.  If that  *)
(* raises there is a new dispatcher.                                       *)
Initiate ==
    /\ main.pc = "cancel"
    /\ dispatcher.state = "ended"
    /\ Ask("get_bundle", "rpc")
    /\ dispatcher' = IF open THEN dispatcher ELSE MakeDispatcher
    /\ UNCHANGED <<open, wire, session, ack_q, inbox_q, lines, delivered,
                   history>>

(* rpc takes a frame for its reply.  With a bundle there is a session, a   *)
(* new dispatcher, and the line is sealed and sent, the X3DH header with   *)
(* it.                                                                     *)
GotBundle ==
    /\ main.pc = "rpc"
    /\ wire # << >>
    /\ Head(wire).type = "bundle"
    /\ Read
    /\ session' = TRUE
    /\ dispatcher' = MakeDispatcher
    /\ Ask("send", "ack")
    /\ slips' = IF Head(wire).no = main.no THEN slips ELSE slips + 1
    /\ UNCHANGED <<open, ack_q, inbox_q, lines, delivered, processed, misread,
                   acks, ignored>>

(* A rpc that fails leaves the chat without a dispatcher. *)
MutRpcFailed ==
    /\ main.pc = "rpc"
    /\ wire # << >> /\ Head(wire).type # "bundle"
    /\ Read
    /\ misread' = IF Head(wire).type = "deliver"
                  THEN misread \cup {Head(wire).no} ELSE misread
    /\ slips' = IF Head(wire).type = "deliver" THEN slips + 1 ELSE slips
    /\ main' = Prompt
    /\ UNCHANGED <<dispatcher, open, requests, session, ack_q, inbox_q, asked,
                   lines, delivered, processed, acks, ignored>>

(* Any other frame, or a broken connection, raises: the line is given up   *)
(* and there is a new dispatcher.                                          *)
RpcFailed ==
    /\ main.pc = "rpc"
    /\ \/ /\ wire # << >> /\ Head(wire).type # "bundle"
          /\ Read
          /\ misread' = IF Head(wire).type = "deliver"
                        THEN misread \cup {Head(wire).no} ELSE misread
          /\ slips' = IF Head(wire).no = main.no /\ Head(wire).type = "error"
                      THEN slips ELSE slips + 1
       \/ /\ wire = << >> /\ ~ open
          /\ UNCHANGED <<wire, misread, slips>>
    /\ main' = Prompt
    /\ dispatcher' = MakeDispatcher
    /\ UNCHANGED <<open, requests, session, ack_q, inbox_q, asked, lines,
                   delivered, processed, acks, ignored>>

(* ack_q.get() returns, whatever was put there. *)
GotAck ==
    /\ main.pc = "ack"
    /\ ack_q # << >>
    /\ ack_q' = Tail(ack_q)
    /\ acks' = Append(acks, [sent |-> main.no, got |-> Head(ack_q).no,
                             slips |-> slips])
    /\ main' = Prompt
    /\ UNCHANGED <<open, requests, wire, session, dispatcher, inbox_q, asked,
                   lines, delivered, processed, misread, slips, ignored>>

(* Three seconds have passed. *)
AckTimeout ==
    /\ main.pc = "ack"
    /\ ack_q = << >>
    /\ slips' = slips + 1
    /\ main' = Prompt
    /\ UNCHANGED <<open, requests, wire, session, dispatcher, ack_q, inbox_q,
                   asked, lines, delivered, processed, misread, acks, ignored>>

(* /quit, or the end of the input: the tasks are cancelled, the connection *)
(* is closed.                                                              *)
Quit ==
    /\ main.pc = "prompt"
    /\ main' = [main EXCEPT !.pc = "quit"]
    /\ dispatcher' = [MakeDispatcher EXCEPT !.state = "ended"]
    /\ open' = FALSE
    /\ requests' = << >>
    /\ UNCHANGED <<wire, session, ack_q, inbox_q, asked, lines, delivered,
                   history>>

-----------------------------------------------------------------------------
Dispatcher == Receive \/ Dispatch \/ EndDispatcher

(* What ends an await of the main loop, but for the prompt. *)
Main == Initiate \/ GotBundle \/ RpcFailed \/ GotAck \/ AckTimeout

Next ==
    \/ Answer \/ Deliver \/ Break
    \/ Dispatcher \/ Show
    \/ Type \/ Quit \/ Main

Spec == Init /\ [][Next]_vars

(* The event loop runs every task whose await is over, and the relay       *)
(* answers what it is asked.                                               *)
Fairness ==
    /\ WF_vars(Answer) /\ WF_vars(Dispatcher) /\ WF_vars(Show) /\ WF_vars(Main)

FairSpec == Spec /\ Fairness

-----------------------------------------------------------------------------
(* Properties. *)

(* The main loop and the dispatcher never wait in recv together, which the *)
(* websockets library does not allow: "ONE dispatcher task owns all recv() *)
(* calls", and has ended when an rpc is made.                              *)
OneReceiver == main.pc = "rpc" => dispatcher.state = "ended"

(* The numbers of the items of one of the types ts in a sequence, and      *)
(* whether they ascend.                                                    *)
Numbers(items, ts) == {items[i].no : i \in {j \in DOMAIN items : items[j].type \in ts}}

Ascend(items, ts) ==
    \A i, j \in DOMAIN items :
        i < j /\ {items[i].type, items[j].type} \subseteq ts => items[i].no < items[j].no

(* They ascend from stage to stage. *)
InLine(stages, ts) ==
    /\ \A s \in DOMAIN stages : Ascend(stages[s], ts)
    /\ \A s, t \in DOMAIN stages : s < t =>
          \A m \in Numbers(stages[s], ts), n \in Numbers(stages[t], ts) : m < n

(* The way of an envelope, from its last stage to its first. *)
Stages == <<processed, inbox_q, <<dispatcher.frame>>, wire>>

(* Whichever task reads them, and however often the dispatcher is made     *)
(* anew: envelopes are processed in the order of their delivery, once, and *)
(* while the connection holds only an rpc can have taken one.              *)
DeliveriesKept ==
    LET kept == UNION {Numbers(Stages[s], {"deliver"}) : s \in DOMAIN Stages}
    IN  /\ InLine(Stages, {"deliver"})
        /\ kept \cap misread = {}
        /\ open => kept \cup misread = 1 .. delivered

(* What the main loop takes for the acknowledgement of a message is that   *)
(* message's, unless a wait before was given up or an rpc took another     *)
(* frame for its reply; it is never that of a later message.               *)
AcksInStep ==
    \A i \in DOMAIN acks :
        /\ acks[i].slips = 0 => acks[i].got = acks[i].sent
        /\ acks[i].got <= acks[i].sent

(* After every line the chat comes back to its prompt, though an rpc has   *)
(* no timeout and the dispatcher's end is awaited; but for a dispatcher    *)
(* that has ignored its cancellation.                                      *)
LinesSettle ==
    main.pc \in {"cancel", "rpc", "ack"} ~> main.pc \in {"prompt", "quit"} \/ ignored

(* While the chat goes on and its connection holds, whatever is delivered  *)
(* gets to the printer or to an rpc: there is always a dispatcher again.   *)
DeliveriesShown ==
    \A d \in 1 .. MaxDeliveries :
        delivered >= d ~> \/ d \in Numbers(processed, {"deliver"}) \cup misread
                          \/ ~ open
=============================================================================
