------------------------------- MODULE Client -------------------------------
(***************************************************************************)
(* The client's commands, client/cli.py, over client/transport.py and the  *)
(* relay: register, send, fetch, and chat as far as its setup and what is  *)
(* delivered to it (what it sends is the matter of Chat).                  *)
(*                                                                         *)
(* A command runs on a connection of its own, in one process: connection c *)
(* names them all.  It sends a request and takes the next frame for the    *)
(* reply, so a step of a client is what it does from one frame to its next *)
(* await.  Commands of one user may overlap, as in two terminals.          *)
(*                                                                         *)
(* What the script of c grows by is what its client sends.  A process may  *)
(* die, or its connection break, at any await; the relay may be restarted, *)
(* and forgets everything.                                                 *)
(***************************************************************************)
EXTENDS Relay

CONSTANTS Commands,     \* what the connections may be opened for, None: not
          MaxFailures   \* processes that die, a bound of the model

Command == [name : {"register", "send", "fetch", "chat"},
            peer : User \cup {None}]

(* The clients send what their commands send; a send names its peer, and   *)
(* None is no report.                                                      *)
ASSUME ClientAssumption ==
    /\ \A c \in Conn : Scripts[c] = {<< >>}
    /\ Commands \subseteq [Conn -> Command \cup {None}]
    /\ \A cmds \in Commands : \A c \in Conn :
          cmds[c] # None /\ cmds[c].name = "send" => cmds[c].peer # None
    /\ None \notin {"delivered", "queued", "failed"}
    /\ MaxFailures \in Nat

VARIABLES
    command,     \* command[c]: what c is opened for
    pc,          \* pc[c]: the reply the client of c waits for
    taken,       \* taken[c]: what it took each frame of c for, so far
    sessions,    \* sessions[u]: the peers u has a session with, in store.db
    processed,   \* history: processed[u], the envelopes _process_envelope got
    status,      \* history: status[c], what the command has told its user
    failures,    \* processes, of clients or the relay, that have died
    forgotten    \* history: envelopes queued at a restart

clientVars == <<command, pc, taken, sessions, processed, status>>
faultVars  == <<failures, forgotten>>
allVars    == <<vars, clientVars, faultVars>>

Waiting == {"register", "get_bundle", "send", "fetch"}

ClientTypeOK ==
    /\ command \in Commands
    /\ pc \in [Conn -> Waiting \cup {"new", "chatting", "ended", "died"}]
    /\ taken \in [Conn -> Seq(Waiting \cup {"chatting"})]
    /\ sessions \in [User -> SUBSET User]
    /\ processed \in [User -> SUBSET Envelope]
    /\ status \in [Conn -> {"delivered", "queued", "failed", None}]
    /\ failures \in 0 .. MaxFailures
    /\ forgotten \in SUBSET Envelope

(* The users have no sessions yet, or each with every other. *)
ClientInit ==
    /\ Init
    /\ command \in Commands
    /\ pc = [c \in Conn |-> "new"]
    /\ taken = [c \in Conn |-> << >>]
    /\ sessions \in {[u \in User |-> {}], [u \in User |-> User \ {u}]}
    /\ processed = [u \in User |-> {}]
    /\ status = [c \in Conn |-> None]
    /\ failures = 0
    /\ forgotten = {}

-----------------------------------------------------------------------------
(* The transport. *)

(* Transport.send, and from then on the client waits for the reply.        *)
Ask(c, type, to) ==
    /\ script' = [script EXCEPT ![c] = Append(@, [type |-> type, to |-> to])]
    /\ pc' = [pc EXCEPT ![c] = type]

(* The connection is left, if it is still there. *)
Close(c) ==
    ws' = [ws EXCEPT ![c] = IF @ = "open" THEN "leaving" ELSE @]

(* The command is over and has left its connection. *)
End(c, how) ==
    /\ pc' = [pc EXCEPT ![c] = how]
    /\ Close(c)
    /\ UNCHANGED script

(* The frame the client of c is to read next. *)
Unread(c) == Len(taken[c]) < Len(frames[c])
NextFrame(c) == frames[c][Len(taken[c]) + 1]

(* Transport.recv: while c waits for a reply, or chats, the next frame is  *)
(* taken for that, whatever it is.                                         *)
Recv(c, awaited) ==
    /\ pc[c] = awaited
    /\ Unread(c)
    /\ taken' = [taken EXCEPT ![c] = Append(@, awaited)]
    /\ UNCHANGED <<next, handler, bundles, queues, connections, frames,
                   accepted, lost, command>>

(* The register of a fetch is sent and its reply not waited for. *)
MutStart(c) ==
    /\ pc[c] = "new"
    /\ command[c] # None /\ command[c].name = "fetch"
    /\ ws' = [ws EXCEPT ![c] = "open"]
    /\ script' = [script EXCEPT ![c] =
                    <<[type |-> "register", to |-> Owner[c]],
                      [type |-> "fetch", to |-> None]>>]
    /\ pc' = [pc EXCEPT ![c] = "fetch"]
    /\ UNCHANGED <<next, handler, bundles, queues, connections, frames,
                   accepted, lost, command, taken, sessions, processed, status,
                   faultVars>>

(* The command connects and, whatever it is, starts with a register. *)
Start(c) ==
    /\ pc[c] = "new"
    /\ command[c] # None
    /\ ws' = [ws EXCEPT ![c] = "open"]
    /\ Ask(c, "register", Owner[c])
    /\ UNCHANGED <<next, handler, bundles, queues, connections, frames,
                   accepted, lost, command, taken, sessions, processed, status,
                   faultVars>>

-----------------------------------------------------------------------------
(* _process_envelope for each of the envelopes es: where one carries an    *)
(* X3DH header there is a session afterwards, unless its prekey is gone.   *)

WithHeader(e) == script[e.conn][e.no - 1].type = "get_bundle"

Process(u, es) ==
    /\ processed' = [processed EXCEPT ![u] = @ \cup es]
    /\ \E new \in SUBSET {e.from : e \in {d \in es : WithHeader(d)}} :
          sessions' = [sessions EXCEPT ![u] = @ \cup new]

NoneProcessed == UNCHANGED <<processed, sessions>>

-----------------------------------------------------------------------------
(* The commands. *)

Tell(c, what) == status' = [status EXCEPT ![c] = what]

(* The reply to the register that every command starts with; send and      *)
(* fetch do not look at it, chat ends if it is not ok.                     *)
Registered(c) ==
    /\ Recv(c, "register")
    /\ CASE command[c].name = "register" -> End(c, "ended")
         [] command[c].name = "send" ->
                /\ IF command[c].peer \in sessions[Owner[c]]
                   THEN Ask(c, "send", command[c].peer)
                   ELSE Ask(c, "get_bundle", command[c].peer)
                /\ UNCHANGED ws
         [] command[c].name = "fetch" -> Ask(c, "fetch", None) /\ UNCHANGED ws
         [] command[c].name = "chat" ->
                IF NextFrame(c).type = "ok"
                THEN Ask(c, "fetch", None) /\ UNCHANGED ws
                ELSE End(c, "ended")
    /\ UNCHANGED <<status, faultVars>>
    /\ NoneProcessed

(* _x3dh_initiate of a send: with a bundle there is a session, anything    *)
(* else raises and ends the command.                                       *)
GotBundle(c) ==
    /\ Recv(c, "get_bundle")
    /\ \/ /\ NextFrame(c).type = "bundle"
          /\ sessions' = [sessions EXCEPT ![Owner[c]] = @ \cup {command[c].peer}]
          /\ Ask(c, "send", command[c].peer)
          /\ UNCHANGED <<ws, status>>
       \/ /\ NextFrame(c).type # "bundle"
          /\ End(c, "ended")
          /\ Tell(c, "failed")
          /\ UNCHANGED sessions
    /\ UNCHANGED <<processed, faultVars>>

(* The type of the reply is reported. *)
MutReportedType(f) == f.type

(* Whatever is ok has delivered the message. *)
MutReported(f) == IF f.type = "ok" THEN "delivered" ELSE "failed"

(* What a send reports of the reply it took. *)
Reported(f) ==
    IF f.type # "ok" THEN "failed"
    ELSE IF f.msg = "delivered" THEN "delivered" ELSE "queued"

Sent(c) ==
    /\ Recv(c, "send")
    /\ Tell(c, Reported(NextFrame(c)))
    /\ End(c, "ended")
    /\ NoneProcessed
    /\ UNCHANGED faultVars

(* resp.get("messages", []) of the frame that is taken for the messages. *)
Messages(f) == IF f.type = "messages" THEN f.messages ELSE << >>

(* A fetch, too, looks for messages of its peer. *)
MutWanted(c, e) == e.from = command[c].peer

(* Whether the command of c processes e: a fetch closes its connection and *)
(* processes what it got, a chat only what is from its peer.               *)
Wanted(c, e) == command[c].name = "fetch" \/ e.from = command[c].peer

(* A process dies, of those the model lets die. *)
Fail ==
    /\ failures < MaxFailures
    /\ failures' = failures + 1
    /\ UNCHANGED forgotten

(* The process may die on the way through the messages, with the first n   *)
(* looked at.                                                              *)
Fetched(c) ==
    LET es == Messages(NextFrame(c)) IN
    /\ Recv(c, "fetch")
    /\ \E n \in 0 .. Len(es) :
          /\ Process(Owner[c], {e \in {es[i] : i \in 1 .. n} : Wanted(c, e)})
          /\ IF n < Len(es) THEN End(c, "died") /\ Fail
             ELSE /\ IF command[c].name = "fetch" THEN End(c, "ended")
                     ELSE /\ pc' = [pc EXCEPT ![c] = "chatting"]
                          /\ UNCHANGED <<ws, script>>
                  /\ UNCHANGED faultVars
    /\ UNCHANGED status

(* The dispatcher of a chat takes a frame; a delivery is processed.        *)
Dispatched(c) ==
    LET f == NextFrame(c) IN
    /\ Recv(c, "chatting")
    /\ Process(Owner[c], IF f.type = "deliver" THEN {f.envelope} ELSE {})
    /\ UNCHANGED <<ws, script, pc, status, faultVars>>

(* /quit. *)
Quit(c) ==
    /\ pc[c] = "chatting"
    /\ End(c, "ended")
    /\ UNCHANGED <<next, handler, bundles, queues, connections, frames,
                   accepted, lost, command, taken, sessions, processed, status,
                   faultVars>>

(* The process dies, or what it does on the connection raises. *)
Stop(c) ==
    /\ pc[c] \in Waiting \cup {"chatting"}
    /\ End(c, "died")
    /\ UNCHANGED <<next, handler, bundles, queues, connections, frames,
                   accepted, lost, command, taken, sessions, processed,
                   status>>

Die(c) == Stop(c) /\ Fail

(* The relay has closed the connection. *)
Raises(c) ==
    /\ ws[c] = "closed"
    /\ Stop(c)
    /\ UNCHANGED faultVars

-----------------------------------------------------------------------------
(* The relay is killed and started again. *)
Restart ==
    /\ failures < MaxFailures
    /\ failures' = failures + 1
    /\ forgotten' = forgotten \cup UNION {Range(queues[u]) : u \in User}
    /\ ws' = [c \in Conn |-> IF ws[c] = "new" THEN "new" ELSE "closed"]
    /\ handler' = [c \in Conn |->
                     IF ws[c] = "new" THEN handler[c]
                     ELSE [handler[c] EXCEPT !.pc = "done"]]
    /\ bundles' = [u \in User |-> None]
    /\ queues' = [u \in User |-> << >>]
    /\ connections' = [u \in User |-> None]
    /\ UNCHANGED <<script, next, frames, accepted, lost, clientVars>>

Relays(c) ==
    /\ TakeRequest(c) \/ Continue(c)
    /\ UNCHANGED <<clientVars, faultVars>>

Notices(c) == Notice(c) /\ UNCHANGED <<clientVars, faultVars>>

TakeReply(c) ==
    \/ Registered(c) \/ GotBundle(c) \/ Sent(c)
    \/ Fetched(c) \/ Dispatched(c)

ClientNext ==
    \/ \E c \in Conn :
          \/ Start(c) \/ TakeReply(c) \/ Quit(c) \/ Die(c) \/ Raises(c)
          \/ Relays(c) \/ Notices(c)
    \/ Restart

ClientSpec == ClientInit /\ [][ClientNext]_allVars

(* The event loops of the relay and of the clients go on; nobody has to    *)
(* start a command, to leave a chat or to die.                             *)
ClientFairness ==
    \A c \in Conn :
        /\ WF_allVars(Relays(c))
        /\ WF_allVars(Notices(c))
        /\ WF_allVars(TakeReply(c) \/ Raises(c))

ClientFairSpec == ClientSpec /\ ClientFairness

-----------------------------------------------------------------------------
(* Properties. *)

(* Frame f is one that answers what it was taken for. *)
Answers(f, awaited) ==
    CASE awaited = "register"   -> f.type \in {"ok", "error"}
      [] awaited = "get_bundle" -> f.type \in {"bundle", "error"}
      [] awaited = "send"       -> f.type \in {"ok", "error"}
      [] awaited = "fetch"      -> f.type \in {"messages", "error"}
      [] awaited = "chatting"   -> f.type = "deliver"

(* A client takes for a reply what is the reply, from its first request    *)
(* on, as long as nothing is delivered to it: only a live delivery puts it *)
(* out of step, and never with the register.                               *)
RepliesInStep ==
    \A c \in Conn : \A i \in DOMAIN taken[c] :
        Answers(frames[c][i], taken[c][i])
        \/ \E j \in 2 .. i : frames[c][j].type = "deliver"

(* "Send a message and wait for exactly one reply": what a client takes    *)
(* for a reply is one.                                                     *)
RepliesMatch ==
    \A c \in Conn : \A i \in DOMAIN taken[c] : Answers(frames[c][i], taken[c][i])

(* Envelope e was written to c in frame i, and the client of c let go of   *)
(* it: it ended before it read the frame or processed it, took the frame   *)
(* for something else, or chats with another.                              *)
LetGo(e, c, i) ==
    \/ pc[c] = "died"
    \/ pc[c] = "ended" /\ i > Len(taken[c])
    \/ i \in DOMAIN taken[c] /\ ~ Answers(frames[c][i], taken[c][i])
    \/ /\ frames[c][i].type = "messages"
       /\ command[c].name = "chat" /\ e.from # command[c].peer

(* Every envelope the relay accepted is in its queue, on its way to a      *)
(* client that will read it, or processed, but for those a client let go   *)
(* of, a fetch popped and could not write, or a restart of the relay took. *)
MessagesAccounted ==
    \A e \in accepted :
        \/ Queued(e) \/ e \in processed[e.to]
        \/ e \in forgotten \/ e \in lost
        \/ \E w \in Writings(e) :
              LetGo(e, w[1], w[2]) \/ (w[2] > Len(taken[w[1]]) /\ pc[w[1]] # "ended")

(* A send that has reported its message "delivered" or "queued" reported   *)
(* the truth: it was written to a connection of the peer, or was queued    *)
(* and is in the queue yet, but for what a fetch of the peer or a restart  *)
(* took from it.                                                           *)
StatusHonest ==
    \A c \in Conn :
        LET e == [from |-> Owner[c], to |-> command[c].peer, conn |-> c,
                  no |-> Len(script[c])]
            live == \E w \in Writings(e) : frames[w[1]][w[2]].type = "deliver"
        IN  /\ status[c] = "delivered" => live
            /\ status[c] = "queued" =>
                  \/ Queued(e) \/ e \in forgotten \/ e \in lost
                  \/ \E w \in Writings(e) : frames[w[1]][w[2]].type = "messages"

(* "Live delivery if recipient is connected": no message that is delivered *)
(* to none of its addressee's connections is queued while one of them has  *)
(* a chat open.                                                            *)
LiveWhileChatting ==
    [][\A e \in accepted' : Queued(e)' /\ ~ Queued(e) /\ Writings(e)' = {} =>
          ~ \E c \in Conn : /\ Owner[c] = e.to
                            /\ pc[c] = "chatting" /\ ws[c] = "open"]_allVars

(* A command gets all its replies: it ends, or comes to chatting, though   *)
(* no rpc has a timeout.                                                   *)
CommandsEnd ==
    \A c \in Conn : pc[c] \in Waiting ~> pc[c] \in {"chatting", "ended", "died"}
=============================================================================
