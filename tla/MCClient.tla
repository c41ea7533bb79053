------------------------------ MODULE MCClient ------------------------------
(* Instances of Client for TLC. *)
EXTENDS Client

CONSTANTS Alice, Bob, Carol, a1, b1, b2

Cmd(n, p) == [name |-> n, peer |-> p]

Owners == (a1 :> Alice) @@ (b1 :> Bob) @@ (b2 :> Bob)

(* The clients send nothing but what their commands send. *)
NoScripts == [c \in Conn |-> {<< >>}]

Opened(a, b, d) == (a1 :> a) @@ (b1 :> b) @@ (b2 :> d)

(* Alice sends to Bob, who runs one command, or a chat with Alice and      *)
(* another command in a second terminal.                                   *)
AliceToBob ==
    {Opened(Cmd("send", Bob), b, None) :
        b \in {Cmd("register", None), Cmd("send", Alice), Cmd("fetch", None),
               Cmd("chat", Alice), Cmd("chat", Carol)}}
    \cup {Opened(Cmd("send", Bob), Cmd("register", None), Cmd("chat", Alice))}
=============================================================================
