------------------------------ MODULE MCRelay ------------------------------
(* Instances of Relay for TLC.  The request sequences are those of the     *)
(* client's commands: send with a session, the start of one without, and   *)
(* fetch; and one of requests the relay refuses.                           *)
EXTENDS Relay

CONSTANTS Alice, Bob, a1, b1, b2

Owners == (a1 :> Alice) @@ (b1 :> Bob) @@ (b2 :> Bob)

Req(t, u) == [type |-> t, to |-> u]

SendCommand(u, q)   == <<Req("register", u), Req("send", q)>>
FetchCommand(u)     == <<Req("register", u), Req("fetch", None)>>
BundleCommand(u, q) == <<Req("register", u), Req("get_bundle", q)>>

(* Requests the relay refuses, on a connection that registers in between. *)
Refused ==
    <<Req("send", Bob), Req("fetch", None), Req("get_bundle", None),
      Req("register", Alice), Req("register", None), Req("unknown", None),
      Req("send", Bob)>>

(* Alice writes, or has requests refused, while Bob's commands come and go *)
(* in two terminals; both may ask for her bundle.                          *)
Commands ==
    (a1 :> {<<Req("register", Alice), Req("send", Bob), Req("send", Bob)>>,
            Refused})
    @@ (b1 :> {FetchCommand(Bob), SendCommand(Bob, Alice),
               BundleCommand(Bob, Alice)})
    @@ (b2 :> {FetchCommand(Bob), BundleCommand(Bob, Alice)})

(* What the theorem on OpenConnectionStays asks of the requests.           *)
ASSUME RegistersOnceHere == RegistersOnce
=============================================================================
