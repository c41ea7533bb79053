# A TLA+ model of the encrypted channel messenger

The messenger lets two users write to each other over a relay that cannot read
what it carries. A client agrees on a key with a peer who may be offline (X3DH),
protects every text with the Double Ratchet, and keeps its sessions in a SQLite
file; the relay serves key bundles, delivers to whoever is connected and queues
for whoever is not. This directory holds a model of it in TLA+, the TLC runs
that check it and the theorems TLAPS proves about it.

    tlc -config MCSessionLossy.cfg MCSession     # any run of PROJECT.json
    tlapm SessionProofs.tla                      # any module with theorems

## The system

| part | source | state it keeps | operations |
|---|---|---|---|
| Key material | `client/crypto/keys.py` | identity file: identity key, signed prekey, one-time prekeys | `generate`, `public_bundle`, `pop_opk`, `save`, `load` |
| X3DH | `client/crypto/x3dh.py` | none | `x3dh_send`, `x3dh_receive` |
| Double Ratchet | `client/crypto/double_ratchet.py` | `RatchetState`: key pair, remote key, root key, two chains, three counters, skipped keys | `init_sender`, `init_receiver`, `encrypt_message`, `decrypt_message` |
| Session store | `client/store.py` | one row per peer | `save_session`, `load_session`, `has_session` |
| Session life cycle | `client/cli.py` 177-260, 415-459, 611-656 | the above two files | `_x3dh_initiate`, `_x3dh_respond`, `_process_envelope`, sending in `send` and `chat` |
| Chat tasks | `client/cli.py` 534-664 | `ack_q`, `inbox_q`, `pending_x3dh` | main loop, dispatcher, printer |
| Client commands | `client/cli.py` 280-459, 501-532 | where in its requests a command is | `register`, `send`, `fetch`, `chat` |
| Transport | `client/transport.py` | one WebSocket | `connect`, `send`, `recv`, `rpc`, `close` |
| Relay | `server/relay.py` | `bundles`, `queues`, `connections`, in memory | `register`, `get_bundle`, `send`, `fetch`, disconnection |
| The rest | | | identity selection, terminal output, spy mode, `whoami`, `sessions`, `config`, tests |

A command connects, registers its bundle, and then asks for a peer's bundle,
sends or fetches; a chat goes on to send and to receive live deliveries. The
client's processing of a payload is synchronous, so it is never interleaved with
another step of the same process except at an `await`; the relay runs one
coroutine for each connection and every reply or delivery it writes is an
`await`.

### What is hard, and what makes each part correct

* **The network.** A payload may be lost (a fetch whose connection closes, a
  client that leaves), repeated (a delivery whose sender has left is queued too)
  or overtaken (queued against live). The ratchet must still read whatever
  arrives, show it once, and never use a key twice.
* **Crashes.** Two files are written one after the other, and before the payload
  leaves. What is on disk must always be ahead of what was sent.
* **Two tasks of a chat.** The main loop awaits a bundle while the printer may
  set up a session with the same peer.
* **Two users who start at once.** Each accepts the other's header over its own
  session.
* **The relay's awaits.** A connection may close, or be replaced by a newer one
  of the same user, between any two sends of a handler.
* **Replies and deliveries on one connection.** From its register on, a client
  may be delivered to before the reply it waits for; no `rpc` has a timeout.
* **One `recv` for two tasks.** The main loop of a chat cancels the dispatcher to
  ask for a bundle, and makes a new one afterwards, whatever came of it.
* **Stale data.** The client's list of prekeys against the relay's, a username
  the handler knows later than the table of connections, the identity a process
  loaded at its start against what another one has saved since, the sessions of
  a user with a new identity.
* **Restarts.** The relay keeps everything in memory; a client may die between a
  frame it was sent and the next.

`PROJECT.json` lists the hazards line by line with the properties aimed at them.

## The modules

| module | models | how |
|---|---|---|
| `Keys` | `keys.py` | keys are records: kind, owner, identity, number |
| `X3DH` | `x3dh.py` | the secret is the record of the Diffie-Hellman inputs |
| `DoubleRatchet` | `double_ratchet.py` | operators from ratchet state to ratchet state |
| `SecureChannel` | what the messenger promises | abstract specification: write, show once |
| `Session` | the life of the sessions | one action per stretch of client code between two awaits, and the deaths of a process between two writes |
| `Relay` | `server/relay.py` | one action per stretch of a handler between two awaits |
| `Client` | the commands of `cli.py` over `transport.py` and the relay | one action per reply; processes that die, a relay that restarts |
| `Chat` | the three tasks of `_do_chat` | one action per stretch of a task between two awaits |
| `SharedStore` | two processes of one user on one set of files | loads and saves of whole files and rows |
| `MCSession`, `MCRelay`, `MCClient` | instances for TLC | |
| `RatchetProofs` | | lemmas about the operators of `DoubleRatchet` |
| `SessionProofs`, `SecrecyProofs`, `ChannelProofs`, `AgreementProofs` | | theorems about `Session` |
| `RelayProofs`, `ClientProofs`, `ChatProofs` | | theorems about `Relay`, `Client` and `Chat` |

`Session` extends `DoubleRatchet`, which extends `X3DH`, which extends `Keys`;
`SharedStore` extends `Keys`. `Client` extends `Relay`: its next-state relation
is made of the relay's actions, the client's, and their deaths. Three views of
the program meet at fixed places:

* `Session` has all of the cryptography and replaces the relay by a set of
  payloads of which any may arrive at any time, any number of times. `Relay` and
  `Client` show which of that really happens, with envelopes that have no
  contents.
* `Client` has a chat up to its setup and the deliveries it reads afterwards;
  `Chat` has what follows, with a relay that answers in order and delivers in
  between (`Relay.OneReplyPerRequest` is what entitles it to that), and with what
  the setup may leave behind (`Client.RepliesInStep`).

### Cryptography as terms

Key generation takes an unused name. `DH(a, b)` is the set of the two key pairs,
equal on both sides. A root key is the X3DH secret with the sequence of
Diffie-Hellman outputs mixed into it since; a chain key is the root key it came
from and a number; a message key is named by the chain key that yields it. That
is all that one-way, collision-free KDFs let anyone tell apart. AES-GCM opens a
ciphertext with the key that sealed it and with no other. Encodings (base64,
JSON, raw bytes) are injective and left out; the session file holds every field
of the ratchet state, so the stored row *is* the state.

### `Session` against the code

| variable | code |
|---|---|
| `session[p][q]` | the row of `q` in `p`'s `store.db` |
| `identity[p]`, `opks[p]` | which identity is in `p`'s identity file, its one-time prekeys |
| `published[p]`, `stock[p]` | the identity of `p`'s bundle at the relay, the prekeys left in it |
| `awaiting[p]` | the `get_bundle` call `p` awaits, with the bundle the relay serves |
| `outbox[p]` | a sealed payload not yet handed to the relay |
| `net` | every payload handed to the relay |
| `keygen`, `typed`, `crashes` | counters that number keys and texts and bound the model |
| `sealed`, `opened`, `shown` | histories: the keys used, the terminals |

| action | code |
|---|---|
| `Register` | the `register` command over an existing identity: new keys, the same numbers for the prekeys, the sessions stay |
| `Publish` | the `register` request every command starts with; nothing else happens under a new identity before it (`Registered`) |
| `GetBundle` | `has_session` is false: `get_bundle` is sent (`cli.py` 613-622, 197) |
| `Initiate` | the bundle arrives: X3DH, first state saved, text sealed, state saved, header attached |
| `Send` | there is a session: load, seal, save |
| `Transmit` | `t.send` or `t.rpc` of the payload |
| `Receive` | `_process_envelope`, with `_x3dh_respond` and `decrypt_message`, including a payload whose header is accepted and which then does not open |
| `Crash`, `CrashInInitiate`, `CrashAfterPop`, `CrashAfterRespond` | the process dies while it waits, between the two saves of `Initiate`, between the identity file and the session, between the session and its decrypted successor |

A payload that is refused without a change of state (a missing session, a missing
prekey, a payload that does not open) is not a step. `Send` is disabled where
`encrypt_message` raises its assertion. The failure of a send has the same effect
on disk as `Crash`.

### `Relay` against the code

`connections`, `queues` and `bundles` are the dictionaries of `RelayServer`.
`handler[c]` holds what the coroutine of connection `c` has in its locals and
where it awaits: the next request (`idle`), its last reply (`reply`), the live
delivery (`deliver`), the acknowledgement inside the `try` (`ack`), or it has
ended (`done`). An envelope is named by the connection and the number of its
request, a bundle by the registration that uploaded it. `frames[c]` is all that
was written to `c`.

The websockets library is external: a send to a connection known to be closed
raises; otherwise the frame is written and the `await` returns, or raises if the
connection closes meanwhile. A connection its client has left is `leaving` until
the library notices; what is written to it then reaches nobody.

`accepted` and `lost` are histories: the envelopes of all accepted sends, and those
which a fetch popped from the queue for a connection that was closed by then, so
that its `_send` raised before it wrote anything.

The clients are `Scripts`: for each connection a set of request sequences. Those
of `MCRelay` are the ones the commands of `cli.py` send, with a sequence of
requests the relay refuses. A request that is JSON but no object ends the handler
by an exception; no client sends one, and it is left out.

### `Client` against the code

A command, its process and its connection are one: connection `c`.

| variable | code |
|---|---|
| `command[c]` | the command line: which command, which peer |
| `pc[c]` | the reply its `rpc` waits for; `chatting`; over, or dead |
| `taken[c]` | what each frame of `c`, in order, was taken for by `recv` |
| `sessions[u]` | the peers in `u`'s `store.db` |
| `processed`, `status`, `forgotten` | histories: what `_process_envelope` got, what a `send` told its user, what a restart cost |
| `script[c]` | of `Relay`: grows by each request the client sends |

| action | code |
|---|---|
| `Start` | `Transport.connect` and the register request |
| `Registered`, `GotBundle`, `Sent`, `Fetched` | the return of each `rpc`, up to the next request or the end of the command; `_do_send` and `_do_fetch` do not look at the reply to their register, `_do_chat` does |
| `Dispatched` | a frame read in a chat, processed if it is a delivery |
| `Quit`, `Raises`, `Die` | the end of a chat, a `recv` on a closed connection, the death of a process at any await or between two messages it processes |
| `Restart` | the relay is killed and started again: `__init__`, with the connections closed |
| `Relays`, `Notices` | the relay's own steps |

`GotBundle` ends the command on any frame but a bundle: an error raises
`RuntimeError`, another frame `KeyError`. `Fetched` on a frame without messages
processes nothing, like `resp.get("messages", [])`. That an X3DH header sets up
a session is left open in `Process` (its prekey may be gone), which allows both.

### `Chat` against the code

| variable | code |
|---|---|
| `open`, `requests`, `wire` | the connection, what the relay has to answer, the frames nobody has read |
| `session` | `store.has_session(peer)` |
| `main` | what the main loop awaits: a line, the end of the dispatcher, an `rpc`, `ack_q` |
| `dispatcher` | in `recv`; with a frame in hand (`held`); cancelled; ended |
| `ack_q`, `inbox_q` | the queues |
| `processed`, `misread`, `acks`, `slips`, `ignored` | histories |

`Receive`, `Dispatch` and `EndDispatcher` are the dispatcher, `Show` the
printer, `Type`, `Initiate`, `GotBundle`, `RpcFailed`, `GotAck`, `AckTimeout` and
`Quit` the main loop; `Answer`, `Deliver` and `Break` what it sees of the relay.
`pending_x3dh` is set and cleared between two awaits and needs no variable. The
one-second and half-second timeouts of dispatcher and printer only make them look
at `chat_stop`.

Two behaviours of `asyncio.wait_for` are in the model. Up to Python 3.11, it runs
`recv` as a task and, when it is cancelled with that task done, returns the frame
and forgets the cancellation: the dispatcher goes on, and the main loop, which
awaits its end, does so until the connection breaks. `ignored` records it. From
3.12 on this cannot happen; those are the behaviours where no cancellation meets
a `held` frame. The model has both.

### `SharedStore` against the code

`LoadIdentity` is what a command does first and once; `Respond` is
`_x3dh_respond`, which pops the prekey in memory and saves the whole identity;
`LoadSession` and `SealAndSave` are `load_session` and, after `encrypt_message`,
`save_session`. There is no lock and no transaction around either pair.

## Properties

**Sessions**

| property | says | aimed at |
|---|---|---|
| `NoKeyReuse` | no two texts are sealed with one message key | save before send, crashes, crossed sessions |
| `ForwardSecrecy` | a key that was used cannot be had from the store again, in sessions with a one-time prekey | skipped keys kept, sessions set back |
| `PayloadsStayReadable` | a payload of the session that is there and was not opened yet can be, unless it is too far ahead | order, loss, counters over several chains |
| `AcceptedHeaderOpens` | a first payload made for the identity its addressee has, whose prekey is held, opens | both halves of X3DH and of the first state |
| `SessionsShareSecret` | when all is read both ends have one secret | bundle asked for with a session there |
| `FirstPayloadCarriesHeader` | nothing of a first chain leaves before a header has | header attached once |
| `SessionsOnlyAdvance` | (action) a session is never dropped and under one secret never goes back | replayed headers |
| `ImplementsChannel` | (refinement) what the terminals show is what `SecureChannel` allows | all of it |
| `PrekeysServeOnce` | see the disagreements below | |

`PayloadsStayReadable` excuses a payload that is `TooFarAhead` of the session, and
no other: one of the chain in use more than `MAX_SKIP` past its counter, or one of
a later chain whose number is above `MAX_SKIP` (the chain is fresh for the reader,
so that many are missing) or whose header says that more than `MAX_SKIP` of the
chain before are missing. The formula compares numbers; that `TooManySkipped`
raises just there is what it checks.

**Relay**

| property | says | aimed at |
|---|---|---|
| `LostOnlyInFetch` | an accepted envelope is queued or written, or was itself popped by a fetch whose connection was closed, which wrote nothing (`lost`) | the paths out of `_handle_send` |
| `HandledOnceWhileOpen` | it goes to its addressee alone and once, while the sender's handler and the connections hold | fall-through to the queue |
| `OpenConnectionStays` | (action) only a closed connection is taken off the table | `is ws` in the cleanup |
| `OneReplyPerRequest` | replies and requests are in step | error paths, `rpc` |
| `PrekeysServedOnce` | a prekey of one upload goes to one client | concurrent bundle requests |

**Commands**

| property | says | aimed at |
|---|---|---|
| `RepliesInStep` | a client's frames are what it takes them for until something is delivered to it, and the reply to its register always | `rpc`, requests sent one by one |
| `MessagesAccounted` | an accepted message is queued, on its way to a client that will read it, processed, or is gone in a way tied to this message: its client ended or died before it read the frame, took it for another reply or discarded it in a chat with someone else; a fetch popped it for a closed connection (`lost`); a restart found it queued (`forgotten`) | every path between the relay and `_process_envelope` |
| `StatusHonest` | a `send` that reports "delivered" or "queued" is right: its message was delivered live, or was queued and is in the queue yet, but for what a fetch or a restart took | replies taken for others, restarts |
| `CommandsEnd` | (liveness) every command ends or comes to chatting | `rpc` without a timeout, deaths on either side |
| `RepliesMatch`, `LiveWhileChatting` | see the disagreements below | |

**Chat**

| property | says | aimed at |
|---|---|---|
| `OneReceiver` | an `rpc` and the dispatcher never wait in `recv` together | "ONE dispatcher task owns all recv() calls" |
| `DeliveriesKept` | deliveries are processed in their order, once; only an `rpc` can take one from the printer | cancelled dispatchers, frames in hand |
| `AcksInStep` | what is taken for an acknowledgement is that of this message, unless a wait was given up or a reply misread before, and never that of a later one | the three-second timeout |
| `LinesSettle` | (liveness) the chat comes back to its prompt, unless the dispatcher ignored its cancellation | awaiting the dispatcher, `rpc` |
| `DeliveriesShown` | (liveness) while the connection holds, what is delivered is processed or misread | a dispatcher that is not made anew |

**Fairness.** `client_commands` assumes it for every step of the relay's handlers
and for the client's taking of frames (or of the exception on a closed
connection): two event loops that run. Of the relay, `Continue` resumes every
coroutine whose `await` is over, and a `send` is over once the frame is written or
the connection has closed. That a connection whose peer is gone does close is the
keep-alive of the library (a ping every 20 s by default, which `websockets.serve`
in `main` leaves on); that is `Notice`. Nobody has to start a command, leave a
chat, or die. No liveness is stated of the relay alone: how long a `send` waits
for a slow reader is the library's, and with every such wait taken to end, no
handler in the model waits for another. `chat_tasks` assumes it for the relay's answers, the
dispatcher, the printer, and the main loop but for the typing of lines and `/quit`.

## The runs and their bounds

| run | instance | distinct states |
|---|---|---|
| `session_lossy` | Alice writes first, 1 prekey, `MAX_SKIP` 1, 4 texts each, no crash | 29 051 |
| `session_both_ways` | both may write first, 3 prekeys, `MAX_SKIP` 3, 3 texts each, 1 crash | 130 328 |
| `session_crash` | Alice writes first, 3 prekeys, `MAX_SKIP` 1, 3 texts each, 2 crashes, a second identity each | 392 552 |
| `relay_commands` | Alice sends twice, or makes seven requests of which six are refused; Bob fetches, sends or asks for her bundle in one terminal, fetches or asks for it in another; a bundle has 1 prekey | 2 670 229 |
| `client_commands` | Alice sends to Bob, who registers, sends, fetches, chats with her or with another, or chats while he registers in a second terminal; sessions there or not; 1 death | 435 554 |
| `chat_tasks` | 3 lines, 3 deliveries, a connection that may break, a setup that may have left a reply behind | 367 198 |

In all of them a process, a text or a connection that has run out of its bound
stops the model, so deadlock is not checked.

*Why they are enough.* Four texts in one direction give chains in which messages
0 to 3 arrive in every order with every gap, and an answer starts a second and a
third chain, so a skip at the end of one and at the start of the next happens in
one call. `MAX_SKIP` 1 then puts payloads at the limit and beyond it in each of the
three ways: in the chain in use, in a fresh one, and by what a header says of the
chain before; what is at the limit must open. In `session_crash` three texts reach
the limit and go beyond it in a fresh chain, with deaths in between. In
`session_both_ways` `MAX_SKIP` 3 is never exceeded: every payload of a session must
open, and one call skips up to two. `MaxKeys` 4 lets a conversation change its
direction seven times before a user can receive no more, which the texts reach only
by answering one by one. Two crashes let a process die in the recovery from a
death. One new identity lets every payload, bundle and session of the old one meet
the new. With 3 prekeys every session of those runs takes one, since a user asks for
one bundle and for one more after each crash. Two connections of one user are what a
replaced connection needs, and two requests of one sender what the order in a queue
needs; two requests for a bundle with one prekey, from two connections, let the
second find it gone. One death is a client's or the relay's; the register of every
command is all the recovery there is, and the model lets Bob's second connection
start after it. Three lines let a late acknowledgement be taken for the next
message's and that one's for the third's; three deliveries let one be in hand, one
unread and one misread.

Runs that show a disagreement, one property each:

| run | property | the code | the claim |
|---|---|---|---|
| `session_crossed` | `SessionsShareSecret` | two users who both write first end with different secrets, and cannot talk | README.md:136 |
| `session_lost_header` | `FirstPayloadCarriesHeader` | a first payload that is lost before it leaves takes the header with it | x3dh.py:91 |
| `session_prekeys` | `PrekeysServeOnce` | a served prekey is published again | relay.py:138, README.md:162 |
| `client_rpc_reply` | `RepliesMatch` | a delivery is taken for the reply to a request | transport.py:43 |
| `client_chat_delivery` | `LiveWhileChatting` | a second command of the user leaves an open chat without live delivery | relay.py:185, relay.py:7 |
| `shared_store` | `UsedForGood` | of two processes the later save brings back a used prekey | README.md:162 |

The consequences of `client_rpc_reply` differ by command. A `fetch` that takes a
delivery for its reply prints "No queued messages" and leaves, with the delivery
and the whole queue lost; a `send` without a session ends in a `KeyError`; a
`send` whose message was accepted reports a failure. In `client_chat_delivery` Bob
chats in one terminal and registers in another: the table of connections has one
entry for a user (relay.py:117), which the second command takes and, when it ends,
removes. The chat is connected and reads on, but the messages of its peer are
queued until some later command fetches. `shared_store` stops at the
prekeys; a second conjunct of `UsedForGood`, that no message key seals twice,
fails as well, when both processes load a session before either saves it.

Four more disagreements were met that have no run of their own. Without a one-time
prekey (`--opks 0`, or all used up) a first payload that comes again is accepted
again, resets the session and is shown twice, against "Replay protection"
(README.md:160): `ForwardSecrecy` is stated for sessions with a prekey for the
same reason. `MAX_SKIP` bounds one skip and not the cache
(double_ratchet.py:39 "max skipped messages to cache keys for", README.md:148).
A fetch whose connection closes costs the queue, which is popped before it is
sent (relay.py:7, README.md:203): what goes into `lost`. And a
message delivered live is queued too when its sender has left, since the
acknowledgement is inside the same `try` (relay.py:196): the exception in
`HandledOnceWhileOpen`.

Every property of a passing run is broken by a changed definition, a plausible
slip in the code it models; those are the `Mut...` operators next to the
definitions they change.

## What is proved

Every theorem is about the specification with its parameters left open: any
users and connections, any numbers of prekeys, texts, lines, requests, deaths,
and any `MAX_SKIP`. Below are the invariants they were proved from.

**Sessions.** The proof modules build on each other.

| theorem | shows |
|---|---|
| `SessionProofs!TypeCorrect` | `Spec => []TypeOK` |
| `SessionProofs!NoKeyIsReused` | `Spec => []NoKeyReuse` |
| `SecrecyProofs!UsedKeysAreGone` | `Spec => []ForwardSecrecy` |
| `SecrecyProofs!FirstPayloadsOpen` | `Spec => []AcceptedHeaderOpens` |
| `ChannelProofs!SessionsAdvance` | `Spec /\ []AlwaysAPrekey => SessionsOnlyAdvance` |
| `ChannelProofs!KeepsThePromise` | `Spec /\ []AlwaysAPrekey => ImplementsChannel` |
| `AgreementProofs!HeaderGoesFirst` | `Spec => [](crashes = 0 => FirstPayloadCarriesHeader)` |
| `AgreementProofs!OneSecret` | `Spec => [](Calm => SessionsShareSecret)`, if `OneWay` |
| `AgreementProofs!UnreadIsReadable` | `Spec /\ []AlwaysAPrekey => []PayloadsStayReadable` |

* `TypeOK` alone is not inductive: cached keys are filed under the remote key, so
  a state with a receive chain must have one. `TypeInv` adds that (`WellFormed`,
  which the lemmas of `RatchetProofs` show to be kept by each operator of the
  ratchet).
* `NoKeyReuse` is proved from `KeyInv`, which adds
  * `KeysGenerated`: every ratchet key that occurs in a session, a bundle, a
    payload or a used message key has a number below its owner's counter;
  * `ChainsApart`: no two sessions have a send chain with one root key;
  * `SealedBehind`: of the keys of a send chain only those behind its head have
    sealed anything.

  A new send chain hangs on a root key into which a key pair generated in the
  same step went; by `KeysGenerated` no root in use contains it, which keeps the
  other two. Saving before sending is what makes `SealedBehind` survive a crash.
* `ForwardSecrecy` and `AcceptedHeaderOpens` are proved from `SecrecyInv`, which
  adds to `KeyInv`
  * `BundlesGenuine` and `HeadersGenuine`: a bundle a user waits for has the keys
    of one identity of its owner; a payload with a header is the first that
    `x3dh_send` and `init_sender` lead to against such a bundle;
  * `SessionsInOrder`: the send chain of a session hangs on its root key, the
    receive chain and the cached keys on roots behind it, and a cached key of the
    receive chain is behind the head of that chain;
  * `SecretsOld`: no X3DH secret from which a user has a session or has used a key
    has a key in it yet to be generated, or a prekey the user still holds;
  * `SecretsApart`: no two sessions of a user descend from one secret with a
    prekey.

  So a session only gives away keys it gave away before or keys of a secret its
  user has not used; and a first payload that comes again would need the prekey
  that was popped for it, which is saved before the session is.
* `AlwaysAPrekey` says that a bundle somebody waits for has a one-time prekey. It
  is a hypothesis because the three properties are false without it: a first
  payload with no prekey that comes again is accepted again, sets the session
  back, is shown twice (see above), and leaves the receiver unable to read a
  later chain. The three passing `session_...` runs
  satisfy it in every state. The refinement is proved step by step: a step that
  seals is `Channel!Write`, one that opens is `Channel!Show`, any other stutters.
  It rests on `ForwardSecrecy` and on `ChannelInv`: sessions took prekeys, texts
  are sealed under one key, a payload carries what was sealed with its key, and a
  text that is shown was opened with the key that sealed it.
* `HeaderGoesFirst` and `OneSecret` name the conditions under which the two are
  true of the code. A death is enough to break the first (`session_lost_header`),
  two users who both write first break the second (`session_crossed`): `OneWay`
  says that of two users only one initiates. `Calm` excludes deaths and new
  identities, after which the two ends differ until the next first payload.
* `UnreadIsReadable` is proved from `ReadInv`, with `SecrecyInv` and
  `SecretsWithPrekey`. `ReadInv` says of every ordered pair of users that they
  are in a `Conversation`, a formula about the author's session, the reader's
  session, the payloads that may still arrive, the texts sealed and the keys the
  reader has used. With the *place* of a chain, the number of outputs that went
  into its root, its parts are
  * `MailInOrder`: the payloads of one chain have one root, one ratchet key and
    one count of the chain before it, above every number in that chain; a first
    chain hangs on a prekey of its reader, a later one exists only if the reader
    has sealed something under the secret;
  * `Author`: the author's session is where each of its payloads was sealed, or
    past it; that of a responder that has opened nothing has written nothing;
  * `Reader`: a payload under the reader's secret is of the next chain, of the
    present one, or of an earlier one, and what the reader has passed by is opened
    or cached; chains it has read from are those of payloads it got;
  * `Faces`: what the author seals next is of the reader's next chain, or of its
    present one and not behind its counter.

  A lemma for each thing a user does (seal, initiate, respond, open from the cache,
  from the present chain, from the next one) keeps `Conversation`, once for the
  author's end and once for the reader's. That a chain starts where its reader
  looks for it needs both directions: an author goes on to a new chain by opening
  an answer, which the reader sealed in the chain it is still in. That a new secret
  meets no old mail is `SecretsOld`; that a new ratchet key does not, `KeyInv`.

**Relay.**

| theorem | shows |
|---|---|
| `RelayProofs!TypeCorrect` | `Spec => []TypeOK` |
| `RelayProofs!RequestsAnsweredOnce` | `Spec => []OneReplyPerRequest` |
| `RelayProofs!PrekeysNotServedTwice` | `Spec => []PrekeysServedOnce` |
| `RelayProofs!OnlyFetchLoses` | `Spec => []LostOnlyInFetch` |
| `RelayProofs!EnvelopesHandledOnce` | `Spec => []HandledOnceWhileOpen` |
| `RelayProofs!ActiveConnectionStays` | `Spec => OpenConnectionStays`, if `RegistersOnce` |

* `TypeOK` is proved from `RelayInv`: a handler in the middle of a delivery has
  the envelope and the connection it goes on with.
* `PrekeysServedOnce` is proved from `PrekeyInv`: a stored bundle came on a
  connection of its user (`BundlesOwned`), and what was served of its upload is no
  longer in it (`ServedBefore`).
* The two on envelopes are proved from `Owned` (a connection is served in the name
  of the user who opened it) and `EnvelopeInv`: what is in queues and frames was
  accepted and is with its addressee, a handler's envelope is its own client's and
  is written (`Located`); none is lost but by a fetch (`NoneLost`), and one that is
  in two places has an ended sender or a closed connection (`OnceWhileOpen`).
* `RegistersOnce`, that a client registers once on a connection, is what every
  command does (`cli.py` registers right after `connect`). `MCRelay` assumes it of
  its scripts, so TLC evaluates it. Without it `OpenConnectionStays` is false: a
  second registration that raises takes the entry of a newer connection with it.

**Commands.** `ClientProofs` proves `ClientsTypeCorrect` (`ClientTypeOK`),
`OnlyDeliveriesConfuse` (`RepliesInStep`), `NoMessageUnaccounted`
(`MessagesAccounted`) and `ReportsAreTrue` (`StatusHonest`), each as
`ClientSpec => [](...)`, from one invariant, `ClientInv`. Its parts are the
relay's (`ServerInv`, from the lemmas about the relay's handlers, which hold for
requests that are added one by one as well as for scripts), and

* `InLine`: a client's requests start with its one register, a send comes last,
  and a client that waits has one request whose reply it has not taken, the last;
* `HandSent`: the message a handler delivers is that of the request it took last;
* `FirstFrames`: nothing is delivered on a connection before its register is
  answered;
* `Answered`: up to the first delivery a connection's frames are the replies to
  its requests, one for one;
* `Told`, `Reports`: a frame "delivered" or "queued" is about the client's one
  send, whose envelope was written or queued, and so is what the client prints;
* `NoneMissing`, `WrittenAccounted`: an accepted envelope has a place at the
  relay, or is in `lost` or in `forgotten`, and one in a frame was
  processed, was let go of, or waits for a client that still reads.

A restart empties the relay's tables. What the parts say of an envelope they say
of the frames and histories, which a restart leaves alone, or of `forgotten`, into
which it moves the queues.

**Chat.**

| theorem | shows |
|---|---|
| `ChatProofs!TypeCorrect` | `Spec => []TypeOK` |
| `ChatProofs!OneTaskReceives` | `Spec => []OneReceiver` |
| `ChatProofs!DeliveriesNotLost` | `Spec => []DeliveriesKept` |
| `ChatProofs!AcksMatch` | `Spec => []AcksInStep` |

* `TypeOK` is inductive as it stands; its part on the dispatcher (in state `held`,
  and in no other, it has a frame) keeps the queues sequences of frames.
* `OneReceiver` is inductive with it: an rpc starts only in `Initiate`, where the
  dispatcher has ended, and both ways out of the rpc make the next dispatcher in
  the step that leaves it.
* `DeliveriesKept`: the deliveries on the wire, in the dispatcher's hand and in
  the queues are one ascending line. That the frame in hand has a place in it
  depends on `OneReceiver`.
* `AcksInStep` is proved with `RepliesInLine` (replies and requests, wherever they
  are, are one ascending line) and `OneUnderway` (while `slips` is 0, only the
  request for which the main loop waits is unanswered or its answer unread).

**Assumptions.** Those of the modules, each by name: `None` is no key, number,
chain key, ratchet state, header, payload or report; users do not initiate with
themselves; a connection has an owner; a client starts with an empty script and a
`send` names its peer; the bounds are natural numbers. TLC evaluates them in the
runs.

**Only model-checked** are

* `CommandsEnd`, `LinesSettle` and `DeliveriesShown`: liveness under fairness is out
  of the prover's reach;
* the six properties of the runs that show a disagreement, which are false.

No module declares a recursive operator.

## What is not modelled

Terminal output, spy mode, logging and read-only commands have no state of the
system. The signature over the signed prekey is always good, since the relay
hands out bundles unchanged. Invalid payloads are not formed. `delete_session`
and `list_users` have no caller. The choice among several identities of one
machine reads one small file and decides nothing else. A torn write of the
identity file, which ends every later command, is not modelled.

`Session` has one process per user; what two of them do to each other is
`SharedStore`, on a session reduced to its send chain. `Client` has no contents of
messages and one death per behaviour; a chat in it sends nothing, which is
`Chat`, for one user.

## Plan

1. Done: all components with state, their runs, and theorems for every safety
   property of the passing runs.
2. Left: `SessionsShareSecret` beyond `Calm`, that is, after how many exchanges two
   users who both wrote first, or registered anew, have one secret again; and
   weaker forms of `AlwaysAPrekey`, which asks for a prekey in every bundle where
   one in the bundle of the session at hand should do.
