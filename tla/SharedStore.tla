----------------------------- MODULE SharedStore -----------------------------
(***************************************************************************)
(* Two processes of one user on one identity file and one session store:   *)
(* a chat in one terminal and a send or a fetch in another.  A process     *)
(* loads the identity when it starts, keeps it, and saves all of it when   *)
(* it has taken out a prekey; it loads a session, seals with it and saves  *)
(* it, under no transaction that spans the three.                          *)
(*                                                                         *)
(* A session is reduced to its send chain, a message key to its number.    *)
(***************************************************************************)
EXTENDS Keys, Sequences

CONSTANTS Process,   \* the processes of the user
          NumOpks,   \* register --opks
          MaxSeals   \* texts sealed, a bound of the model

VARIABLES
    file,       \* ids of the one-time prekeys in identity.json
    row,        \* the number of the next message key, in store.db
    identity,   \* identity[p]: the ids of the prekeys p has in memory
    state,      \* state[p]: the session p has loaded
    used,       \* history: the prekeys a session was set up with
    sealed      \* history: the message keys used, in order

vars == <<file, row, identity, state, used, sealed>>

TypeOK ==
    /\ file \in SUBSET Nat
    /\ row \in Nat
    /\ identity \in [Process -> SUBSET Nat \cup {None}]
    /\ state \in [Process -> Nat \cup {None}]
    /\ used \in SUBSET Nat
    /\ sealed \in Seq(Nat)

Init ==
    /\ file = GeneratedOpks(NumOpks)
    /\ row = 0
    /\ identity = [p \in Process |-> None]
    /\ state = [p \in Process |-> None]
    /\ used = {}
    /\ sealed = << >>

(* LocalIdentity.load, as the command starts. *)
LoadIdentity(p) ==
    /\ identity[p] = None
    /\ identity' = [identity EXCEPT ![p] = file]
    /\ UNCHANGED <<file, row, state, used, sealed>>

(* _x3dh_respond: the prekey is popped in memory, the identity saved.      *)
Respond(p, opk_id) ==
    /\ identity[p] # None
    /\ opk_id \in identity[p]
    /\ identity' = [identity EXCEPT ![p] = PopOpk(@, opk_id)]
    /\ file' = identity'[p]
    /\ used' = used \cup {opk_id}
    /\ UNCHANGED <<row, state, sealed>>

LoadSession(p) ==
    /\ identity[p] # None
    /\ state' = [state EXCEPT ![p] = row]
    /\ UNCHANGED <<file, row, identity, used, sealed>>

(* encrypt_message and save_session. *)
SealAndSave(p) ==
    /\ state[p] # None
    /\ Len(sealed) < MaxSeals
    /\ sealed' = Append(sealed, state[p])
    /\ row' = state[p] + 1
    /\ state' = [state EXCEPT ![p] = None]
    /\ UNCHANGED <<file, identity, used>>

Stop(p) ==
    /\ identity[p] # None
    /\ identity' = [identity EXCEPT ![p] = None]
    /\ state' = [state EXCEPT ![p] = None]
    /\ UNCHANGED <<file, row, used, sealed>>

Next ==
    \E p \in Process :
        \/ LoadIdentity(p) \/ LoadSession(p) \/ SealAndSave(p) \/ Stop(p)
        \/ \E opk_id \in GeneratedOpks(NumOpks) : Respond(p, opk_id)

Spec == Init /\ [][Next]_vars

(* What a process has used is used for good, on disk as well: no prekey    *)
(* that set up a session is in the identity file again ("One-time prekeys  *)
(* consumed immediately"), no message key seals twice.                     *)
UsedForGood ==
    /\ file \cap used = {}
    /\ \A i, j \in DOMAIN sealed : sealed[i] = sealed[j] => i = j
=============================================================================
