-------------------------------- MODULE Auth --------------------------------
(***************************************************************************)
(* The challenge-transaction login: ChallengeHandler, VerifyHandler with   *)
(* Verifier.VerifyChallenge, the in-memory NonceStore and the stateless    *)
(* SessionSigner tokens that RequireSession and RequireAdminSession check. *)
(* newMux mounts the same verify handler twice, each over a signer of its  *)
(* own, with one nonce store behind both.                                  *)
(*                                                                         *)
(* A verify handler makes two separate steps: it burns the nonce under the *)
(* store's mutex, then asks the chain for the operator's public key, which *)
(* may take long or fail; other handlers, the clock and a restart of the   *)
(* portal may come in between.  A signature is the pair of the key that    *)
(* made it and the challenge transaction it is over; a transaction is the  *)
(* operator address and the nonce in its memo.                             *)
(***************************************************************************)
EXTENDS Naturals, FiniteSets

CONSTANTS
    Operators,      \* operator addresses, each with its own key
    Nonces,         \* a nonce is 32 random bytes: never drawn twice
    Admins,         \* ADMIN_OPERATOR_ADDRESSES
    Handlers,       \* concurrent POST /auth/verify and /auth/admin/verify
    NonceTTL, SessionTTL, AdminSessionTTL,
    MaxTime,        \* bound on the clock
    MaxRestarts,    \* bound on restarts
    Configured,     \* the kinds whose secret is configured, not generated
    None

Kinds == {"upload", "admin"}

ASSUME TTLAssumption ==
    /\ NonceTTL \in Nat /\ SessionTTL \in Nat /\ AdminSessionTTL \in Nat
    /\ MaxTime \in Nat /\ MaxRestarts \in Nat

\* parseAdminAllowlist accepts only operator addresses.
ASSUME ConfigAssumption == Configured \subseteq Kinds /\ Admins \subseteq Operators

Tx == [op : Operators, nonce : Nonces]
Entry == [op : Operators, expires : Nat]
Request == [kind : Kinds, op : Operators, nonce : Nonces, key : Operators,
            tx : Tx]

\* A signing secret: the variable it is for and the start that drew it.  A
\* configured one counts as drawn at the first start.
Secret == [of : Kinds, boot : 0 .. MaxRestarts]

ASSUME NoneAssumption ==
    None \notin Operators /\ None \notin Entry /\ None \notin Request

VARIABLES
    now,        \* the server clock
    restarts,   \* restarts so far
    secret,     \* [Kinds -> the secret each SessionSigner holds]
    entries,    \* NonceStore.entries: nonce -> [op, expires], or None
    issued,     \* nonces drawn so far, with their operator (history)
    signed,     \* transactions each operator has signed
    pc,         \* [Handlers -> {"idle", "lookup"}]
    req,        \* [Handlers -> the request being handled, or None]
    sessions    \* tokens minted, each with the nonce it cost (history)

vars == <<now, restarts, secret, entries, issued, signed, pc, req, sessions>>

\* A token and, as history, the endpoint and the start that minted it and the
\* nonce it cost.
Session == [op : Operators, expires : Nat, secret : Secret,
            kind : Kinds, boot : 0 .. MaxRestarts, nonce : Nonces]

TypeOK ==
    /\ now \in 0 .. MaxTime
    /\ restarts \in 0 .. MaxRestarts /\ secret \in [Kinds -> Secret]
    /\ entries \in [Nonces -> Entry \cup {None}]
    /\ issued \in [Nonces -> Operators \cup {None}]
    /\ signed \in [Operators -> SUBSET Tx]
    /\ pc \in [Handlers -> {"idle", "lookup"}]
    /\ req \in [Handlers -> Request \cup {None}]
    /\ \A h \in Handlers : pc[h] = "lookup" <=> req[h] # None
    /\ sessions \subseteq Session

\* loadOrGenerateSecret, once per kind at every start.
Loaded(k, boot) == [of |-> k, boot |-> IF k \in Configured THEN 0 ELSE boot]

Init ==
    /\ now = 0 /\ restarts = 0
    /\ secret = [k \in Kinds |-> Loaded(k, 0)]
    /\ entries = [n \in Nonces |-> None]
    /\ issued = [n \in Nonces |-> None]
    /\ signed = [o \in Operators |-> {}]
    /\ pc = [h \in Handlers |-> "idle"]
    /\ req = [h \in Handlers |-> None]
    /\ sessions = {}

-----------------------------------------------------------------------------
\* POST /auth/challenge: NonceStore.Issue for the operator named.
Challenge(o, n) ==
    /\ issued[n] = None
    /\ issued' = [issued EXCEPT ![n] = o]
    /\ entries' = [entries EXCEPT ![n] = [op |-> o, expires |-> now + NonceTTL]]
    /\ UNCHANGED <<now, restarts, secret, signed, pc, req, sessions>>

\* `gnokey sign` on a challenge an operator has been handed, or one it put
\* together with its own address.
Sign(o, n) ==
    /\ issued[n] # None
    /\ signed' = [signed EXCEPT ![o] = @ \cup {[op |-> o, nonce |-> n]}]
    /\ UNCHANGED <<now, restarts, secret, entries, issued, pc, req, sessions>>

\* NonceStore.consume: the entry is removed whatever the checks say.
FaultyBurned(n) == entries   \* left in place
Burned(n) == [entries EXCEPT ![n] = None]

FaultyNonceValid(o, n) == now <= entries[n].expires
NonceValid(o, n) == now <= entries[n].expires /\ entries[n].op = o

\* POST /auth/verify (or /auth/admin/verify) reaches consume; an unknown nonce
\* (401) changes nothing.
Consume(h, k, o, n, key, tx) ==
    /\ pc[h] = "idle" /\ entries[n] # None /\ tx \in signed[key]
    /\ entries' = Burned(n)
    /\ \/ /\ NonceValid(o, n)
          /\ pc' = [pc EXCEPT ![h] = "lookup"]
          /\ req' = [req EXCEPT ![h] = [kind |-> k, op |-> o, nonce |-> n,
                                        key |-> key, tx |-> tx]]
       \/ ~NonceValid(o, n) /\ UNCHANGED <<pc, req>>
    /\ UNCHANGED <<now, restarts, secret, issued, signed, sessions>>

\* PubKey.VerifyBytes of the signature sent, over the transaction rebuilt
\* from the address and the nonce sent.
FaultySignatureValid(r) == r.tx.nonce = r.nonce
SignatureValid(r) == r.key = r.op /\ r.tx = [op |-> r.op, nonce |-> r.nonce]

HandlerReturns(h) ==
    pc' = [pc EXCEPT ![h] = "idle"] /\ req' = [req EXCEPT ![h] = None]

\* The signer newMux gives the verify handler of a kind.
FaultySigner(k) == secret["upload"]   \* both handlers over one signer
Signer(k) == secret[k]

TTL(k) == IF k = "admin" THEN AdminSessionTTL ELSE SessionTTL

\* The key arrives: a valid signature mints a session (SessionSigner.Issue).
Verify(h) ==
    /\ pc[h] = "lookup"
    /\ \/ /\ SignatureValid(req[h])
          /\ sessions' = sessions \cup
                {[op |-> req[h].op, expires |-> now + TTL(req[h].kind),
                  secret |-> Signer(req[h].kind), kind |-> req[h].kind,
                  boot |-> restarts, nonce |-> req[h].nonce]}
       \/ ~SignatureValid(req[h]) /\ UNCHANGED sessions
    /\ HandlerReturns(h)
    /\ UNCHANGED <<now, restarts, secret, entries, issued, signed>>

\* fetchOperatorPubKey fails: the RPC endpoint, or no key on chain yet.
LookupFails(h) ==
    /\ pc[h] = "lookup" /\ HandlerReturns(h)
    /\ UNCHANGED <<now, restarts, secret, entries, issued, signed, sessions>>

\* SessionSigner.Verify on a token, under the secret of kind k.
Accepts(k, s) == s.secret = secret[k] /\ now <= s.expires

\* The routes of kind k let a token through: RequireSession on the upload
\* routes, RequireAdminSession on the /admin/* data routes.
Admits(k, s) == Accepts(k, s) /\ (k = "admin" => s.op \in Admins)

\* The portal restarts: the nonces were in memory, and a secret that was not
\* configured is generated anew.
Restart ==
    /\ restarts < MaxRestarts
    /\ restarts' = restarts + 1
    /\ secret' = [k \in Kinds |-> Loaded(k, restarts + 1)]
    /\ entries' = [n \in Nonces |-> None]
    /\ pc' = [h \in Handlers |-> "idle"]
    /\ req' = [h \in Handlers |-> None]
    /\ UNCHANGED <<now, issued, signed, sessions>>

Tick ==
    /\ now < MaxTime /\ now' = now + 1
    /\ UNCHANGED <<restarts, secret, entries, issued, signed, pc, req, sessions>>

Next ==
    \/ \E o \in Operators, n \in Nonces : Challenge(o, n) \/ Sign(o, n)
    \/ \E h \in Handlers, k \in Kinds, o \in Operators, n \in Nonces :
          \E key \in Operators : \E tx \in signed[key] : Consume(h, k, o, n, key, tx)
    \/ \E h \in Handlers : Verify(h) \/ LookupFails(h)
    \/ Restart
    \/ Tick

Spec == Init /\ [][Next]_vars

-----------------------------------------------------------------------------
(***************************************************************************)
(* Properties.                                                             *)
(***************************************************************************)

(***************************************************************************)
(* Every session stands for a proof of control made for it: its operator   *)
(* was issued the nonce and signed the challenge that carries it           *)
(* (VerifyChallenge).                                                      *)
(***************************************************************************)
SessionsAreProved ==
    \A s \in sessions :
        /\ issued[s.nonce] = s.op
        /\ [op |-> s.op, nonce |-> s.nonce] \in signed[s.op]

(***************************************************************************)
(* A nonce buys at most one session, with any number of verify requests    *)
(* for it in flight, retried after a failed key lookup or sent again after *)
(* a restart (consume: "a given nonce can only ever be checked once").     *)
(***************************************************************************)
NonceBuysOneSession ==
    \A s, t \in sessions : s.nonce = t.nonce => s = t

(***************************************************************************)
(* A token opens the routes of the endpoint that minted it and no others,  *)
(* until it expires; a restart in between ends it exactly when the secret  *)
(* of its own kind was generated rather than configured, whatever the      *)
(* other's is; and only an allowlisted operator gets through as an admin   *)
(* (newMux: "a validator upload session can never be used as an admin      *)
(* session (and vice versa)"; loadOrGenerateSecret).                       *)
(***************************************************************************)
AccessIsEarned ==
    \A s \in sessions, k \in Kinds :
        Admits(k, s) <=>
            /\ k = s.kind
            /\ now <= s.expires
            /\ k \in Configured \/ s.boot = restarts
            /\ k = "admin" => s.op \in Admins
=============================================================================
