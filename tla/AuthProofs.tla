----------------------------- MODULE AuthProofs -----------------------------
(***************************************************************************)
(* Proofs about the login, for any number of operators, nonces, handlers   *)
(* and restarts.                                                           *)
(***************************************************************************)
EXTENDS Auth, TLAPS

\* A stored nonce belongs to the operator it was issued to.
EntriesInv == \A n \in Nonces : entries[n] # None => issued[n] = entries[n].op

\* While a request waits for the chain its nonce has left the store, no other
\* request waits with it and no session was bought with it.
LookupInv ==
    \A h \in Handlers : pc[h] = "lookup" =>
        /\ entries[req[h].nonce] = None
        /\ issued[req[h].nonce] = req[h].op
        /\ req[h].tx \in signed[req[h].key]
        /\ \A g \in Handlers :
              g # h /\ pc[g] = "lookup" => req[g].nonce # req[h].nonce
        /\ \A s \in sessions : s.nonce # req[h].nonce

\* A nonce that bought a session is not in the store.
SpentInv == \A s \in sessions : entries[s.nonce] = None

\* Every signer holds the secret its kind has after this many starts.
SecretInv == secret = [k \in Kinds |-> Loaded(k, restarts)]

\* A token carries the secret its kind had at the start that minted it.
MintInv ==
    \A s \in sessions : s.boot <= restarts /\ s.secret = Loaded(s.kind, s.boot)

IInv ==
    /\ TypeOK /\ EntriesInv /\ LookupInv /\ SpentInv
    /\ SessionsAreProved /\ NonceBuysOneSession
    /\ SecretInv /\ MintInv

-----------------------------------------------------------------------------
\* No handler, nonce or session exists at the start.
LEMMA InitIInv == Init => IInv
<1> SUFFICES ASSUME Init PROVE IInv
  OBVIOUS
<1>1. TypeOK
  <2>1. 0 \in 0 .. MaxRestarts /\ 0 \in 0 .. MaxTime
    BY TTLAssumption
  <2> QED BY <2>1 DEF Init, TypeOK, Loaded, Secret
<1>2. EntriesInv /\ LookupInv /\ SpentInv
  BY DEF Init, EntriesInv, LookupInv, SpentInv
<1>3. SessionsAreProved /\ NonceBuysOneSession
  BY DEF Init, SessionsAreProved, NonceBuysOneSession
<1>4. SecretInv /\ MintInv
  BY DEF Init, SecretInv, MintInv
<1> QED BY <1>1, <1>2, <1>3, <1>4 DEF IInv

\* Issuing a nonce.
LEMMA ChallengeIInv ==
    ASSUME IInv, NEW o \in Operators, NEW n \in Nonces, Challenge(o, n)
    PROVE  IInv'
<1> USE DEF Challenge
<1>0. TypeOK /\ issued[n] = None /\ now + NonceTTL \in Nat
  BY TTLAssumption DEF IInv, TypeOK
<1>e. [op |-> o, expires |-> now + NonceTTL] \in Entry
  BY <1>0 DEF Entry
<1>1. TypeOK'
  BY <1>e DEF IInv, TypeOK
<1>2. EntriesInv'
  BY <1>0, <1>e, NoneAssumption DEF IInv, EntriesInv, TypeOK
<1>3. ASSUME NEW s \in sessions PROVE s.nonce # n
  <2>1. s.op \in Operators
    BY <1>0 DEF TypeOK, Session
  <2>2. issued[s.nonce] = s.op
    BY DEF IInv, SessionsAreProved
  <2> QED BY <1>0, <2>1, <2>2, NoneAssumption
<1>4. \A h \in Handlers : pc[h] = "lookup" => req[h].nonce # n /\ req[h] \in Request
  BY <1>0, NoneAssumption DEF IInv, LookupInv, TypeOK, Request
<1>5. LookupInv'
  BY <1>0, <1>4 DEF IInv, LookupInv, TypeOK, Request
<1>6. SpentInv' /\ SessionsAreProved' /\ NonceBuysOneSession'
  BY <1>0, <1>3 DEF IInv, SpentInv, SessionsAreProved, NonceBuysOneSession, TypeOK, Session
<1>7. SecretInv' /\ MintInv'
  BY DEF IInv, SecretInv, MintInv
<1> QED BY <1>1, <1>2, <1>5, <1>6, <1>7 DEF IInv

\* Signing a challenge.
LEMMA SignIInv ==
    ASSUME IInv, NEW o \in Operators, NEW n \in Nonces, Sign(o, n)
    PROVE  IInv'
<1> USE DEF Sign
<1>1. TypeOK'
  BY DEF IInv, TypeOK, Tx
<1>2. \A p \in Operators : signed[p] \subseteq signed'[p]
  BY DEF IInv, TypeOK
<1>3. EntriesInv' /\ SpentInv' /\ NonceBuysOneSession'
  BY DEF IInv, EntriesInv, SpentInv, NonceBuysOneSession
<1>4. LookupInv'
  BY <1>2 DEF IInv, LookupInv, TypeOK, Request
<1>5. SessionsAreProved'
  BY <1>2 DEF IInv, SessionsAreProved, TypeOK, Session
<1>6. SecretInv' /\ MintInv'
  BY DEF IInv, SecretInv, MintInv
<1> QED BY <1>1, <1>3, <1>4, <1>5, <1>6 DEF IInv

\* Burning a nonce, whether or not the request goes on.
LEMMA ConsumeIInv ==
    ASSUME IInv, NEW h \in Handlers, NEW k \in Kinds, NEW o \in Operators,
           NEW n \in Nonces, NEW key \in Operators, NEW tx \in signed[key],
           Consume(h, k, o, n, key, tx)
    PROVE  IInv'
<1> USE DEF Consume
<1>0. /\ TypeOK /\ entries[n] # None /\ entries' = [entries EXCEPT ![n] = None]
      /\ issued[n] = entries[n].op /\ pc[h] = "idle"
  BY DEF IInv, Burned, EntriesInv
<1>1. \A s \in sessions : s.nonce # n
  BY <1>0 DEF IInv, SpentInv
<1>2. \A g \in Handlers : pc[g] = "lookup" => req[g].nonce # n /\ req[g] \in Request
  BY <1>0 DEF IInv, LookupInv, TypeOK
<1>3. /\ EntriesInv' /\ SpentInv' /\ SessionsAreProved' /\ NonceBuysOneSession'
      /\ SecretInv' /\ MintInv'
  BY <1>0, <1>1 DEF IInv, EntriesInv, SpentInv, SessionsAreProved,
     NonceBuysOneSession, SecretInv, MintInv, TypeOK, Session
<1>4. CASE UNCHANGED <<pc, req>>
  <2>1. TypeOK'
    BY <1>0, <1>4 DEF TypeOK
  <2>2. LookupInv'
    BY <1>0, <1>2, <1>4 DEF IInv, LookupInv, TypeOK, Request
  <2> QED BY <1>3, <2>1, <2>2 DEF IInv
<1>5. CASE /\ NonceValid(o, n)
           /\ pc' = [pc EXCEPT ![h] = "lookup"]
           /\ req' = [req EXCEPT ![h] = [kind |-> k, op |-> o, nonce |-> n,
                                         key |-> key, tx |-> tx]]
  <2> DEFINE R == [kind |-> k, op |-> o, nonce |-> n, key |-> key, tx |-> tx]
  <2>1. R \in Request /\ R # None
    BY <1>0, NoneAssumption DEF Request, TypeOK
  <2>2. TypeOK'
    BY <1>0, <1>5, <2>1 DEF TypeOK
  <2>3. pc'[h] = "lookup" /\ req'[h] = R /\ issued[n] = o
    BY <1>0, <1>5 DEF TypeOK, NonceValid
  <2>4. \A g \in Handlers : g # h => pc'[g] = pc[g] /\ req'[g] = req[g]
    BY <1>0, <1>5 DEF TypeOK
  <2>5. entries'[n] = None /\ \A m \in Nonces : entries[m] = None => entries'[m] = None
    BY <1>0 DEF TypeOK
  <2>6. LookupInv'
    BY <1>0, <1>1, <1>2, <2>3, <2>4, <2>5 DEF IInv, LookupInv, Request
  <2> QED BY <1>3, <2>2, <2>6 DEF IInv
<1> QED BY <1>4, <1>5

\* The end of a verify request, with a session or without one.
LEMMA VerifyIInv ==
    ASSUME IInv, NEW h \in Handlers, Verify(h) \/ LookupFails(h)
    PROVE  IInv'
<1>0. /\ TypeOK /\ pc[h] = "lookup" /\ req[h] \in Request
      /\ pc' = [pc EXCEPT ![h] = "idle"] /\ req' = [req EXCEPT ![h] = None]
      /\ UNCHANGED <<now, restarts, secret, entries, issued, signed>>
  BY DEF Verify, LookupFails, HandlerReturns, IInv, TypeOK
<1> DEFINE new == [op |-> req[h].op, expires |-> now + TTL(req[h].kind),
                   secret |-> Signer(req[h].kind), kind |-> req[h].kind,
                   boot |-> restarts, nonce |-> req[h].nonce]
<1>1. new \in Session
  <2>1. req[h].kind \in Kinds /\ now + TTL(req[h].kind) \in Nat
    BY <1>0, TTLAssumption DEF TypeOK, Request, TTL
  <2>2. Signer(req[h].kind) \in Secret
    BY <1>0, <2>1 DEF TypeOK, Signer
  <2> QED BY <1>0, <2>1, <2>2 DEF TypeOK, Session, Request
<1>2. sessions' = sessions \/ (SignatureValid(req[h]) /\ sessions' = sessions \cup {new})
  BY DEF Verify, LookupFails
<1>3. sessions' \subseteq Session /\ sessions' \subseteq sessions \cup {new}
  BY <1>0, <1>1, <1>2 DEF TypeOK
<1>4. \A g \in Handlers : pc'[g] = "lookup" =>
          g # h /\ pc[g] = "lookup" /\ req'[g] = req[g] /\ req[g] \in Request
  BY <1>0 DEF TypeOK
<1>5. TypeOK'
  <2>1. \A g \in Handlers : pc'[g] = "lookup" <=> req'[g] # None
    BY <1>0 DEF TypeOK
  <2> QED BY <1>0, <1>3, <2>1 DEF TypeOK
<1>6. EntriesInv'
  BY <1>0 DEF IInv, EntriesInv
<1>7. LookupInv'
  BY <1>0, <1>3, <1>4 DEF IInv, LookupInv
<1>8. SpentInv'
  BY <1>0, <1>3 DEF IInv, SpentInv, LookupInv
<1>9. SessionsAreProved'
  <2>1. SignatureValid(req[h]) =>
            /\ issued[req[h].nonce] = req[h].op
            /\ [op |-> req[h].op, nonce |-> req[h].nonce] \in signed[req[h].op]
    BY <1>0 DEF IInv, LookupInv, SignatureValid
  <2>2. new.op = req[h].op /\ new.nonce = req[h].nonce
    OBVIOUS
  <2> HIDE DEF new
  <2>3. ASSUME NEW s \in sessions'
        PROVE  /\ issued[s.nonce] = s.op
               /\ [op |-> s.op, nonce |-> s.nonce] \in signed[s.op]
    <3>1. CASE s \in sessions
      BY <3>1 DEF IInv, SessionsAreProved
    <3>2. CASE s = new /\ SignatureValid(req[h])
      BY <2>1, <2>2, <3>2
    <3> QED BY <1>2, <3>1, <3>2
  <2> QED BY <1>0, <2>3 DEF SessionsAreProved
<1>10. NonceBuysOneSession'
  BY <1>0, <1>3 DEF IInv, NonceBuysOneSession, LookupInv
<1>11. SecretInv'
  BY <1>0 DEF IInv, SecretInv
<1>12. MintInv'
  <2>1. new.boot = restarts /\ new.secret = Loaded(new.kind, restarts)
    BY <1>0 DEF IInv, SecretInv, Signer, Request
  <2>2. restarts <= restarts
    BY <1>0, TTLAssumption DEF TypeOK
  <2> HIDE DEF new
  <2> QED BY <1>0, <1>3, <2>1, <2>2 DEF IInv, MintInv
<1> QED BY <1>5, <1>6, <1>7, <1>8, <1>9, <1>10, <1>11, <1>12 DEF IInv

\* A restart.
LEMMA RestartIInv == IInv /\ Restart => IInv'
<1> SUFFICES ASSUME IInv, Restart PROVE IInv'
  OBVIOUS
<1> USE DEF Restart
<1>0. TypeOK /\ restarts' \in 0 .. MaxRestarts /\ restarts <= restarts'
  BY TTLAssumption DEF IInv, TypeOK
<1>1. TypeOK'
  <2>1. 0 \in 0 .. MaxRestarts
    BY TTLAssumption
  <2>2. secret' \in [Kinds -> Secret]
    BY <1>0, <2>1 DEF Loaded, Secret
  <2> QED BY <1>0, <2>2 DEF TypeOK
<1>2. EntriesInv' /\ LookupInv'
  BY DEF EntriesInv, LookupInv
<1>3. SpentInv' /\ SessionsAreProved' /\ NonceBuysOneSession'
  BY DEF IInv, SpentInv, SessionsAreProved, NonceBuysOneSession, TypeOK, Session
<1>4. SecretInv'
  BY DEF SecretInv
<1>5. MintInv'
  <2> SUFFICES ASSUME NEW s \in sessions
               PROVE  s.boot <= restarts' /\ s.secret = Loaded(s.kind, s.boot)
    BY DEF MintInv
  <2>1. s.boot \in 0 .. MaxRestarts
    BY <1>0 DEF TypeOK, Session
  <2> QED BY <1>0, <2>1 DEF IInv, MintInv, TypeOK
<1> QED BY <1>1, <1>2, <1>3, <1>4, <1>5 DEF IInv

\* The invariant holds in every reachable state.
LEMMA Invariance == Spec => []IInv
<1>1. IInv /\ [Next]_vars => IInv'
  <2> SUFFICES ASSUME IInv, [Next]_vars PROVE IInv'
    OBVIOUS
  <2>1. CASE UNCHANGED vars \/ Tick
    <3>1. now' \in 0 .. MaxTime /\ UNCHANGED <<restarts, secret, entries, issued, signed, pc, req, sessions>>
      BY <2>1, TTLAssumption DEF vars, Tick, IInv, TypeOK
    <3> QED BY <3>1 DEF IInv, TypeOK, EntriesInv, LookupInv, SpentInv,
       SessionsAreProved, NonceBuysOneSession, SecretInv, MintInv
  <2> QED BY <2>1, ChallengeIInv, SignIInv, ConsumeIInv, VerifyIInv, RestartIInv
          DEF Next
<1> QED BY <1>1, InitIInv, PTL DEF Spec

(***************************************************************************)
(* Type correctness: in particular a verify handler holds a request        *)
(* exactly while it waits for the chain.                                   *)
(***************************************************************************)
THEOREM AuthTypeCorrect == Spec => []TypeOK
<1>1. IInv => TypeOK
  BY DEF IInv
<1> QED BY <1>1, Invariance, PTL

(***************************************************************************)
(* VerifyHandler mints a session only for an operator who signed the       *)
(* challenge issued to it.                                                 *)
(***************************************************************************)
THEOREM EverySessionProved == Spec => []SessionsAreProved
<1>1. IInv => SessionsAreProved
  BY DEF IInv
<1> QED BY <1>1, Invariance, PTL

(***************************************************************************)
(* NonceStore.consume lets a nonce buy one session at most, across         *)
(* concurrent requests, failed lookups and restarts.                       *)
(***************************************************************************)
THEOREM OneSessionPerNonce == Spec => []NonceBuysOneSession
<1>1. IInv => NonceBuysOneSession
  BY DEF IInv
<1> QED BY <1>1, Invariance, PTL

(***************************************************************************)
(* RequireSession and RequireAdminSession let a token through exactly on   *)
(* the routes of the endpoint that minted it, until it expires or a        *)
(* restart replaces the secret of its kind, and as an admin only when its  *)
(* operator is allowlisted.                                                *)
(***************************************************************************)
THEOREM AccessIsAlwaysEarned == Spec => []AccessIsEarned
<1>1. IInv => AccessIsEarned
  <2> SUFFICES ASSUME IInv, NEW s \in sessions, NEW k \in Kinds
               PROVE  Admits(k, s) <=>
                        /\ k = s.kind
                        /\ now <= s.expires
                        /\ k \in Configured \/ s.boot = restarts
                        /\ k = "admin" => s.op \in Admins
    BY DEF AccessIsEarned
  <2>1. s.secret = Loaded(s.kind, s.boot) /\ secret[k] = Loaded(k, restarts)
    BY DEF IInv, MintInv, SecretInv
  <2>2. s.secret = secret[k] <=>
            k = s.kind /\ (k \in Configured \/ s.boot = restarts)
    BY <2>1 DEF Loaded
  <2> QED BY <2>2 DEF Admits, Accepts
<1> QED BY <1>1, Invariance, PTL
=============================================================================
