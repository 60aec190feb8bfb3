---------------------------- MODULE SessionStore ----------------------------
(***************************************************************************)
(* The session half of internal/db: the bucket "sessions" and its two      *)
(* secondary indexes, "sessions_by_subdomain" and "sessions_by_pubkey".    *)
(* Every operation of the code is one bbolt transaction, hence one step    *)
(* here, and bbolt's durability means a restart of the server changes      *)
(* nothing in this module.                                                 *)
(*                                                                         *)
(* A session is identified by its setup token; the chisel password drawn   *)
(* beside it (randHex) is unique to the session in the same way and is     *)
(* identified with the token.  Timestamps are kept as ages: `time.Since`   *)
(* or "time left", in ticks, saturating at Horizon, so time never ends.    *)
(***************************************************************************)
EXTENDS Naturals

CONSTANTS
    SetupTokens,    \* the setup tokens randHex may draw
    Subdomains,     \* the names validateSubdomain accepts
    Keys,           \* ed25519 public keys, as bytes
    Ports,          \* server-side ports
    Nonces,         \* challenge nonces
    Modes,          \* session modes: "http", "tcp/udp"
    TTLs,           \* the lifetimes effectiveTTL grants, in ticks
    Horizon,        \* ages saturate here
    None            \* an absent key of a bucket, "" or nil

ASSUME HorizonAssumption == Horizon \in Nat
ASSUME TTLAssumption     == TTLs \subseteq 0..Horizon

(***************************************************************************)
(* A public key reaches the server as hex text.  hex.DecodeString accepts  *)
(* both cases, hex.EncodeToString always answers in lower case.            *)
(***************************************************************************)
PubHex       == [key : Keys, lower : BOOLEAN]
EncodeHex(k) == [key |-> k, lower |-> TRUE]

Ages == 0..Horizon

Session ==
    [sub : Subdomains, mode : Modes, port : Ports, infinity : BOOLEAN,
     key : Keys \cup {None}, nonce : Nonces \cup {None}, nonceAge : Ages,
     activated : BOOLEAN, activeAge : Ages, left : Ages]

\* None is not a value of any of the sets it is added to.
ASSUME NoneAssumption ==
    /\ None \notin Session
    /\ None \notin SetupTokens \cup Subdomains \cup Keys \cup Nonces \cup Ports

VARIABLES
    sessions,   \* bucket sessions: token -> Session, or None
    bySub,      \* bucket sessions_by_subdomain: name -> token, or None
    byKey,      \* bucket sessions_by_pubkey: hex text -> token, or None
    issued      \* the tokens randHex has drawn so far

storeVars == <<sessions, bySub, byKey, issued>>

Live(t)    == sessions[t] # None
Active(t)  == Live(t) /\ sessions[t].activated
Pending(t) == Live(t) /\ ~sessions[t].activated
LiveTokens == {t \in SetupTokens : Live(t)}

-----------------------------------------------------------------------------
(* Queries.                                                                *)

\* Index, then bucket: an entry that leads nowhere is no session.
Lookup(index, k) == IF index[k] # None /\ Live(index[k]) THEN index[k] ELSE None
GetSessionByPubkey(p) == Lookup(byKey, p)

-----------------------------------------------------------------------------
(* Transactions.                                                           *)

StoreInit ==
    /\ sessions = [t \in SetupTokens |-> None]
    /\ bySub    = [s \in Subdomains |-> None]
    /\ byKey    = [p \in PubHex |-> None]
    /\ issued   = {}

\* randHex(32) never draws the same token twice.
Fresh(t) == t \notin issued

\* A name that is taken makes CreateSession fail (a preferred one) or be
\* drawn again (a random one): either way only a free name is given out.
NameUnchecked(s) == s \in Subdomains                           \* mutant
NameFree(s)      == bySub[s] = None

CreateSession(t, s, m, p, inf, ttl) ==
    /\ Fresh(t)
    /\ NameFree(s)
    /\ sessions' = [sessions EXCEPT ![t] =
            [sub |-> s, mode |-> m, port |-> p, infinity |-> inf,
             key |-> None, nonce |-> None, nonceAge |-> 0,
             activated |-> FALSE, activeAge |-> 0,
             left |-> IF inf THEN 0 ELSE ttl]]
    /\ bySub' = [bySub EXCEPT ![s] = t]
    /\ issued' = issued \cup {t}
    /\ UNCHANGED byKey

RegistrableAgain(t) == Pending(t)                              \* mutant
Registrable(t)      == Pending(t) /\ sessions[t].key = None

\* The index is keyed by the text the client sent, not by its bytes.
RegisterPubkey(t, p) ==
    /\ Registrable(t)
    /\ sessions' = [sessions EXCEPT ![t].key = p.key]
    /\ byKey' = [byKey EXCEPT ![p] = t]
    /\ UNCHANGED <<bySub, issued>>

\* The transaction reads the record again: writing back the copy the handler
\* read before it would undo an activation (mutant).
StaleNonce(r, n) == [r EXCEPT !.nonce = n, !.nonceAge = 0,
                              !.activated = FALSE, !.activeAge = 0]
WithNonce(r, n)  == [r EXCEPT !.nonce = n, !.nonceAge = 0]

\* Without its "session not found" the transaction would put back a record
\* that has nothing but a nonce (mutant).
Upserted(n) == [sub |-> None, mode |-> None, port |-> None, infinity |-> FALSE,
                key |-> None, nonce |-> n, nonceAge |-> 0,
                activated |-> FALSE, activeAge |-> 0, left |-> 0]
UpsertSessionNonce(t, n) ==
    /\ sessions' = [sessions EXCEPT ![t] =
                        IF Live(t) THEN WithNonce(@, n) ELSE Upserted(n)]
    /\ UNCHANGED <<bySub, byKey, issued>>
UpdateSessionNonce(t, n) ==
    /\ Live(t)
    /\ sessions' = [sessions EXCEPT ![t] = WithNonce(@, n)]
    /\ UNCHANGED <<bySub, byKey, issued>>

\* A second activation is accepted, and restarts ActivatedAt.
AsActivated(r) == [r EXCEPT !.activated = TRUE, !.activeAge = 0,
                            !.nonce = None, !.nonceAge = 0]

ActivateSession(t) ==
    /\ Live(t)
    /\ sessions' = [sessions EXCEPT ![t] = AsActivated(@)]
    /\ UNCHANGED <<bySub, byKey, issued>>

\* bucket.Delete of a key that is absent, or that belongs to somebody else,
\* is not an error: the index entries go by name.
DeleteSession(t) ==
    /\ Live(t)
    /\ sessions' = [sessions EXCEPT ![t] = None]
    /\ bySub' = [bySub EXCEPT ![sessions[t].sub] = None]
    /\ byKey' = IF sessions[t].key = None THEN byKey
                ELSE [byKey EXCEPT ![EncodeHex(sessions[t].key)] = None]
    /\ UNCHANGED issued

-----------------------------------------------------------------------------
(* Time.  NonceAt is read only while there is a nonce, ActivatedAt only    *)
(* once activated, ExpiresAt only without infinity: the rest stays at 0.   *)

Older(n)  == IF n < Horizon THEN n + 1 ELSE n
Sooner(n) == IF n > 0 THEN n - 1 ELSE n

Aged(r) ==
    [r EXCEPT !.nonceAge  = IF r.nonce # None THEN Older(@) ELSE @,
              !.activeAge = IF r.activated THEN Older(@) ELSE @,
              !.left      = Sooner(@)]

Tick ==
    /\ sessions' = [t \in SetupTokens |->
                        IF Live(t) THEN Aged(sessions[t]) ELSE None]
    /\ UNCHANGED <<bySub, byKey, issued>>

-----------------------------------------------------------------------------
StoreNext ==
    \/ \E t \in SetupTokens, s \in Subdomains, m \in Modes, p \in Ports,
          inf \in BOOLEAN, ttl \in TTLs : CreateSession(t, s, m, p, inf, ttl)
    \/ \E t \in SetupTokens, p \in PubHex : RegisterPubkey(t, p)
    \/ \E t \in SetupTokens, n \in Nonces : UpdateSessionNonce(t, n)
    \/ \E t \in SetupTokens : ActivateSession(t)
    \/ \E t \in SetupTokens : DeleteSession(t)
    \/ Tick

StoreSpec == StoreInit /\ [][StoreNext]_storeVars

-----------------------------------------------------------------------------
(* Properties.                                                             *)

\* Every bucket holds what the code puts there.
StoreTypeOK ==
    /\ sessions \in [SetupTokens -> Session \cup {None}]
    /\ bySub \in [Subdomains -> SetupTokens \cup {None}]
    /\ byKey \in [PubHex -> SetupTokens \cup {None}]
    /\ issued \in SUBSET SetupTokens

\* The subdomain index and the bucket of sessions say the same thing, entry
\* by entry, after any sequence of transactions: the name of a live session
\* leads to it, and a name that leads somewhere leads to a live session of
\* that name.  So two live sessions never share a subdomain, and a name is
\* free again exactly when its session is gone.
SubIndexExact ==
    \A t \in SetupTokens, s \in Subdomains :
        bySub[s] = t <=> (Live(t) /\ sessions[t].sub = s)

\* A public key never leads to somebody else's session: whatever the index
\* holds (stale entries and overwritten ones included), a session found by
\* GetSessionByPubkey has that very key.  handleVerify relies on it: it
\* checks the signature against the key in the request, not the stored one.
KeyLeadsToOwner ==
    \A p \in PubHex :
        LET t == GetSessionByPubkey(p) IN t # None => sessions[t].key = p.key

\* What a session is never changes while it lives: its name, mode, port and
\* infinity are those of its creation, a registered key is never replaced, and
\* an activated session never becomes pending again.
IdentityStep ==
    \A t \in SetupTokens : Live(t) /\ Live(t)' =>
        /\ sessions'[t].sub  = sessions[t].sub
        /\ sessions'[t].mode = sessions[t].mode
        /\ sessions'[t].port = sessions[t].port
        /\ sessions'[t].infinity = sessions[t].infinity
        /\ sessions[t].key # None => sessions'[t].key = sessions[t].key
        /\ sessions[t].activated => sessions'[t].activated
SessionIdentityStable == [][IdentityStep]_storeVars

\* A deleted session never comes back under its token, which is what lets a
\* stale index entry, or a cleaner's stale list of tokens, be harmless.
NoReturnStep   == \A t \in issued : ~Live(t) => ~Live(t)'
DeletedForever == [][NoReturnStep]_storeVars

-----------------------------------------------------------------------------
(* Refinement: the buckets implement SessionRegistry.                      *)

StageOf(t) == IF ~Live(t) THEN IF t \in issued THEN "gone" ELSE "unused"
              ELSE IF sessions[t].activated THEN "active" ELSE "pending"
LeaseOf(t) == IF Live(t) THEN sessions[t].sub ELSE None

Stage == [t \in SetupTokens |-> StageOf(t)]
Lease == [t \in SetupTokens |-> LeaseOf(t)]

Registry == INSTANCE SessionRegistry WITH stage <- Stage, lease <- Lease

\* Every transaction is a step of the registry or invisible to it.  The
\* registry grants a name when no lease holds it; the code asks the index.
ImplementsRegistry == Registry!Spec
=============================================================================
