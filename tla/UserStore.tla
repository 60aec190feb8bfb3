------------------------------ MODULE UserStore ------------------------------
(***************************************************************************)
(* The user half of internal/db and the handlers that change it: bucket    *)
(* "users" with its indexes "users_by_token" and "users_by_seed_hash", the *)
(* admin API on the Unix socket (create, delete, regenerate), the public   *)
(* /regenerate, and db.StartCleaner.  A transaction is one step; a handler *)
(* that reads in one transaction and writes in another is two.             *)
(*                                                                         *)
(* Seed phrases and their hashes are identified.  The admin API creates    *)
(* users without an expiry (the zero time, None here); a record that has   *)
(* one is what the cleaner is for.                                         *)
(***************************************************************************)
EXTENDS Naturals

CONSTANTS
    Usernames, Tokens, Seeds,
    Handlers,       \* goroutines that serve admin and /regenerate requests
    Lifetimes,      \* what a new record's Expire leaves, in ticks, or None
    None            \* an absent key, the empty token, the zero time

ASSUME UserAssumption ==
    /\ Lifetimes \subseteq Nat \cup {None}
    /\ None \notin Nat
    /\ None \notin Usernames \cup Tokens \cup Seeds

UserRecord == [token : Tokens \cup {None}, seed : Seeds, left : Nat \cup {None}]

ASSUME UserNoneAssumption == None \notin UserRecord

VARIABLES
    users,      \* bucket users: name -> UserRecord, or None
    byToken,    \* bucket users_by_token: token -> name, or None
    bySeed,     \* bucket users_by_seed_hash: seed -> name, or None
    minted,     \* the tokens and seeds drawn so far
    job         \* handler -> its local state

userVars == <<users, byToken, bySeed, minted, job>>

\* A regeneration remembers the phrase it was asked for with: None from the
\* admin, who names the user.  The code has no more use for it once it has the
\* name; it is kept to say whose phrase asked.
Idle == [pc |-> "idle"]
Job  == {Idle}
    \cup [pc : {"create"}, name : Usernames]
    \cup [pc : {"lookup"}, asked : Seeds]
    \cup [pc : {"update"}, name : Usernames, asked : Seeds \cup {None}]
Goto(h, j) == job' = [job EXCEPT ![h] = j]

Exists(n)  == users[n] # None
Expired(n) == Exists(n) /\ users[n].left = 0

UserInit ==
    /\ users   = [n \in Usernames |-> None]
    /\ byToken = [k \in Tokens |-> None]
    /\ bySeed  = [s \in Seeds |-> None]
    /\ minted  = {}
    /\ job     = [h \in Handlers |-> Idle]

-----------------------------------------------------------------------------
(* Queries: index, then bucket.                                            *)

UserAt(index, k)     == IF index[k] # None /\ Exists(index[k]) THEN index[k] ELSE None
GetUserByToken(k)    == UserAt(byToken, k)
GetUserBySeedHash(s) == UserAt(bySeed, s)

\* bearerUser: the user a request with this token acts as.
BearerUser(k) ==
    LET n == GetUserByToken(k) IN
    IF n # None /\ users[n].token # None THEN n ELSE None

-----------------------------------------------------------------------------
(* Transactions.                                                           *)

CreateUser(n, k, s, left) ==
    /\ users'   = [users EXCEPT ![n] = [token |-> k, seed |-> s, left |-> left]]
    /\ byToken' = [byToken EXCEPT ![k] = n]
    /\ bySeed'  = [bySeed EXCEPT ![s] = n]
    /\ minted'  = minted \cup {k, s}

\* Removing the entry of the empty token removes nothing.
KeptIndex(n)   == byToken                                         \* mutant
WithoutToken(n) ==
    IF users[n].token = None THEN byToken ELSE [byToken EXCEPT ![users[n].token] = None]

UpdateUserToken(n, k) ==
    /\ users'   = [users EXCEPT ![n].token = k]
    /\ byToken' = [WithoutToken(n) EXCEPT ![k] = n]
    /\ minted'  = minted \cup {k}
    /\ UNCHANGED bySeed

\* Leaving the seed's entry would let it recover whoever takes the name next
\* (mutant).
DeleteUserOnly(n) ==
    /\ users'   = [users EXCEPT ![n] = None]
    /\ byToken' = WithoutToken(n)
    /\ UNCHANGED <<bySeed, minted>>
DeleteUser(n) ==
    /\ users'   = [users EXCEPT ![n] = None]
    /\ byToken' = WithoutToken(n)
    /\ bySeed'  = [bySeed EXCEPT ![users[n].seed] = None]
    /\ UNCHANGED minted

-----------------------------------------------------------------------------
(* Handlers.                                                               *)

\* handleAdminCreateUser: GetUser, then CreateUser, which looks again.
AdminCreate(h, n) ==
    /\ job[h] = Idle
    /\ ~Exists(n)
    /\ Goto(h, [pc |-> "create", name |-> n])
    /\ UNCHANGED <<users, byToken, bySeed, minted>>

Unchecked(n) == TRUE                                              \* mutant
Creatable(n) == ~Exists(n)

AdminCreateEnd(h) ==
    /\ job[h].pc = "create"
    /\ LET n == job[h].name IN
        IF Creatable(n)
        THEN \E k \in Tokens \ minted, s \in Seeds \ minted, left \in Lifetimes :
                CreateUser(n, k, s, left)
        ELSE UNCHANGED <<users, byToken, bySeed, minted>>
    /\ Goto(h, Idle)

AdminDelete(n) ==
    /\ Exists(n)
    /\ DeleteUser(n)
    /\ UNCHANGED job

\* handleAdminRegenerate finds the user by name, then updates the token of
\* that name.
AdminRegenerate(h, n) ==
    /\ job[h] = Idle
    /\ Exists(n)
    /\ Goto(h, [pc |-> "update", name |-> n, asked |-> None])
    /\ UNCHANGED <<users, byToken, bySeed, minted>>

\* handleRegenerate, once it may go on, finds the name by the seed phrase; from
\* there it goes on with the name alone.
Regenerate(h, s) ==
    /\ job[h] = Idle
    /\ Goto(h, [pc |-> "lookup", asked |-> s])
    /\ UNCHANGED <<users, byToken, bySeed, minted>>

RegenerateLookup(h) ==
    /\ job[h].pc = "lookup"
    /\ LET s == job[h].asked
           n == GetUserBySeedHash(s) IN
        Goto(h, IF n = None THEN Idle ELSE [pc |-> "update", name |-> n, asked |-> s])
    /\ UNCHANGED <<users, byToken, bySeed, minted>>

RegenerateEnd(h) ==
    /\ job[h].pc = "update"
    /\ LET n == job[h].name IN
        IF Exists(n) THEN \E k \in Tokens \ minted : UpdateUserToken(n, k)
                     ELSE UNCHANGED <<users, byToken, bySeed, minted>>
    /\ Goto(h, Idle)

-----------------------------------------------------------------------------
(* The cleaner: one transaction over all the expired users.                *)

NeverExpiring(n) == Exists(n) /\ users[n].left = None             \* mutant
Reapable(n)  == Expired(n)

InvalidateExpiredUsers ==
    /\ byToken' = [k \in Tokens |->
            IF \E n \in Usernames : Reapable(n) /\ users[n].token = k
            THEN None ELSE byToken[k]]
    /\ users' = [n \in Usernames |->
            IF Reapable(n) THEN [users[n] EXCEPT !.token = None] ELSE users[n]]
    /\ UNCHANGED <<bySeed, minted, job>>

Later(l) == IF l = None \/ l = 0 THEN l ELSE l - 1

UserTick ==
    /\ users' = [n \in Usernames |->
            IF Exists(n) THEN [users[n] EXCEPT !.left = Later(@)] ELSE None]
    /\ UNCHANGED <<byToken, bySeed, minted, job>>

\* A crash: handlers are gone, the database is not.
UserRestart ==
    /\ job' = [h \in Handlers |-> Idle]
    /\ UNCHANGED <<users, byToken, bySeed, minted>>

-----------------------------------------------------------------------------
UserNext ==
    \/ \E h \in Handlers :
        \/ \E n \in Usernames : AdminCreate(h, n) \/ AdminRegenerate(h, n)
        \/ \E s \in Seeds : Regenerate(h, s)
        \/ AdminCreateEnd(h) \/ RegenerateLookup(h) \/ RegenerateEnd(h)
    \/ \E n \in Usernames : AdminDelete(n)
    \/ InvalidateExpiredUsers
    \/ UserTick
    \/ UserRestart

UserSpec == UserInit /\ [][UserNext]_userVars

\* The cleaner's ticker ticks.
UserFairSpec == UserSpec /\ WF_userVars(InvalidateExpiredUsers)

-----------------------------------------------------------------------------
(* Properties.                                                             *)

UserTypeOK ==
    /\ users \in [Usernames -> UserRecord \cup {None}]
    /\ byToken \in [Tokens -> Usernames \cup {None}]
    /\ bySeed \in [Seeds -> Usernames \cup {None}]
    /\ minted \in SUBSET (Tokens \cup Seeds)
    /\ job \in [Handlers -> Job]

\* A token authenticates a user exactly when it is the token of that user's
\* record.  So a user has one working token at a time, and neither a replaced
\* token nor that of a deleted user works.  The token of a user who has expired
\* goes on working until the cleaner clears it: no query looks at the expiry.
TokenIndexExact ==
    \A k \in Tokens, n \in Usernames :
        BearerUser(k) = n <=> (Exists(n) /\ users[n].token = k)

\* A seed phrase is looked up to the user whose record has it, and to nobody
\* once that user is deleted.  This is about the lookup alone: what a handler
\* does later with the name it got is RenewedByOwner.
SeedIndexExact ==
    \A s \in Seeds, n \in Usernames :
        GetUserBySeedHash(s) = n <=> (Exists(n) /\ users[n].seed = s)

\* The buckets and their indexes, under every interleaving of handlers that
\* read in one transaction and write in another, implement Accounts: an account
\* is the seed phrase that recovers it, and a token opens the account of the
\* user it authenticates.
Holder == [s \in Seeds |-> GetUserBySeedHash(s)]
Opened(k) == LET n == BearerUser(k) IN IF n = None THEN None ELSE users[n].seed
Opens  == [k \in Tokens |-> Opened(k)]
Book   == INSTANCE Accounts WITH holder <- Holder, opens <- Opens, spent <- minted
ImplementsAccounts == Book!Spec

\* A token that stopped working never works again, for anybody, whatever a
\* handler that had read the database before goes on to write.
RevokedStep == \A k \in Tokens \cap minted : BearerUser(k) = None => BearerUser(k)' = None
RevokedForever == [][RevokedStep]_userVars

\* Two creations of one name that both found it free do not overwrite each
\* other, and a regeneration changes the token of an account and nothing else:
\* an account changes hands only through its deletion.
AccountStep == \A n \in Usernames :
    Exists(n) /\ Exists(n)' => users'[n].seed = users[n].seed
AccountKept == [][AccountStep]_userVars

\* "The seed phrase is the only way to recover a lost token" (cli/users.go:76):
\* a token handed out for a seed phrase is of the account of that phrase.
RenewedStep == \A h \in Handlers :
    job[h].pc = "update" /\ job[h].asked # None /\ job'[h] = Idle /\ users' # users
        => users[job[h].name].seed = job[h].asked
RenewedByOwner == [][RenewedStep]_userVars

\* "invalidates expired user tokens": the token of an expired user is cleared
\* in the end, one that was renewed after the expiry included.
ExpiredCleared == \A n \in Usernames : Expired(n) ~> (~Expired(n) \/ users[n].token = None)
=============================================================================
