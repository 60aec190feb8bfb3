--------------------------- MODULE UserStoreProofs ---------------------------
(***************************************************************************)
(* The user store is correct for any sets of names, tokens, seeds and      *)
(* handlers: its types, both indexes, and that no token works again once   *)
(* it has stopped working.                                                 *)
(***************************************************************************)
EXTENDS UserStore, TLAPS

-----------------------------------------------------------------------------
(* The inductive invariant: the indexes themselves are exact, and what the *)
(* records hold was drawn, so that what is drawn now is in no index.       *)

TokensIndexed == \A k \in Tokens, n \in Usernames :
    byToken[k] = n <=> (Exists(n) /\ users[n].token = k)

SeedsIndexed == \A s \in Seeds, n \in Usernames :
    bySeed[s] = n <=> (Exists(n) /\ users[n].seed = s)

RecordsMinted == \A n \in Usernames : Exists(n) =>
    /\ users[n].seed \in minted
    /\ users[n].token # None => users[n].token \in minted

UserInv == UserTypeOK /\ TokensIndexed /\ SeedsIndexed /\ RecordsMinted

LEMMA UserInitInv == UserInit => UserInv
BY UserAssumption, UserNoneAssumption
   DEF UserInit, UserInv, UserTypeOK, TokensIndexed, SeedsIndexed, RecordsMinted,
       Exists, Job

\* A record is a record, and never None.
LEMMA RecordShape ==
    ASSUME UserInv, NEW n \in Usernames, Exists(n)
    PROVE  users[n] \in UserRecord
BY DEF UserInv, UserTypeOK, Exists

-----------------------------------------------------------------------------
(* One lemma per transaction.                                              *)

LEMMA CreateUserInv ==
    ASSUME UserInv, NEW n \in Usernames, NEW k \in Tokens \ minted,
           NEW s \in Seeds \ minted, NEW left \in Lifetimes,
           ~Exists(n), CreateUser(n, k, s, left), job' \in [Handlers -> Job]
    PROVE  UserInv'
<1> DEFINE r == [token |-> k, seed |-> s, left |-> left]
<1>1. r \in UserRecord /\ r.token = k /\ r.seed = s /\ r # None
  BY UserAssumption, UserNoneAssumption DEF UserRecord
<1>2. /\ users' = [users EXCEPT ![n] = r] /\ byToken' = [byToken EXCEPT ![k] = n]
      /\ bySeed' = [bySeed EXCEPT ![s] = n] /\ minted' = minted \cup {k, s}
  BY DEF CreateUser
<1> HIDE DEF r
<1>3. UserTypeOK'
  BY <1>1, <1>2 DEF UserInv, UserTypeOK
<1>4. /\ users'[n] = r /\ \A m \in Usernames \ {n} : users'[m] = users[m]
      /\ byToken'[k] = n /\ \A q \in Tokens \ {k} : byToken'[q] = byToken[q]
      /\ bySeed'[s] = n /\ \A q \in Seeds \ {s} : bySeed'[q] = bySeed[q]
  BY <1>2 DEF UserInv, UserTypeOK
<1>5. TokensIndexed'
  BY <1>1, <1>4, UserAssumption DEF UserInv, TokensIndexed, RecordsMinted, Exists
<1>6. SeedsIndexed'
  BY <1>1, <1>4, UserAssumption DEF UserInv, SeedsIndexed, RecordsMinted, Exists
<1>7. RecordsMinted'
  BY <1>1, <1>2, <1>4 DEF UserInv, RecordsMinted, Exists
<1> QED BY <1>3, <1>5, <1>6, <1>7 DEF UserInv

\* Taking the token of a user out of the index.
LEMMA WithoutTokenIndex ==
    ASSUME UserInv, NEW n \in Usernames, Exists(n)
    PROVE  /\ WithoutToken(n) \in [Tokens -> Usernames \cup {None}]
           /\ \A k \in Tokens :
                WithoutToken(n)[k] = IF users[n].token = k THEN None ELSE byToken[k]
<1>1. users[n].token \in Tokens \cup {None} /\ byToken \in [Tokens -> Usernames \cup {None}]
  BY RecordShape DEF UserRecord, UserInv, UserTypeOK
<1> QED BY <1>1, UserAssumption DEF WithoutToken

LEMMA DeleteUserInv ==
    ASSUME UserInv, NEW n \in Usernames, Exists(n), DeleteUser(n), job' = job
    PROVE  UserInv'
<1>1. users[n] \in UserRecord
  BY RecordShape
<1>2. /\ users'[n] = None /\ \A m \in Usernames \ {n} : users'[m] = users[m]
      /\ users' \in [Usernames -> UserRecord \cup {None}]
  BY DEF DeleteUser, UserInv, UserTypeOK
<1>3. /\ byToken' \in [Tokens -> Usernames \cup {None}]
      /\ \A k \in Tokens : byToken'[k] = IF users[n].token = k THEN None ELSE byToken[k]
  BY WithoutTokenIndex DEF DeleteUser
<1>4. /\ bySeed' \in [Seeds -> Usernames \cup {None}]
      /\ \A s \in Seeds : bySeed'[s] = IF users[n].seed = s THEN None ELSE bySeed[s]
  BY <1>1 DEF DeleteUser, UserInv, UserTypeOK, UserRecord
<1>5. UserTypeOK' /\ RecordsMinted'
  BY <1>2, <1>3, <1>4 DEF DeleteUser, UserInv, UserTypeOK, RecordsMinted, Exists
<1>6. TokensIndexed'
  BY <1>2, <1>3, UserAssumption DEF UserInv, TokensIndexed, Exists
<1>7. SeedsIndexed'
  BY <1>2, <1>4, UserAssumption DEF UserInv, SeedsIndexed, Exists
<1> QED BY <1>5, <1>6, <1>7 DEF UserInv

LEMMA UpdateTokenInv ==
    ASSUME UserInv, NEW n \in Usernames, Exists(n), NEW k \in Tokens \ minted,
           UpdateUserToken(n, k), job' \in [Handlers -> Job]
    PROVE  UserInv'
<1> DEFINE r == [users[n] EXCEPT !.token = k]
<1>1. /\ users[n] \in UserRecord /\ r \in UserRecord /\ r # None
      /\ r.token = k /\ r.seed = users[n].seed
  BY RecordShape, UserNoneAssumption DEF UserRecord
<1>2. /\ users'[n] = r /\ \A m \in Usernames \ {n} : users'[m] = users[m]
      /\ users' \in [Usernames -> UserRecord \cup {None}]
  BY <1>1 DEF UpdateUserToken, UserInv, UserTypeOK
<1> HIDE DEF r
<1>3. /\ byToken' \in [Tokens -> Usernames \cup {None}] /\ byToken'[k] = n
      /\ \A q \in Tokens \ {k} :
            byToken'[q] = IF users[n].token = q THEN None ELSE byToken[q]
  BY WithoutTokenIndex DEF UpdateUserToken
<1>4. UserTypeOK' /\ RecordsMinted'
  BY <1>1, <1>2, <1>3 DEF UpdateUserToken, UserInv, UserTypeOK, RecordsMinted, Exists
<1>5. TokensIndexed'
  <2> SUFFICES ASSUME NEW q \in Tokens, NEW m \in Usernames
               PROVE  byToken'[q] = m <=> (Exists(m)' /\ users'[m].token = q)
    BY DEF TokensIndexed
  <2>1. CASE q = k
    BY <2>1, <1>1, <1>2, <1>3, UserAssumption DEF UserInv, RecordsMinted, Exists
  <2>2. CASE q # k
    BY <2>2, <1>1, <1>2, <1>3, UserAssumption DEF UserInv, TokensIndexed, Exists
  <2> QED BY <2>1, <2>2
<1>6. SeedsIndexed'
  BY <1>1, <1>2 DEF UpdateUserToken, UserInv, SeedsIndexed, Exists
<1> QED BY <1>4, <1>5, <1>6 DEF UserInv

LEMMA InvalidateInv == UserInv /\ InvalidateExpiredUsers => UserInv'
<1> SUFFICES ASSUME UserInv, InvalidateExpiredUsers PROVE UserInv'
  OBVIOUS
<1>1. ASSUME NEW n \in Usernames, Exists(n)
      PROVE  /\ users'[n] \in UserRecord /\ users'[n] # None
             /\ users'[n].seed = users[n].seed
             /\ users'[n].token = IF Reapable(n) THEN None ELSE users[n].token
  BY <1>1, RecordShape, UserNoneAssumption DEF InvalidateExpiredUsers, UserRecord
<1>2. ASSUME NEW n \in Usernames, ~Exists(n) PROVE users'[n] = None
  BY <1>2 DEF InvalidateExpiredUsers, Reapable, Expired, Exists
<1>3. UserTypeOK' /\ RecordsMinted'
  <2>1. users' \in [Usernames -> UserRecord \cup {None}]
    BY <1>1, <1>2 DEF InvalidateExpiredUsers
  <2>2. byToken' \in [Tokens -> Usernames \cup {None}]
    BY DEF InvalidateExpiredUsers, UserInv, UserTypeOK
  <2> QED BY <2>1, <2>2, <1>1, <1>2
          DEF InvalidateExpiredUsers, UserInv, UserTypeOK, RecordsMinted, Exists
<1>4. SeedsIndexed'
  BY <1>1, <1>2 DEF InvalidateExpiredUsers, UserInv, SeedsIndexed, Exists
<1>5. TokensIndexed'
  <2> SUFFICES ASSUME NEW k \in Tokens, NEW n \in Usernames
               PROVE  byToken'[k] = n <=> (Exists(n)' /\ users'[n].token = k)
    BY DEF TokensIndexed
  <2>1. byToken'[k] = IF \E m \in Usernames : Reapable(m) /\ users[m].token = k
                      THEN None ELSE byToken[k]
    BY DEF InvalidateExpiredUsers
  <2>2. \A m \in Usernames : Reapable(m) => Exists(m)
    BY DEF Reapable, Expired
  <2>3. \A m \in Usernames : byToken[k] = m <=> (Exists(m) /\ users[m].token = k)
    BY DEF UserInv, TokensIndexed
  <2>4. k # None /\ n # None
    BY UserAssumption
  <2>5. CASE Exists(n)
    BY <2>1, <2>2, <2>3, <2>4, <2>5, <1>1 DEF Exists
  <2>6. CASE ~Exists(n)
    BY <2>1, <2>3, <2>4, <2>6, <1>2 DEF Exists
  <2> QED BY <2>5, <2>6
<1> QED BY <1>3, <1>4, <1>5 DEF UserInv

LEMMA UserTickInv == UserInv /\ UserTick => UserInv'
<1> SUFFICES ASSUME UserInv, UserTick PROVE UserInv'
  OBVIOUS
<1>1. ASSUME NEW n \in Usernames, Exists(n)
      PROVE  /\ users'[n] \in UserRecord /\ users'[n] # None
             /\ users'[n].seed = users[n].seed /\ users'[n].token = users[n].token
  <2>1. users[n].left \in Nat \cup {None} => Later(users[n].left) \in Nat \cup {None}
    BY DEF Later
  <2>2. users'[n] = [users[n] EXCEPT !.left = Later(@)]
    BY <1>1 DEF UserTick
  <2> QED BY <1>1, <2>1, <2>2, RecordShape, UserNoneAssumption DEF UserRecord
<1>2. ASSUME NEW n \in Usernames, ~Exists(n) PROVE users'[n] = None
  BY <1>2 DEF UserTick
<1>3. users' \in [Usernames -> UserRecord \cup {None}]
  BY <1>1, <1>2 DEF UserTick
<1> QED BY <1>1, <1>2, <1>3
        DEF UserTick, UserInv, UserTypeOK, TokensIndexed, SeedsIndexed,
            RecordsMinted, Exists

-----------------------------------------------------------------------------
\* The state of a handler that is past its first step.
LEMMA JobShape ==
    ASSUME UserInv, NEW h \in Handlers, job[h].pc \in {"create", "update"}
    PROVE  /\ job[h].name \in Usernames
           /\ job[h].pc = "update" => job[h].asked \in Seeds \cup {None}
BY DEF UserInv, UserTypeOK, Job, Idle

LEMMA JobGoto ==
    ASSUME UserInv, NEW h \in Handlers, NEW j \in Job, Goto(h, j)
    PROVE  job' \in [Handlers -> Job]
BY DEF UserInv, UserTypeOK, Goto

LEMMA JobTypes ==
    /\ Idle \in Job
    /\ \A n \in Usernames : [pc |-> "create", name |-> n] \in Job
    /\ \A s \in Seeds : [pc |-> "lookup", asked |-> s] \in Job
    /\ \A n \in Usernames, s \in Seeds \cup {None} :
         [pc |-> "update", name |-> n, asked |-> s] \in Job
BY DEF Job

\* Steps that change a handler's state only.
LEMMA JobOnly ==
    ASSUME UserInv, UNCHANGED <<users, byToken, bySeed, minted>>,
           job' \in [Handlers -> Job]
    PROVE  UserInv'
BY DEF UserInv, UserTypeOK, TokensIndexed, SeedsIndexed, RecordsMinted, Exists

LEMMA UserStepInv == UserInv /\ [UserNext]_userVars => UserInv'
<1> SUFFICES ASSUME UserInv, [UserNext]_userVars PROVE UserInv'
  OBVIOUS
<1>1. ASSUME NEW h \in Handlers, NEW n \in Usernames,
             AdminCreate(h, n) \/ AdminRegenerate(h, n)
      PROVE  UserInv'
  BY <1>1, JobTypes, JobGoto, JobOnly DEF AdminCreate, AdminRegenerate
<1>2. ASSUME NEW h \in Handlers, NEW s \in Seeds, Regenerate(h, s) PROVE UserInv'
  BY <1>2, JobTypes, JobGoto, JobOnly DEF Regenerate
<1>10. ASSUME NEW h \in Handlers, RegenerateLookup(h) PROVE UserInv'
  <2>1. job[h].asked \in Seeds
    BY <1>10 DEF RegenerateLookup, UserInv, UserTypeOK, Job, Idle
  <2>2. GetUserBySeedHash(job[h].asked) \in Usernames \cup {None}
    BY <2>1 DEF GetUserBySeedHash, UserAt, UserInv, UserTypeOK
  <2>3. PICK j \in Job : Goto(h, j)
    BY <1>10, <2>1, <2>2, JobTypes DEF RegenerateLookup
  <2> QED BY <1>10, <2>3, JobGoto, JobOnly DEF RegenerateLookup
<1>3. ASSUME NEW h \in Handlers, AdminCreateEnd(h) PROVE UserInv'
  <2>1. job[h].name \in Usernames /\ job' \in [Handlers -> Job]
    BY <1>3, JobShape, JobGoto, JobTypes DEF AdminCreateEnd
  <2>2. CASE Creatable(job[h].name)
    BY <1>3, <2>1, <2>2, CreateUserInv DEF AdminCreateEnd, Creatable
  <2>3. CASE ~Creatable(job[h].name)
    BY <1>3, <2>1, <2>3, JobOnly DEF AdminCreateEnd
  <2> QED BY <2>2, <2>3
<1>4. ASSUME NEW h \in Handlers, RegenerateEnd(h) PROVE UserInv'
  <2>1. job[h].name \in Usernames /\ job' \in [Handlers -> Job]
    BY <1>4, JobShape, JobGoto, JobTypes DEF RegenerateEnd
  <2>2. CASE Exists(job[h].name)
    BY <1>4, <2>1, <2>2, UpdateTokenInv DEF RegenerateEnd
  <2>3. CASE ~Exists(job[h].name)
    BY <1>4, <2>1, <2>3, JobOnly DEF RegenerateEnd
  <2> QED BY <2>2, <2>3
<1>5. ASSUME NEW n \in Usernames, AdminDelete(n) PROVE UserInv'
  BY <1>5, DeleteUserInv DEF AdminDelete
<1>6. CASE InvalidateExpiredUsers
  BY <1>6, InvalidateInv
<1>7. CASE UserTick
  BY <1>7, UserTickInv
<1>8. CASE UserRestart
  BY <1>8, JobTypes, JobOnly DEF UserRestart
<1>9. CASE UNCHANGED userVars
  BY <1>9, JobOnly DEF userVars, UserInv, UserTypeOK
<1> QED BY <1>1, <1>2, <1>3, <1>4, <1>5, <1>6, <1>7, <1>8, <1>9, <1>10 DEF UserNext

\* The strengthened invariant holds of every behaviour of the user store.
THEOREM UserInvariant == UserSpec => []UserInv
BY UserInitInv, UserStepInv, PTL DEF UserSpec

\* Every bucket of users holds what the code puts there.
THEOREM UserTypeCorrect == UserSpec => []UserTypeOK
<1>1. UserInv => UserTypeOK
  BY DEF UserInv
<1> QED BY <1>1, UserInvariant, PTL

\* With exact indexes the queries answer exactly the records.
LEMMA BearerIndexed ==
    ASSUME UserInv, NEW k \in Tokens
    PROVE  BearerUser(k) = byToken[k]
<1>1. byToken[k] # None => /\ byToken[k] \in Usernames /\ Exists(byToken[k])
                           /\ users[byToken[k]].token = k
  BY DEF UserInv, UserTypeOK, TokensIndexed
<1> QED BY <1>1, UserAssumption DEF BearerUser, GetUserByToken, UserAt

\* A token authenticates a user exactly while it is that user's token, after
\* any interleaving of handlers, deletions, expiries and restarts.
THEOREM TokenIndexCorrect == UserSpec => []TokenIndexExact
<1>1. UserInv => TokenIndexExact
  BY BearerIndexed DEF TokenIndexExact, UserInv, TokensIndexed
<1> QED BY <1>1, UserInvariant, PTL

\* A seed phrase is looked up to exactly the user whose record has it.
THEOREM SeedIndexCorrect == UserSpec => []SeedIndexExact
<1>1. UserInv => SeedIndexExact
  BY UserAssumption
     DEF UserInv, UserTypeOK, SeedsIndexed, SeedIndexExact, GetUserBySeedHash, UserAt
<1> QED BY <1>1, UserInvariant, PTL

-----------------------------------------------------------------------------
(* Action properties.                                                      *)

\* An entry of the token index appears only for a token that is drawn.
LEMMA IndexGrowth ==
    ASSUME UserInv, [UserNext]_userVars, NEW k \in Tokens \cap minted, byToken[k] = None
    PROVE  byToken'[k] = None
<1>1. ASSUME NEW n \in Usernames, Exists(n) PROVE WithoutToken(n)[k] = None
  BY <1>1, WithoutTokenIndex
<1>2. ASSUME NEW h \in Handlers, AdminCreateEnd(h) PROVE byToken'[k] = None
  BY <1>2 DEF AdminCreateEnd, CreateUser, UserInv, UserTypeOK
<1>3. ASSUME NEW h \in Handlers, RegenerateEnd(h) PROVE byToken'[k] = None
  <2>1. job[h].name \in Usernames
    BY <1>3, JobShape DEF RegenerateEnd
  <2>2. CASE Exists(job[h].name)
    <3>1. PICK q \in Tokens \ minted : UpdateUserToken(job[h].name, q)
      BY <1>3, <2>2 DEF RegenerateEnd
    <3>2. WithoutToken(job[h].name) \in [Tokens -> Usernames \cup {None}]
      BY <2>1, <2>2, WithoutTokenIndex
    <3> QED BY <1>1, <2>1, <2>2, <3>1, <3>2 DEF UpdateUserToken
  <2>3. CASE ~Exists(job[h].name)
    BY <1>3, <2>3 DEF RegenerateEnd
  <2> QED BY <2>2, <2>3
<1>4. ASSUME NEW n \in Usernames, AdminDelete(n) PROVE byToken'[k] = None
  BY <1>1, <1>4 DEF AdminDelete, DeleteUser
<1>5. ASSUME InvalidateExpiredUsers PROVE byToken'[k] = None
  BY <1>5 DEF InvalidateExpiredUsers
<1> QED BY <1>2, <1>3, <1>4, <1>5
        DEF UserNext, AdminCreate, AdminRegenerate, Regenerate, RegenerateLookup, UserTick, UserRestart,
            userVars

\* A token that stopped working never works again.
THEOREM RevokedCorrect == UserSpec => RevokedForever
<1>1. UserInv /\ UserInv' /\ [UserNext]_userVars => [RevokedStep]_userVars
  <2> SUFFICES ASSUME UserInv, UserInv', [UserNext]_userVars,
                      NEW k \in Tokens \cap minted, BearerUser(k) = None
               PROVE  BearerUser(k)' = None
    BY DEF RevokedStep
  <2>1. byToken[k] = None
    BY BearerIndexed
  <2>2. byToken'[k] = None
    BY <2>1, IndexGrowth
  <2> QED BY <2>2 DEF BearerUser, GetUserByToken, UserAt
<1> QED BY <1>1, UserInvariant, PTL DEF UserSpec, RevokedForever

\* No account is overwritten: it changes hands only through its deletion.
THEOREM AccountCorrect == UserSpec => AccountKept
<1>1. UserInv /\ [UserNext]_userVars => [AccountStep]_userVars
  <2> SUFFICES ASSUME UserInv, UserNext, NEW n \in Usernames, Exists(n), Exists(n)'
               PROVE  users'[n].seed = users[n].seed
    BY DEF AccountStep
  <2>0. users[n] \in UserRecord /\ users \in [Usernames -> UserRecord \cup {None}]
    BY RecordShape DEF UserInv, UserTypeOK
  <2>1. ASSUME NEW h \in Handlers, AdminCreateEnd(h) PROVE users'[n] = users[n]
    BY <2>0, <2>1 DEF AdminCreateEnd, Creatable, CreateUser
  <2>2. ASSUME NEW h \in Handlers, RegenerateEnd(h) PROVE users'[n].seed = users[n].seed
    <3>1. \A k : [users[n] EXCEPT !.token = k].seed = users[n].seed
      BY <2>0 DEF UserRecord
    <3>2. \/ users' = users
          \/ \E k : users' = [users EXCEPT ![job[h].name].token = k]
      BY <2>2 DEF RegenerateEnd, UpdateUserToken
    <3>3. ASSUME NEW k, users' = [users EXCEPT ![job[h].name].token = k]
          PROVE  users'[n].seed = users[n].seed
      <4>1. CASE job[h].name = n
        <5>1. users'[n] = [users[n] EXCEPT !.token = k]
          BY <2>0, <3>3, <4>1
        <5> QED BY <5>1, <3>1
      <4>2. CASE job[h].name # n
        BY <2>0, <3>3, <4>2
      <4> QED BY <4>1, <4>2
    <3> QED BY <3>2, <3>3
  <2>3. ASSUME NEW m \in Usernames, AdminDelete(m) PROVE users'[n] = users[n]
    BY <2>0, <2>3 DEF AdminDelete, DeleteUser, Exists
  <2>4. CASE InvalidateExpiredUsers
    BY <2>0, <2>4 DEF InvalidateExpiredUsers, UserRecord
  <2>5. CASE UserTick
    BY <2>0, <2>5 DEF UserTick, UserRecord
  <2> QED BY <2>1, <2>2, <2>3, <2>4, <2>5
          DEF UserNext, AdminCreate, AdminRegenerate, Regenerate, RegenerateLookup, UserRestart
<1> QED BY <1>1, UserInvariant, PTL DEF UserSpec, AccountKept
-----------------------------------------------------------------------------
(* Whose phrase asked.  A handler that has found its user by a phrase goes *)
(* on with the name; so long as that user is not deleted in between, what  *)
(* it renews is the account of the phrase.                                 *)

\* No step deletes a user whom a regeneration has looked up.
HolderStays == \A h \in Handlers :
    job[h].pc = "update" /\ Exists(job[h].name) => users'[job[h].name] # None

AskedHolds == \A h \in Handlers :
    job[h].pc = "update" /\ job[h].asked # None =>
        /\ Exists(job[h].name)
        /\ users[job[h].name].seed = job[h].asked

LEMMA AskedStep ==
    ASSUME UserInv, AskedHolds, [UserNext]_userVars, [HolderStays]_userVars,
           [AccountStep]_userVars
    PROVE  AskedHolds'
<1> SUFFICES ASSUME NEW h \in Handlers, job'[h].pc = "update", job'[h].asked # None
             PROVE  /\ users'[job'[h].name] # None
                    /\ users'[job'[h].name].seed = job'[h].asked
  BY DEF AskedHolds, Exists
<1>0. job \in [Handlers -> Job] /\ job' \in [Handlers -> Job]
  BY UserStepInv DEF UserInv, UserTypeOK
\* The handler was there already: its user has stayed, with its phrase.
<1>1. CASE job'[h] = job[h]
  <2>1. /\ job[h].name \in Usernames
        /\ Exists(job[h].name)
        /\ users[job[h].name].seed = job[h].asked
    BY <1>1, JobShape DEF AskedHolds
  <2>2. CASE UNCHANGED userVars
    BY <1>1, <2>1, <2>2 DEF userVars, Exists
  <2>3. CASE ~UNCHANGED userVars
    <3>1. users'[job[h].name] # None
      BY <1>1, <2>1, <2>3 DEF HolderStays, Exists
    <3>2. users'[job'[h].name] # None
      BY <1>1, <3>1 DEF Exists
    <3>3. users'[job[h].name].seed = users[job[h].name].seed
      BY <1>1, <2>1, <2>3, <3>2 DEF AccountStep, Exists
    <3> QED BY <1>1, <2>1, <3>2, <3>3
  <2> QED BY <2>2, <2>3
\* The handler has just looked its phrase up.
<1>2. ASSUME NEW g \in Handlers, RegenerateLookup(g), job'[h] # job[h]
      PROVE  /\ users'[job'[h].name] # None
             /\ users'[job'[h].name].seed = job'[h].asked
  <2> DEFINE s == job[g].asked
             n == GetUserBySeedHash(s)
  <2>1. g = h /\ UNCHANGED <<users, bySeed>>
    BY <1>0, <1>2 DEF RegenerateLookup, Goto
  <2>2. s \in Seeds
    BY <1>2 DEF RegenerateLookup, UserInv, UserTypeOK, Job, Idle
  <2>3. n # None /\ job'[h] = [pc |-> "update", name |-> n, asked |-> s]
    BY <1>0, <1>2, <2>1 DEF RegenerateLookup, Goto, Idle
  <2>4. n = bySeed[s] /\ Exists(n) /\ n \in Usernames
    BY <2>2, <2>3 DEF GetUserBySeedHash, UserAt, UserInv, UserTypeOK
  <2>5. users[n].seed = s
    BY <2>2, <2>4 DEF UserInv, SeedsIndexed
  <2> QED BY <2>1, <2>3, <2>4, <2>5 DEF Exists
<1>3. CASE \E g \in Handlers : RegenerateLookup(g)
  BY <1>1, <1>2, <1>3
\* No other step starts an update that a phrase asked for.
<1>4. CASE ~\E g \in Handlers : RegenerateLookup(g)
  <2>1. ASSUME NEW g \in Handlers, NEW j, Goto(g, j),
               j.pc # "update" \/ j.asked = None
        PROVE  job'[h] = job[h]
    BY <1>0, <2>1 DEF Goto
  <2>2. ASSUME NEW g \in Handlers, NEW n \in Usernames, AdminCreate(g, n)
        PROVE  job'[h] = job[h]
    BY <2>1, <2>2 DEF AdminCreate
  <2>4. ASSUME NEW g \in Handlers, NEW n \in Usernames, AdminRegenerate(g, n)
        PROVE  job'[h] = job[h]
    BY <2>1, <2>4 DEF AdminRegenerate
  <2>5. ASSUME NEW g \in Handlers, NEW s \in Seeds, Regenerate(g, s)
        PROVE  job'[h] = job[h]
    BY <2>1, <2>5 DEF Regenerate
  <2>6. ASSUME NEW g \in Handlers, AdminCreateEnd(g) \/ RegenerateEnd(g)
        PROVE  job'[h] = job[h]
    BY <2>1, <2>6 DEF AdminCreateEnd, RegenerateEnd, Idle
  <2>7. job' = job \/ UserRestart \/ job'[h] = job[h]
    BY <1>4, <2>2, <2>4, <2>5, <2>6
       DEF UserNext, AdminDelete, InvalidateExpiredUsers, UserTick, userVars
  <2>3. UserRestart => job'[h].pc = "idle"
    BY DEF UserRestart, Idle
  <2> QED BY <1>1, <2>3, <2>7
<1> QED BY <1>3, <1>4

\* Unless its user is deleted between the look-up and the update, a token
\* handed out for a seed phrase is of the account of that phrase.
THEOREM PhraseRenewsItsAccount ==
    UserSpec /\ [][HolderStays]_userVars => RenewedByOwner
<1>1. UserInit => AskedHolds
  BY DEF UserInit, AskedHolds, Idle
<1>2. AskedHolds => [RenewedStep]_userVars
  BY DEF AskedHolds, RenewedStep
<1> QED BY <1>1, <1>2, AskedStep, UserInvariant, AccountCorrect, PTL
        DEF UserSpec, RenewedByOwner, AccountKept
-----------------------------------------------------------------------------
(* The refinement of Accounts.                                             *)

\* What the refinement mapping says once the indexes are exact: an account is
\* an entry of bySeed, and a token opens what the record of its owner says.
View ==
    /\ Holder = bySeed
    /\ \A k \in Tokens :
        Opens[k] = IF byToken[k] = None THEN None ELSE users[byToken[k]].seed

LEMMA ViewIndexed == UserInv => View
<1> SUFFICES ASSUME UserInv PROVE View
  OBVIOUS
<1>1. ASSUME NEW s \in Seeds PROVE GetUserBySeedHash(s) = bySeed[s]
  BY UserAssumption DEF UserInv, UserTypeOK, SeedsIndexed, GetUserBySeedHash, UserAt
<1>2. Holder = bySeed
  BY <1>1 DEF Holder, UserInv, UserTypeOK
<1>3. ASSUME NEW k \in Tokens
      PROVE  Opens[k] = IF byToken[k] = None THEN None ELSE users[byToken[k]].seed
  BY BearerIndexed DEF Opens, Opened
<1> QED BY <1>2, <1>3 DEF View

LEMMA ViewNext == UserInv' => View'
BY ViewIndexed, PTL

\* An account is its seed phrase: the tokens that open it are its user's.
LEMMA OpensOwner ==
    ASSUME UserInv, NEW k \in Tokens, NEW n \in Usernames, Exists(n)
    PROVE  /\ users[n].seed \in Seeds /\ bySeed[users[n].seed] = n
           /\ Opens[k] = users[n].seed <=> users[n].token = k
           /\ Opens[k] = users[n].seed <=> byToken[k] = n
<1>1. users[n].seed \in Seeds /\ users[n].seed # None
  BY RecordShape, UserAssumption DEF UserRecord
<1>2. bySeed[users[n].seed] = n
  BY <1>1 DEF UserInv, SeedsIndexed
<1>3. Opens[k] = IF byToken[k] = None THEN None ELSE users[byToken[k]].seed
  BY ViewIndexed DEF View
<1>4. byToken[k] # None => byToken[k] \in Usernames /\ Exists(byToken[k])
  BY DEF UserInv, UserTypeOK, TokensIndexed
<1>5. byToken[k] # None /\ users[byToken[k]].seed = users[n].seed => byToken[k] = n
  BY <1>1, <1>2, <1>4 DEF UserInv, SeedsIndexed
<1>6. byToken[k] = n <=> users[n].token = k
  BY DEF UserInv, TokensIndexed
<1>7. n # None
  BY UserAssumption
<1> QED BY <1>1, <1>2, <1>3, <1>5, <1>6, <1>7

\* Where neither index nor seed changes, nothing changes.
LEMMA ViewKept ==
    ASSUME UserInv, UserInv', UNCHANGED <<byToken, bySeed>>,
           \A n \in Usernames : Exists(n) => users'[n].seed = users[n].seed
    PROVE  UNCHANGED <<Holder, Opens>>
<1>1. View /\ View'
  BY ViewIndexed, ViewNext
<1>2. \A k \in Tokens : byToken[k] # None => byToken[k] \in Usernames /\ Exists(byToken[k])
  BY DEF UserInv, UserTypeOK, TokensIndexed
<1>3. \A k \in Tokens : Opens'[k] = Opens[k]
  BY <1>1, <1>2 DEF View
<1> QED BY <1>1, <1>3 DEF View, Opens

LEMMA CreateOpens ==
    ASSUME UserInv, UserInv', NEW n \in Usernames, NEW k \in Tokens \ minted,
           NEW s \in Seeds \ minted, NEW left \in Lifetimes,
           ~Exists(n), CreateUser(n, k, s, left)
    PROVE  Book!Open(s, n, k)
<1>1. View /\ View'
  BY ViewIndexed, ViewNext
<1>2. bySeed' = [bySeed EXCEPT ![s] = n] /\ minted' = minted \cup {s, k}
  BY DEF CreateUser
<1>3. \A r \in Seeds : Holder[r] # n
  BY <1>1 DEF View, UserInv, SeedsIndexed
<1>4. users'[n].seed = s /\ byToken'[k] = n /\ n # None
  BY UserAssumption DEF CreateUser, UserInv, UserTypeOK
<1>5. Opens'[k] = s
  BY <1>1, <1>4 DEF View
<1>6. ASSUME NEW q \in Tokens \ {k} PROVE Opens'[q] = Opens[q]
  <2>1. byToken'[q] = byToken[q] /\ byToken[q] # n
    BY DEF CreateUser, UserInv, UserTypeOK, TokensIndexed
  <2>2. byToken[q] # None => users'[byToken[q]] = users[byToken[q]]
    BY <2>1 DEF CreateUser, UserInv, UserTypeOK
  <2> QED BY <1>1, <2>1, <2>2 DEF View
<1>7. Opens' = [Opens EXCEPT ![k] = s]
  BY <1>5, <1>6 DEF Opens
<1> QED BY <1>1, <1>2, <1>3, <1>7 DEF Book!Open, View

\* The token of an account that is left has no reason to change.
LEMMA OthersKept ==
    ASSUME View, View', UserInv, NEW n \in Usernames, NEW q \in Tokens,
           byToken[q] # n, byToken'[q] = byToken[q],
           \A m \in Usernames \ {n} : users'[m] = users[m]
    PROVE  Opens'[q] = Opens[q]
BY DEF View, UserInv, UserTypeOK

LEMMA DeleteCloses ==
    ASSUME UserInv, UserInv', NEW n \in Usernames, Exists(n), DeleteUser(n)
    PROVE  Book!Close(users[n].seed)
<1>1. View /\ View'
  BY ViewIndexed, ViewNext
<1>2. users[n].seed \in Seeds /\ bySeed[users[n].seed] = n /\ n # None
  BY RecordShape, UserAssumption DEF UserRecord, UserInv, SeedsIndexed
<1>3. \A m \in Usernames \ {n} : users'[m] = users[m]
  BY DEF DeleteUser, UserInv, UserTypeOK
<1>4. ASSUME NEW q \in Tokens
      PROVE  Opens'[q] = IF Opens[q] \in {users[n].seed} THEN None ELSE Opens[q]
  <2>1. byToken'[q] = IF users[n].token = q THEN None ELSE byToken[q]
    BY WithoutTokenIndex DEF DeleteUser
  <2>2. CASE users[n].token = q
    BY <1>1, <2>1, <2>2, OpensOwner DEF View
  <2>3. CASE users[n].token # q
    BY <1>1, <1>3, <2>1, <2>3, OpensOwner, OthersKept
  <2> QED BY <2>2, <2>3
<1>5. Opens' = Book!Revoked({users[n].seed})
  BY <1>4 DEF Book!Revoked, Opens
<1> QED BY <1>1, <1>2, <1>5 DEF Book!Close, View, DeleteUser

LEMMA UpdateRenews ==
    ASSUME UserInv, UserInv', NEW n \in Usernames, Exists(n), NEW k \in Tokens \ minted,
           UpdateUserToken(n, k)
    PROVE  Book!Renew(users[n].seed, k)
<1> DEFINE s == users[n].seed
<1>1. View /\ View'
  BY ViewIndexed, ViewNext
<1>2. users[n] \in UserRecord /\ s \in Seeds /\ bySeed[s] = n /\ n # None
  BY RecordShape, UserAssumption DEF UserRecord, UserInv, SeedsIndexed
<1>3. /\ users' = [users EXCEPT ![n].token = k]
      /\ byToken' = [WithoutToken(n) EXCEPT ![k] = n]
      /\ UNCHANGED bySeed /\ minted' = minted \cup {k}
  BY DEF UpdateUserToken
<1>4. /\ users'[n].seed = s
      /\ \A m \in Usernames \ {n} : users'[m] = users[m]
  BY <1>2, <1>3 DEF UserInv, UserTypeOK, UserRecord
<1>5. /\ byToken'[k] = n
      /\ \A q \in Tokens \ {k} :
            byToken'[q] = IF users[n].token = q THEN None ELSE byToken[q]
  BY <1>3, WithoutTokenIndex
<1>6. Opens'[k] = s
  BY <1>1, <1>2, <1>4, <1>5 DEF View
<1>7. ASSUME NEW q \in Tokens \ {k}
      PROVE  Opens'[q] = IF Opens[q] \in {s} THEN None ELSE Opens[q]
  <2>1. CASE users[n].token = q
    BY <1>1, <1>5, <2>1, OpensOwner DEF View
  <2>2. CASE users[n].token # q
    BY <1>1, <1>4, <1>5, <2>2, OpensOwner, OthersKept
  <2> QED BY <2>1, <2>2
<1>8. Opens' = [Book!Revoked({s}) EXCEPT ![k] = s]
  BY <1>6, <1>7 DEF Book!Revoked, Opens
<1>9. Holder[s] # None /\ UNCHANGED Holder
  BY <1>1, <1>2, <1>3 DEF View
<1> QED BY <1>3, <1>8, <1>9 DEF Book!Renew

LEMMA InvalidateExpires ==
    ASSUME UserInv, UserInv', InvalidateExpiredUsers
    PROVE  \E S \in SUBSET Seeds : Book!Expire(S)
<1> DEFINE S == {users[n].seed : n \in {n \in Usernames : Reapable(n)}}
<1>1. View /\ View'
  BY ViewIndexed, ViewNext
<1>2. \A n \in Usernames : Reapable(n) => Exists(n)
  BY DEF Reapable, Expired
<1>3. S \in SUBSET Seeds
  BY <1>2, RecordShape DEF UserRecord
<1>4. ASSUME NEW n \in Usernames, Exists(n) PROVE users'[n].seed = users[n].seed
  BY <1>4, RecordShape DEF InvalidateExpiredUsers, UserRecord
<1>5. ASSUME NEW q \in Tokens
      PROVE  Opens'[q] = IF Opens[q] \in S THEN None ELSE Opens[q]
  <2>1. byToken'[q] = IF \E n \in Usernames : Reapable(n) /\ users[n].token = q
                      THEN None ELSE byToken[q]
    BY DEF InvalidateExpiredUsers
  <2>2. (\E n \in Usernames : Reapable(n) /\ users[n].token = q) <=> Opens[q] \in S
    BY <1>2, OpensOwner
  <2>3. byToken[q] # None => byToken[q] \in Usernames /\ Exists(byToken[q])
    BY DEF UserInv, UserTypeOK, TokensIndexed
  <2> HIDE DEF S
  <2>4. CASE Opens[q] \in S
    BY <1>1, <2>1, <2>2, <2>4 DEF View
  <2>5. CASE Opens[q] \notin S
    BY <1>1, <1>4, <2>1, <2>2, <2>3, <2>5 DEF View
  <2> QED BY <2>4, <2>5
<1>6. Opens' = Book!Revoked(S)
  BY <1>5 DEF Book!Revoked, Opens
<1>7. UNCHANGED <<Holder, minted>>
  BY <1>1 DEF View, InvalidateExpiredUsers
<1> QED BY <1>3, <1>6, <1>7 DEF Book!Expire

\* Buckets, indexes and two-transaction handlers implement Accounts
\* (ImplementsAccounts): an account is opened under a free name, renewed and
\* closed, although its record is found by name.
THEOREM RefinesAccounts == UserSpec => ImplementsAccounts
<1>1. UserInit => Book!Init
  BY DEF UserInit, Book!Init, Holder, Opens, Opened, GetUserBySeedHash, BearerUser,
         GetUserByToken, UserAt
<1>2. ASSUME UserInv, UserInv', [UserNext]_userVars
      PROVE  [Book!Next]_<<Holder, Opens, minted>>
  <2> USE <1>2
  <2>1. ASSUME NEW h \in Handlers, AdminCreateEnd(h)
        PROVE  Book!Next \/ UNCHANGED <<Holder, Opens, minted>>
    <3>1. job[h].name \in Usernames
      BY <2>1, JobShape DEF AdminCreateEnd
    <3>2. CASE Creatable(job[h].name)
      <4>1. PICK k \in Tokens \ minted, s \in Seeds \ minted, left \in Lifetimes :
                CreateUser(job[h].name, k, s, left)
        BY <2>1, <3>2 DEF AdminCreateEnd
      <4>2. Book!Open(s, job[h].name, k)
        BY <3>1, <3>2, <4>1, CreateOpens DEF Creatable
      <4> QED BY <3>1, <4>2 DEF Book!Next
    <3>3. CASE ~Creatable(job[h].name)
      BY <2>1, <3>3, ViewKept DEF AdminCreateEnd
    <3> QED BY <3>2, <3>3
  <2>2. ASSUME NEW h \in Handlers, RegenerateEnd(h)
        PROVE  Book!Next \/ UNCHANGED <<Holder, Opens, minted>>
    <3>1. job[h].name \in Usernames
      BY <2>2, JobShape DEF RegenerateEnd
    <3>2. CASE Exists(job[h].name)
      <4>1. PICK k \in Tokens \ minted : UpdateUserToken(job[h].name, k)
        BY <2>2, <3>2 DEF RegenerateEnd
      <4>2. Book!Renew(users[job[h].name].seed, k)
        BY <3>1, <3>2, <4>1, UpdateRenews
      <4>3. users[job[h].name].seed \in Seeds
        BY <3>1, <3>2, RecordShape DEF UserRecord
      <4> QED BY <4>2, <4>3 DEF Book!Next
    <3>3. CASE ~Exists(job[h].name)
      BY <2>2, <3>3, ViewKept DEF RegenerateEnd
    <3> QED BY <3>2, <3>3
  <2>3. ASSUME NEW n \in Usernames, AdminDelete(n) PROVE Book!Next
    <3>1. Exists(n) /\ DeleteUser(n)
      BY <2>3 DEF AdminDelete
    <3>2. users[n].seed \in Seeds
      BY <3>1, RecordShape DEF UserRecord
    <3> QED BY <3>1, <3>2, DeleteCloses DEF Book!Next
  <2>4. CASE InvalidateExpiredUsers
    BY <2>4, InvalidateExpires DEF Book!Next
  <2>5. CASE UserTick
    <3>1. ASSUME NEW n \in Usernames, Exists(n) PROVE users'[n].seed = users[n].seed
      BY <2>5, <3>1, RecordShape DEF UserTick, UserRecord
    <3> QED BY <2>5, <3>1, ViewKept DEF UserTick
  <2>6. ASSUME \/ \E h \in Handlers :
                    \/ \E n \in Usernames : AdminCreate(h, n) \/ AdminRegenerate(h, n)
                    \/ \E s \in Seeds : Regenerate(h, s)
                    \/ RegenerateLookup(h)
               \/ UserRestart
               \/ UNCHANGED userVars
        PROVE  UNCHANGED <<Holder, Opens, minted>>
    BY <2>6, ViewKept DEF AdminCreate, AdminRegenerate, Regenerate, RegenerateLookup, UserRestart, userVars
  <2> QED BY <2>1, <2>2, <2>3, <2>4, <2>5, <2>6 DEF UserNext
<1> QED BY <1>1, <1>2, UserInvariant, PTL
        DEF UserSpec, ImplementsAccounts, Book!Spec, Book!accountVars
=============================================================================
