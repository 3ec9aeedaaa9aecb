---------------------------- MODULE AccessProofs -----------------------------
(***************************************************************************)
(* API keys keep their promise, the limiter its bound and accounts theirs, *)
(* however the handlers and the lookups interleave, for every value of the *)
(* constants: any number of requests, keys, projects and people.           *)
(***************************************************************************)
EXTENDS Access, FiniteSetTheorems, TLAPS

\* What the handlers of accounts do to the keys is to write rows.
Writing == \E p \in Projects, w \in WriteKeys, s \in SecretKeys : WriteRow(p, w, s)

KeyStep == (\E r \in Requests : Request(r)) \/ Writing \/ Tick

------------------------------------------------------------------------------
(* Types *)

LEMMA FullIsNat == Full \in Nat /\ TokenCost \in Nat /\ TokenCost <= Full
<1>1. Burst \in Nat /\ TokenCost \in Nat /\ 1 <= Burst
  BY TimesAssumption
<1>2. Burst * TokenCost \in Nat
  BY <1>1
<1>3. TokenCost <= Burst * TokenCost
  BY <1>1
<1> QED BY <1>1, <1>2, <1>3 DEF Full

LEMMA FilledIsBounded ==
  ASSUME KeysTypeOK, NEW k \in Keys
  PROVE  Filled(k) \in Int /\ Filled(k) <= Full
<1>1. bucket[k] = None \/ bucket[k] \in Buckets
  BY DEF KeysTypeOK
<1>2. CASE bucket[k] = None
  BY <1>2, FullIsNat DEF Filled
<1>3. CASE bucket[k] # None
  <2>1. bucket[k].tokens \in Nat /\ bucket[k].lastTime \in Nat /\ now \in Nat
    BY <1>1, <1>3, FullIsNat DEF Buckets, KeysTypeOK
  <2> QED BY <1>3, <2>1, FullIsNat DEF Filled, Least
<1> QED BY <1>2, <1>3

\* No bucket was used later than now.
BucketsPast == \A k \in Keys : bucket[k] # None => bucket[k].lastTime <= now

LEMMA FilledIsNatural ==
  ASSUME KeysTypeOK, BucketsPast, NEW k \in Keys
  PROVE  0 <= Filled(k)
<1>1. bucket[k] = None \/ bucket[k] \in Buckets
  BY DEF KeysTypeOK
<1>2. CASE bucket[k] = None
  BY <1>2, FullIsNat DEF Filled
<1>3. CASE bucket[k] # None
  <2>1. bucket[k].tokens \in Nat /\ bucket[k].lastTime \in Nat /\ now \in Nat
    BY <1>1, <1>3, FullIsNat DEF Buckets, KeysTypeOK
  <2>2. bucket[k].lastTime <= now
    BY <1>3 DEF BucketsPast
  <2> QED BY <1>3, <2>1, <2>2, FullIsNat DEF Filled, Least
<1> QED BY <1>2, <1>3

LEMMA InfosHaveParts ==
  ASSUME NEW info \in Infos
  PROVE  info.project \in Projects /\ info.type \in Types
BY DEF Infos

LEMMA WritingTypes == KeysTypeOK /\ Writing => KeysTypeOK'
<1> SUFFICES ASSUME KeysTypeOK,
                    NEW p \in Projects, NEW w \in WriteKeys, NEW s \in SecretKeys,
                    WriteRow(p, w, s)
             PROVE  KeysTypeOK'
  BY DEF Writing
<1> USE DEF KeysTypeOK, WriteRow
<1>1. projects' \in [Projects -> Rows \cup {None}]
  BY DEF Rows
<1>2. issued' \in [Keys -> Infos \cup {None}]
  <2>1. [project |-> p, type |-> "write"] \in Infos /\ [project |-> p, type |-> "secret"] \in Infos
    BY DEF Infos, Types
  <2> QED BY <2>1
<1>3. retiredAt' \in [Keys -> Nat \cup {None}]
  OBVIOUS
<1> QED BY <1>1, <1>2, <1>3

LEMMA LookupHasParts ==
  ASSUME NEW x \in Lookups
  PROVE  /\ x.stage \in Unfound \cup Found /\ x.key \in Keys /\ x.endpoint \in Endpoints
         /\ x.readAt \in Nat /\ x.excused \in BOOLEAN
         /\ x.stage \in Unfound => x.info = None
         /\ x.stage \in Found => x.info \in Infos
BY DEF Lookups, Unfound, Found

LEMMA LookupMoves ==
  ASSUME NEW x \in Lookups, NEW n \in Nat
  PROVE  /\ \A stage \in Unfound :
              x.stage \in Unfound =>
                /\ [x EXCEPT !.stage = stage] \in Lookups
                /\ [x EXCEPT !.stage = stage, !.excused = TRUE] \in Lookups
         /\ \A stage \in Found :
              x.stage \in Found =>
                /\ [x EXCEPT !.stage = stage] \in Lookups
                /\ [x EXCEPT !.stage = stage, !.readAt = n] \in Lookups
BY DEF Lookups, Unfound, Found

LEMMA LookupFinds ==
  ASSUME NEW x \in Lookups, NEW info \in Infos, NEW n \in Nat, NEW stage \in Found
  PROVE  /\ [x EXCEPT !.stage = stage, !.info = info, !.excused = FALSE] \in Lookups
         /\ [x EXCEPT !.stage = stage, !.readAt = n, !.excused = FALSE,
                      !.info = info] \in Lookups
BY DEF Lookups, Found

LEMMA RequestTypes ==
  ASSUME KeysTypeOK, BucketsPast, NEW r \in Requests, Request(r)
  PROVE  KeysTypeOK'
<1> USE DEF KeysTypeOK
<1>a. \A stage \in Unfound \cup Found : InStage(r, stage) =>
        lookup[r] \in Lookups /\ lookup[r].stage = stage
  BY DEF InStage
<1>b. ASSUME NEW x \in Lookups, lookup' = [lookup EXCEPT ![r] = x]
      PROVE  lookup' \in [Requests -> Lookups \cup {None}]
  BY <1>b
<1>1. ASSUME NEW k \in Keys, NEW e \in Endpoints, Ask(r, k, e) PROVE KeysTypeOK'
  <2>1. [stage |-> "cache", key |-> k, endpoint |-> e, info |-> None,
         readAt |-> 0, excused |-> ~Live(k)] \in Lookups
    BY DEF Lookups, Unfound, Live
  <2>2. lookup' \in [Requests -> Lookups \cup {None}]
    BY <1>1, <2>1 DEF Ask
  <2>3. asked' \in 0 .. MaxAsks
    BY <1>1, TimesAssumption DEF Ask
  <2> QED BY <1>1, <2>2, <2>3 DEF Ask
<1>2. CASE CheckCache(r)
  <2>1. lookup[r] \in Lookups /\ lookup[r].stage = "cache" /\ lookup[r].key \in Keys
    BY <1>2, <1>a, LookupHasParts DEF CheckCache, Unfound
  <2>2. CASE Cached(lookup[r].key)
    <3>1. cache[lookup[r].key].info \in Infos
      BY <2>1, <2>2 DEF Cached, Entries
    <3>2. lookup' \in [Requests -> Lookups \cup {None}]
      BY <1>2, <1>b, <2>1, <2>2, <3>1, LookupFinds DEF CheckCache, Found
    <3> QED BY <1>2, <3>2 DEF CheckCache
  <2>3. CASE ~Cached(lookup[r].key)
    <3>1. lookup' \in [Requests -> Lookups \cup {None}]
      BY <1>2, <1>b, <2>1, <2>3, LookupMoves DEF CheckCache, Become, Unfound
    <3> QED BY <1>2, <3>1 DEF CheckCache
  <2> QED BY <2>2, <2>3
<1>3. ASSUME NEW type \in Types, NEW after \in {"secret", "refused"}, Find(r, type, after)
      PROVE  KeysTypeOK'
  <2>1. lookup[r] \in Lookups /\ lookup[r].stage \in Unfound
    BY <1>3, <1>a DEF Find, Types, Unfound
  <2>2. CASE lookup' = [lookup EXCEPT ![r] = [@ EXCEPT !.stage = after, !.excused = TRUE]]
    BY <1>3, <1>b, <2>1, <2>2, LookupMoves DEF Find, Unfound
  <2>3. ASSUME NEW p \in Projects,
               lookup' = [lookup EXCEPT ![r] =
                 [@ EXCEPT !.stage = "store", !.readAt = now, !.excused = FALSE,
                           !.info = [project |-> p, type |-> type]]]
        PROVE  KeysTypeOK'
    <3>1. [project |-> p, type |-> type] \in Infos
      BY DEF Infos
    <3> QED BY <1>3, <1>b, <2>1, <2>3, <3>1, LookupFinds DEF Find, Found
  <2>4. CASE Become(r, after)
    BY <1>3, <1>b, <2>1, <2>4, LookupMoves DEF Find, Become, Unfound
  <2> QED BY <1>3, <2>2, <2>3, <2>4 DEF Find, Verified, ByPrefix
<1>4. CASE Store(r)
  <2>1. lookup[r] \in Lookups /\ lookup[r].stage = "store"
    BY <1>4, <1>a DEF Store, Found
  <2>2. lookup[r].key \in Keys /\ lookup[r].info \in Infos
    BY <2>1, LookupHasParts DEF Found
  <2>3. cache' \in [Keys -> Entries \cup {None}]
    BY <1>4, <2>2, TimesAssumption DEF Store, Entries
  <2>4. lookup' \in [Requests -> Lookups \cup {None}]
    BY <1>4, <1>b, <2>1, LookupMoves DEF Store, Found
  <2> QED BY <1>4, <2>3, <2>4 DEF Store
<1>5. ASSUME NEW stage \in Found, InStage(r, "granted"), Become(r, stage)
      PROVE  lookup' \in [Requests -> Lookups \cup {None}]
  <2>1. lookup[r] \in Lookups /\ lookup[r].stage \in Found
    BY <1>5, <1>a DEF Found
  <2>2. [lookup[r] EXCEPT !.stage = stage] \in Lookups
    BY <2>1, LookupMoves DEF KeysTypeOK
  <2> QED BY <1>5, <1>b, <2>2 DEF Become
<1>6. CASE Forbid(r) \/ ServeQuery(r)
  BY <1>5, <1>6 DEF Forbid, ServeQuery, Found
<1>7. CASE Ingest(r)
  <2> DEFINE k == lookup[r].key
  <2>1. lookup[r] \in Lookups /\ k \in Keys
    BY <1>7, <1>a, LookupHasParts DEF Ingest, Found
  <2>2. lookup' \in [Requests -> Lookups \cup {None}]
    BY <1>5, <1>7 DEF Ingest, Limit, Admit, Found
  <2>3. Filled(k) \in Int /\ Filled(k) <= Full
    BY <2>1, FilledIsBounded
  <2>4. 0 <= Filled(k)
    BY <2>1, FilledIsNatural
  <2>5. CASE Limit(r, k)
    <3>1. [tokens |-> Filled(k), lastTime |-> now] \in Buckets
      BY <2>3, <2>4, FullIsNat DEF Buckets
    <3>2. bucket' \in [Keys -> Buckets \cup {None}]
      BY <2>1, <2>5, <3>1 DEF Limit
    <3> QED BY <1>7, <2>2, <2>5, <3>2 DEF Ingest, Limit
  <2>6. CASE Admit(r, k)
    <3>1. [tokens |-> Filled(k) - TokenCost, lastTime |-> now] \in Buckets
      BY <2>3, <2>6, FullIsNat DEF Buckets, Admit
    <3>2. bucket' \in [Keys -> Buckets \cup {None}]
      BY <2>1, <2>6, <3>1 DEF Admit
    <3>3. admitted' \in [Keys -> Seq(Nat)]
      BY <2>1, <2>6 DEF Admit
    <3> QED BY <1>7, <2>2, <2>6, <3>2, <3>3 DEF Ingest
  <2> QED BY <1>7, <2>5, <2>6 DEF Ingest
<1> QED BY <1>1, <1>2, <1>3, <1>4, <1>6, <1>7
        DEF Request, FindByWriteKey, FindBySecretKey, NextSearch, Types

LEMMA TickTypes == KeysTypeOK /\ Tick => KeysTypeOK'
BY DEF KeysTypeOK, Tick

LEMMA PastStays == KeysTypeOK /\ BucketsPast /\ KeyStep => BucketsPast'
<1> SUFFICES ASSUME KeysTypeOK, BucketsPast, KeyStep,
                    NEW k \in Keys, bucket'[k] # None
             PROVE  bucket'[k].lastTime <= now'
  BY DEF BucketsPast
<1>1. now \in Nat /\ now' \in {now, now + 1}
  BY DEF KeysTypeOK, KeyStep, Request, Writing, WriteRow, Tick, Ask, CheckCache,
     FindByWriteKey, FindBySecretKey, Find, Store, Forbid, ServeQuery, Ingest
<1>2. CASE bucket' = bucket
  <2>1. bucket[k].lastTime \in Nat /\ bucket[k].lastTime <= now
    BY <1>2 DEF KeysTypeOK, Buckets, BucketsPast
  <2> QED BY <1>1, <1>2, <2>1
<1>3. CASE bucket' # bucket
  <2>1. PICK r \in Requests : Ingest(r)
    BY <1>3 DEF KeyStep, Request, Writing, WriteRow, Tick, Ask, CheckCache,
       FindByWriteKey, FindBySecretKey, Find, Store, Forbid, ServeQuery
  <2>2. CASE k = lookup[r].key
    BY <1>1, <2>1, <2>2 DEF KeysTypeOK, Ingest, Limit, Admit
  <2>3. CASE k # lookup[r].key
    <3>1. bucket'[k] = bucket[k] /\ now' = now
      BY <2>1, <2>3 DEF KeysTypeOK, Ingest, Limit, Admit
    <3> QED BY <3>1 DEF BucketsPast
  <2> QED BY <2>2, <2>3
<1> QED BY <1>2, <1>3

LEMMA KeysTypes == KeysTypeOK /\ BucketsPast /\ KeyStep => KeysTypeOK'
BY RequestTypes, WritingTypes, TickTypes DEF KeyStep

------------------------------------------------------------------------------
(* The handlers of accounts *)

LEMMA HandlingHasParts ==
  ASSUME NEW x \in Handlings
  PROVE  /\ x.user \in Emails
         /\ x.stage \in {"member", "rotating"} => x.project \in Projects
BY DEF Handlings

LEMMA HandlerTypes ==
  ASSUME KeysTypeOK, AccountsTypeOK, NEW c \in Consoles, Handler(c)
  PROVE  AccountsTypeOK'
<1> USE DEF KeysTypeOK, AccountsTypeOK
<1>a. \A stage \in {"setup", "session", "logout", "create", "rotate"}, u \in Emails :
        [stage |-> stage, user |-> u, project |-> None] \in Handlings
  BY DEF Handlings
<1>b. \A stage \in {"member", "rotating"}, u \in Emails, p \in Projects :
        [stage |-> stage, user |-> u, project |-> p] \in Handlings
  BY DEF Handlings
<1>c. \A stage : At(c, stage) => /\ console[c] \in Handlings
                                 /\ console[c].user \in Emails
                                 /\ console[c].stage = stage
  BY HandlingHasParts DEF At
<1>1. CASE Fail(c)
  BY <1>1 DEF Fail, Return
<1>2. ASSUME NEW e \in Emails, HandleSetup(c, e) \/ HandleLogin(c, e)
      PROVE  AccountsTypeOK'
  <2>1. /\ [stage |-> "setup", user |-> e, project |-> None] \in Handlings
        /\ [stage |-> "session", user |-> e, project |-> None] \in Handlings
    BY <1>a
  <2>2. console' \in [Consoles -> Handlings \cup {None}]
    BY <1>2, <2>1 DEF HandleSetup, HandleLogin, Enter
  <2> QED BY <1>2, <2>2 DEF HandleSetup, HandleLogin
<1>3. CASE CreateFirstUser(c)
  BY <1>3, <1>a, <1>c DEF CreateFirstUser, Enter
<1>4. ASSUME NEW t \in Tokens, StartSession(c, t) PROVE AccountsTypeOK'
  <2>1. [user |-> console[c].user, expiresAt |-> now + SessionTTL]
          \in [user : Emails, expiresAt : Nat]
    BY <1>4, <1>c, AccountsAssumption DEF StartSession
  <2> QED BY <1>4, <2>1 DEF StartSession, Return
<1>5. ASSUME NEW stage \in {"logout", "create", "rotate"}, Authenticate(c, stage)
      PROVE  AccountsTypeOK'
  <2>1. sessions[cookie[c]].user \in Emails
    BY <1>5 DEF Authenticate
  <2> QED BY <1>5, <1>a, <2>1 DEF Authenticate, Enter
<1>6. CASE HandleLogout(c)
  BY <1>6 DEF HandleLogout, Return
<1>7. ASSUME NEW p \in Projects, NEW w \in WriteKeys, NEW s \in SecretKeys,
             CreateProject(c, p, w, s)
      PROVE  AccountsTypeOK'
  BY <1>7, <1>b, <1>c DEF CreateProject, Enter
<1>8. CASE AddMember(c)
  <2>1. console[c].project \in Projects /\ console[c].user \in Emails
    BY <1>8, <1>c, HandlingHasParts DEF AddMember
  <2> QED BY <1>8, <2>1 DEF AddMember, Return
<1>9. ASSUME NEW p \in Projects, CheckOwner(c, p) PROVE AccountsTypeOK'
  <2>1. console[c].user \in Emails
    BY <1>9, <1>c DEF CheckOwner
  <2>2. [stage |-> "rotating", user |-> console[c].user, project |-> p] \in Handlings
    BY <1>b, <2>1
  <2>3. console' \in [Consoles -> Handlings \cup {None}]
    BY <1>9, <2>2 DEF CheckOwner, Enter, Return
  <2> QED BY <1>9, <2>3 DEF CheckOwner
<1>10. ASSUME NEW w \in WriteKeys, NEW s \in SecretKeys, RotateKeys(c, w, s)
       PROVE  AccountsTypeOK'
  BY <1>10 DEF RotateKeys, Return
<1> QED BY <1>1, <1>2, <1>3, <1>4, <1>5, <1>6, <1>7, <1>8, <1>9, <1>10 DEF Handler

LEMMA HandlerKeys ==
  ASSUME AccountsTypeOK, NEW c \in Consoles, Handler(c)
  PROVE  Writing \/ UNCHANGED keyVars
<1>1. ASSUME NEW w \in WriteKeys, NEW s \in SecretKeys, RotateKeys(c, w, s)
      PROVE  Writing
  <2>1. console[c].project \in Projects
    BY <1>1, HandlingHasParts DEF RotateKeys, At, AccountsTypeOK
  <2> QED BY <1>1, <2>1 DEF RotateKeys, Writing
<1>2. ASSUME NEW p \in Projects, NEW w \in WriteKeys, NEW s \in SecretKeys,
             CreateProject(c, p, w, s)
      PROVE  Writing
  BY <1>2 DEF CreateProject, Writing
<1> QED BY <1>1, <1>2
        DEF Handler, Fail, HandleSetup, HandleLogin, CreateFirstUser, StartSession,
            Authenticate, HandleLogout, AddMember, CheckOwner

LEMMA NextKeys == AccountsTypeOK /\ Next => KeyStep \/ UNCHANGED keyVars
BY HandlerKeys DEF Next, Pass, KeyStep

LEMMA NextTypes == TypeOK /\ BucketsPast /\ Next => TypeOK'
<1> SUFFICES ASSUME TypeOK, BucketsPast, Next PROVE TypeOK'
  OBVIOUS
<1>1. KeysTypeOK'
  <2>1. CASE KeyStep
    BY <2>1, KeysTypes DEF TypeOK
  <2>2. CASE UNCHANGED keyVars
    BY <2>2 DEF TypeOK, KeysTypeOK, keyVars
  <2> QED BY <2>1, <2>2, NextKeys DEF TypeOK
<1>2. AccountsTypeOK'
  <2>1. CASE UNCHANGED accountVars
    BY <2>1 DEF TypeOK, AccountsTypeOK, accountVars
  <2> QED BY <2>1, HandlerTypes DEF Next, Pass, TypeOK
<1> QED BY <1>1, <1>2 DEF TypeOK

LEMMA NextPast == TypeOK /\ BucketsPast /\ [Next]_vars => BucketsPast'
<1> SUFFICES ASSUME TypeOK, BucketsPast, [Next]_vars PROVE BucketsPast'
  OBVIOUS
<1>1. CASE KeyStep
  BY <1>1, PastStays DEF TypeOK
<1>2. CASE UNCHANGED keyVars
  BY <1>2 DEF BucketsPast, keyVars
<1> QED BY <1>1, <1>2, NextKeys DEF TypeOK, vars, keyVars

LEMMA InitTypes == Init => TypeOK /\ BucketsPast
<1> SUFFICES ASSUME Init PROVE TypeOK /\ BucketsPast
  OBVIOUS
<1>1. KeysTypeOK
  BY TimesAssumption DEF Init, KeysInit, KeysTypeOK
<1>2. AccountsTypeOK
  BY DEF Init, AccountsInit, AccountsTypeOK
<1>3. BucketsPast
  BY DEF Init, KeysInit, BucketsPast
<1> QED BY <1>1, <1>2, <1>3 DEF TypeOK

\* Every table, cache entry, bucket and request in flight is well formed; in
\* particular no bucket holds less than nothing or more than it can.
THEOREM AccessTypes == Spec => []TypeOK
<1>1. TypeOK /\ BucketsPast /\ [Next]_vars => TypeOK' /\ BucketsPast'
  <2>1. TypeOK /\ UNCHANGED vars => TypeOK'
    BY DEF TypeOK, KeysTypeOK, AccountsTypeOK, vars, keyVars, accountVars
  <2> QED BY <2>1, NextTypes, NextPast
<1> QED BY <1>1, InitTypes, PTL DEF Spec

THEOREM AccessPast == Spec => [](TypeOK /\ BucketsPast)
<1>1. TypeOK /\ BucketsPast /\ [Next]_vars => TypeOK' /\ BucketsPast'
  <2>1. TypeOK /\ UNCHANGED vars => TypeOK'
    BY DEF TypeOK, KeysTypeOK, AccountsTypeOK, vars, keyVars, accountVars
  <2> QED BY <2>1, NextTypes, NextPast
<1> QED BY <1>1, InitTypes, PTL DEF Spec

------------------------------------------------------------------------------
(* The limiter *)

\* Since any admission, a bucket has spent no more than it held at most and
\* gained since, and it still has what it holds.
Spent == \A k \in Keys :
  /\ bucket[k] = None => admitted[k] = <<>>
  /\ bucket[k] # None => \A i \in DOMAIN admitted[k] :
       /\ admitted[k][i] <= bucket[k].lastTime
       /\ (Len(admitted[k]) - i + 1) * TokenCost + bucket[k].tokens
            <= Full + (bucket[k].lastTime - admitted[k][i])

LEMMA OneMore ==
  ASSUME NEW n \in Int
  PROVE  n * TokenCost \in Int /\ (n + 1) * TokenCost = n * TokenCost + TokenCost
BY TimesAssumption

LEMMA Gained ==
  ASSUME NEW at \in Int, NEW last \in Int, NEW t \in Int, NEW cost \in Int,
         NEW tokens \in Int, NEW filled \in Int, NEW full \in Int,
         at <= last, last <= t,
         cost + tokens <= full + (last - at), filled <= tokens + (t - last)
  PROVE  at <= t /\ cost + filled <= full + (t - at)
OBVIOUS

LEMMA SpentSoFar ==
  ASSUME KeysTypeOK, BucketsPast, Spent, NEW k \in Keys, NEW i \in DOMAIN admitted[k]
  PROVE  /\ admitted[k][i] \in Nat /\ admitted[k][i] <= now
         /\ (Len(admitted[k]) - i + 1) * TokenCost + Filled(k)
              <= Full + (now - admitted[k][i])
<1>1. admitted[k] \in Seq(Nat) /\ admitted[k] # <<>> /\ now \in Nat
  BY DEF KeysTypeOK
<1>2. bucket[k] # None /\ bucket[k] \in Buckets
  BY <1>1 DEF Spent, KeysTypeOK
<1> DEFINE tokens == bucket[k].tokens
           last == bucket[k].lastTime
           at == admitted[k][i]
           cost == (Len(admitted[k]) - i + 1) * TokenCost
<1>3. tokens \in Nat /\ last \in Nat /\ last <= now /\ Full \in Nat
  BY <1>2, FullIsNat DEF Buckets, BucketsPast
<1>4. at \in Nat /\ cost \in Int
  <2>1. Len(admitted[k]) - i + 1 \in Int
    BY <1>1
  <2>2. (Len(admitted[k]) - i + 1) * TokenCost \in Int
    BY <2>1, OneMore
  <2> QED BY <1>1, <2>2
<1>5. at <= last /\ cost + tokens <= Full + (last - at)
  BY <1>2 DEF Spent
<1>6. Filled(k) \in Int /\ Filled(k) <= tokens + (now - last)
  <2>1. Filled(k) = Least(Full, tokens + (now - last))
    BY <1>2 DEF Filled
  <2> HIDE DEF tokens, last
  <2> QED BY <1>1, <1>3, <2>1 DEF Least
<1> HIDE DEF tokens, last, at, cost
<1>7. at <= now /\ cost + Filled(k) <= Full + (now - at)
  <2>1. /\ at \in Int /\ last \in Int /\ now \in Int /\ cost \in Int
        /\ tokens \in Int /\ Filled(k) \in Int /\ Full \in Int
    BY <1>1, <1>3, <1>4, <1>6
  <2> QED BY <1>3, <1>5, <1>6, <2>1, Gained
<1> QED BY <1>4, <1>7 DEF at, cost

LEMMA LimitBounded ==
  ASSUME KeysTypeOK, BucketsPast, Spent, AdmissionsBounded,
         NEW r \in Requests, NEW k \in Keys, Limit(r, k)
  PROVE  Spent' /\ AdmissionsBounded'
<1>1. admitted' = admitted
  BY DEF Limit
<1>2. bucket'[k] = [tokens |-> Filled(k), lastTime |-> now]
  BY DEF Limit, KeysTypeOK
<1>3. bucket'[k] # None
  <2>1. [tokens |-> Filled(k), lastTime |-> now] \in Buckets
    BY FilledIsNatural, FilledIsBounded, FullIsNat DEF Buckets, KeysTypeOK
  <2> QED BY <1>2, <2>1, NoneAssumption
<1>4. ASSUME NEW i \in DOMAIN admitted[k]
      PROVE  /\ admitted[k][i] <= bucket'[k].lastTime
             /\ (Len(admitted[k]) - i + 1) * TokenCost + bucket'[k].tokens
                  <= Full + (bucket'[k].lastTime - admitted[k][i])
  BY <1>2, SpentSoFar
<1>5. ASSUME NEW l \in Keys, l # k PROVE bucket'[l] = bucket[l]
  BY <1>5 DEF Limit, KeysTypeOK
<1>6. Spent'
  BY <1>1, <1>3, <1>4, <1>5 DEF Spent
<1> QED BY <1>1, <1>6 DEF AdmissionsBounded

LEMMA AdmitBounded ==
  ASSUME KeysTypeOK, BucketsPast, Spent, AdmissionsBounded,
         NEW r \in Requests, NEW k \in Keys, Admit(r, k)
  PROVE  Spent' /\ AdmissionsBounded'
<1> DEFINE log == admitted[k]
           n == Len(log)
           after == admitted'[k]
<1>1. log \in Seq(Nat) /\ n \in Nat /\ DOMAIN log = 1 .. n /\ now \in Nat
  BY DEF KeysTypeOK
<1>2. Filled(k) \in Int /\ TokenCost <= Filled(k) /\ Filled(k) <= Full
      /\ Full \in Nat /\ TokenCost \in Nat
  BY FilledIsBounded, FullIsNat DEF Admit
<1>3. after = Append(log, now) /\ bucket'[k] = [tokens |-> Filled(k) - TokenCost, lastTime |-> now]
  BY DEF Admit, KeysTypeOK
<1>4. /\ Len(after) = n + 1 /\ DOMAIN after = 1 .. (n + 1) /\ after[n + 1] = now
      /\ \A i \in 1 .. n : after[i] = log[i]
  BY <1>1, <1>3
<1>5. bucket'[k] # None
  <2>1. [tokens |-> Filled(k) - TokenCost, lastTime |-> now] \in Buckets
    BY <1>1, <1>2 DEF Buckets
  <2> QED BY <1>3, <2>1, NoneAssumption
<1>6. ASSUME NEW l \in Keys, l # k
      PROVE  bucket'[l] = bucket[l] /\ admitted'[l] = admitted[l]
  BY <1>6 DEF Admit, KeysTypeOK
\* The admissions from i on, with the new one, and what is left.
<1>7. ASSUME NEW i \in 1 .. (n + 1)
      PROVE  /\ after[i] \in Nat /\ after[i] <= now
             /\ ((n + 1) - i + 1) * TokenCost \in Int
             /\ ((n + 1) - i + 1) * TokenCost + (Filled(k) - TokenCost)
                  <= Full + (now - after[i])
  <2>1. CASE i = n + 1
    <3>1. (n + 1) - i + 1 = 0 + 1
      BY <1>1, <2>1
    <3>2. ((n + 1) - i + 1) * TokenCost = TokenCost
      BY <3>1, <1>2
    <3> QED BY <1>1, <1>2, <1>4, <2>1, <3>2
  <2>2. CASE i \in 1 .. n
    <3> DEFINE m == n - i + 1
               cost == m * TokenCost
    <3>1. log[i] \in Nat /\ log[i] <= now /\ cost + Filled(k) <= Full + (now - log[i])
      BY <1>1, <2>2, SpentSoFar
    <3>2. m \in Int /\ (n + 1) - i + 1 = m + 1
      BY <1>1, <2>2
    <3>3. cost \in Int /\ ((n + 1) - i + 1) * TokenCost = cost + TokenCost
      <4>1. m * TokenCost \in Int /\ (m + 1) * TokenCost = m * TokenCost + TokenCost
        <5> HIDE DEF m
        <5> QED BY <3>2, OneMore
      <4>2. ((n + 1) - i + 1) * TokenCost = (m + 1) * TokenCost
        BY <3>2
      <4> QED BY <4>1, <4>2
    <3>4. after[i] = log[i]
      BY <1>4, <2>2
    <3> HIDE DEF cost, m
    <3> QED BY SMTT(60), <1>1, <1>2, <3>1, <3>3, <3>4
  <2> QED BY <1>1, <2>1, <2>2
<1>8. Spent'
  <2>1. ASSUME NEW i \in DOMAIN after
        PROVE  /\ after[i] <= bucket'[k].lastTime
               /\ (Len(after) - i + 1) * TokenCost + bucket'[k].tokens
                    <= Full + (bucket'[k].lastTime - after[i])
    <3>1. /\ bucket'[k].lastTime = now
          /\ bucket'[k].tokens = Filled(k) - TokenCost
      BY <1>3
    <3>2. i \in 1 .. (n + 1) /\ Len(after) = n + 1
      BY <1>4
    <3> HIDE DEF after, n
    <3>3. /\ after[i] <= now
          /\ ((n + 1) - i + 1) * TokenCost + (Filled(k) - TokenCost)
               <= Full + (now - after[i])
      BY <1>7, <3>2
    <3> QED BY <3>1, <3>2, <3>3
  <2> QED BY <1>5, <1>6, <2>1 DEF Spent
<1>9. ASSUME NEW i \in 1 .. (n + 1), NEW j \in 1 .. (n + 1), i <= j
      PROVE  (j - i + 1) * TokenCost <= Full + (after[j] - after[i])
  <2>1. CASE j \in 1 .. n
    <3>1. i \in 1 .. n
      BY <1>1, <1>9, <2>1
    <3>2. (j - i + 1) * TokenCost <= Full + (log[j] - log[i])
      BY <1>1, <1>9, <2>1, <3>1 DEF AdmissionsBounded
    <3> QED BY <1>4, <2>1, <3>1, <3>2
  <2>2. CASE j = n + 1
    <3> DEFINE cost == ((n + 1) - i + 1) * TokenCost
    <3>1. cost \in Int /\ cost + (Filled(k) - TokenCost) <= Full + (now - after[i])
          /\ after[i] \in Nat
      BY <1>7
    <3>2. (j - i + 1) * TokenCost = cost /\ after[j] = now
      BY <1>4, <2>2
    <3> HIDE DEF cost
    <3>3. cost <= Full + (now - after[i])
      <4> HIDE DEF after
      <4> QED BY <1>1, <1>2, <3>1
    <3> QED BY <3>2, <3>3
  <2>3. j \in 1 .. n \/ j = n + 1
    <3> HIDE DEF n, after
    <3> QED BY <1>1
  <2> QED BY <2>1, <2>2, <2>3
<1>10. AdmissionsBounded'
  BY <1>4, <1>6, <1>9 DEF AdmissionsBounded
<1> QED BY <1>8, <1>10

LEMMA IngestBounded ==
  ASSUME KeysTypeOK, BucketsPast, Spent, AdmissionsBounded,
         NEW r \in Requests, Ingest(r)
  PROVE  Spent' /\ AdmissionsBounded'
<1>1. lookup[r].key \in Keys
  BY LookupHasParts DEF Ingest, InStage, KeysTypeOK
<1> QED BY <1>1, LimitBounded, AdmitBounded DEF Ingest

\* In any stretch of time the limiter lets a key pass no more requests than a
\* full bucket and what it gained meanwhile pay for, however requests and
\* refusals are spread.
THEOREM LimiterBounds == Spec => []AdmissionsBounded
<1>1. Init => Spent /\ AdmissionsBounded
  BY DEF Init, KeysInit, Spent, AdmissionsBounded
<1>2. TypeOK /\ BucketsPast /\ Spent /\ AdmissionsBounded /\ [Next]_vars
        => Spent' /\ AdmissionsBounded'
  <2> SUFFICES ASSUME TypeOK, BucketsPast, Spent, AdmissionsBounded, [Next]_vars
               PROVE  Spent' /\ AdmissionsBounded'
    OBVIOUS
  <2>1. CASE bucket' = bucket /\ admitted' = admitted
    BY <2>1 DEF Spent, AdmissionsBounded
  <2>2. CASE ~(bucket' = bucket /\ admitted' = admitted)
    <3>1. KeyStep
      BY <2>2, NextKeys DEF TypeOK, vars, keyVars
    <3>2. PICK r \in Requests : Ingest(r)
      BY <2>2, <3>1 DEF KeyStep, Request, Writing, WriteRow, Tick, Ask, CheckCache,
         FindByWriteKey, FindBySecretKey, Find, Store, Forbid, ServeQuery
    <3> QED BY <3>2, IngestBounded DEF TypeOK
  <2> QED BY <2>1, <2>2
<1> QED BY <1>1, <1>2, AccessPast, PTL DEF Spec

------------------------------------------------------------------------------
(***************************************************************************)
(* Access implements KeyAccess: the table, the cache and the lookups in    *)
(* steps grant no key more than the promise does.                          *)
(***************************************************************************)

\* The rows of the table hold the live keys, each in its own project's row.
RowsLive == \A p \in Projects : projects[p] # None =>
  /\ issued[projects[p].write] = [project |-> p, type |-> "write"]
  /\ issued[projects[p].secret] = [project |-> p, type |-> "secret"]
  /\ retiredAt[projects[p].write] = None
  /\ retiredAt[projects[p].secret] = None

LiveInRows == \A k \in Keys : Live(k) =>
  /\ projects[issued[k].project] # None
  /\ k \in {projects[issued[k].project].write, projects[issued[k].project].secret}

UnissuedStand == \A k \in Keys : issued[k] = None => retiredAt[k] = None

\* An entry tells the truth, and ends within the grace of its key.
CacheTrue == \A k \in Keys : cache[k] # None =>
  /\ cache[k].info = issued[k]
  /\ cache[k].expiresAt <= now + CacheTTL
  /\ retiredAt[k] # None => cache[k].expiresAt <= retiredAt[k] + Grace

\* What a request has found is true, and still young while it waits to be kept.
FoundTrue == \A r \in Requests : lookup[r] # None =>
  /\ lookup[r].stage \in Found => lookup[r].info = issued[lookup[r].key]
  /\ lookup[r].stage = "store" =>
       /\ lookup[r].readAt <= now
       /\ now <= lookup[r].readAt + QueryLimit
       /\ retiredAt[lookup[r].key] # None =>
            lookup[r].readAt <= retiredAt[lookup[r].key]

KeysTrue == RowsLive /\ LiveInRows /\ UnissuedStand /\ CacheTrue /\ FoundTrue

------------------------------------------------------------------------------
(* The invariant *)

LEMMA RowHasParts ==
  ASSUME KeysTypeOK, NEW p \in Projects, projects[p] # None
  PROVE  /\ projects[p].write \in WriteKeys /\ projects[p].write \in Keys
         /\ projects[p].secret \in SecretKeys /\ projects[p].secret \in Keys
BY DEF KeysTypeOK, Rows, Keys

LEMMA IssuedHasParts ==
  ASSUME KeysTypeOK, NEW k \in Keys, issued[k] # None
  PROVE  issued[k] \in Infos /\ issued[k].project \in Projects /\ issued[k].type \in Types
BY InfosHaveParts DEF KeysTypeOK

LEMMA GraceIsEnough ==
  /\ CacheTTL \in Nat /\ QueryLimit \in Nat /\ Grace \in Nat
  /\ Grace = CacheTTL + QueryLimit /\ CacheTTL <= Grace /\ QueryLimit < Grace
BY TimesAssumption DEF Grace

\* What writing a row does to the table and to the history of each key.
Written(p, w, s) ==
  /\ w \in Keys /\ s \in Keys /\ w # s
  /\ projects'[p] = [write |-> w, secret |-> s] /\ projects'[p] # None
  /\ \A q \in Projects : q # p => projects'[q] = projects[q]
  /\ issued'[w] = [project |-> p, type |-> "write"]
  /\ issued'[s] = [project |-> p, type |-> "secret"]
  /\ retiredAt'[w] = None /\ retiredAt'[s] = None
  /\ \A k \in Keys : k \notin {w, s} => issued'[k] = issued[k]
  /\ \A k \in Keys : issued[k] # None => k \notin {w, s}
  /\ \A k \in Keys : retiredAt'[k] =
       IF issued[k] # None /\ issued[k].project = p /\ retiredAt[k] = None
       THEN now ELSE retiredAt[k]

LEMMA RowWritten ==
  ASSUME KeysTypeOK, KeysTrue,
         NEW p \in Projects, NEW w \in WriteKeys, NEW s \in SecretKeys,
         WriteRow(p, w, s)
  PROVE  Written(p, w, s)
<1>1. w \in Keys /\ s \in Keys /\ w # s
  BY KeysAssumption DEF Keys
<1>2. issued[w] = None /\ issued[s] = None
  BY DEF WriteRow
<1>3. /\ issued'[w] = [project |-> p, type |-> "write"]
      /\ issued'[s] = [project |-> p, type |-> "secret"]
      /\ \A k \in Keys : k \notin {w, s} => issued'[k] = issued[k]
  BY <1>1 DEF WriteRow, KeysTypeOK
<1>4. /\ projects'[p] = [write |-> w, secret |-> s] /\ projects'[p] # None
      /\ \A q \in Projects : q # p => projects'[q] = projects[q]
  BY NoneAssumption DEF WriteRow, KeysTypeOK, Rows
<1>5. ASSUME NEW k \in Keys
      PROVE  (projects[p] # None /\ k \in {projects[p].write, projects[p].secret})
               <=> (issued[k] # None /\ issued[k].project = p /\ retiredAt[k] = None)
  <2>1. ASSUME projects[p] # None, k \in {projects[p].write, projects[p].secret}
        PROVE  issued[k] # None /\ issued[k].project = p /\ retiredAt[k] = None
    <3>1. /\ issued[k] \in {[project |-> p, type |-> "write"], [project |-> p, type |-> "secret"]}
          /\ retiredAt[k] = None
      BY <2>1 DEF KeysTrue, RowsLive
    <3>2. issued[k] \in Infos
      BY <3>1 DEF Infos, Types
    <3> QED BY <3>1, <3>2, NoneAssumption
  <2>2. ASSUME issued[k] # None, issued[k].project = p, retiredAt[k] = None
        PROVE  projects[p] # None /\ k \in {projects[p].write, projects[p].secret}
    BY <2>2 DEF KeysTrue, LiveInRows, Live
  <2> QED BY <2>1, <2>2
<1>6. ASSUME NEW k \in Keys
      PROVE  retiredAt'[k] =
               IF issued[k] # None /\ issued[k].project = p /\ retiredAt[k] = None
               THEN now ELSE retiredAt[k]
  <2>1. retiredAt'[k] =
          IF projects[p] # None /\ k \in {projects[p].write, projects[p].secret}
          THEN now ELSE retiredAt[k]
    BY DEF WriteRow
  <2> QED BY <1>5, <2>1
<1>7. retiredAt'[w] = None /\ retiredAt'[s] = None
  BY <1>1, <1>2, <1>6 DEF KeysTrue, UnissuedStand
<1> QED BY <1>1, <1>2, <1>3, <1>4, <1>6, <1>7 DEF Written

LEMMA WritingTrue == KeysTypeOK /\ KeysTrue /\ Writing => KeysTrue'
<1> SUFFICES ASSUME KeysTypeOK, KeysTrue,
                    NEW p \in Projects, NEW w \in WriteKeys, NEW s \in SecretKeys,
                    WriteRow(p, w, s)
             PROVE  KeysTrue'
  BY DEF Writing
<1>w. Written(p, w, s)
  BY RowWritten
<1>a. /\ projects'[p] = [write |-> w, secret |-> s] /\ projects'[p] # None
      /\ \A q \in Projects : q # p => projects'[q] = projects[q]
  BY <1>w DEF Written
<1>b. /\ issued'[w] = [project |-> p, type |-> "write"] /\ retiredAt'[w] = None
      /\ issued'[s] = [project |-> p, type |-> "secret"] /\ retiredAt'[s] = None
      /\ \A k \in Keys : k \notin {w, s} => issued'[k] = issued[k]
      /\ \A k \in Keys : issued[k] # None => k \notin {w, s}
  BY <1>w DEF Written
<1>c. \A k \in Keys : retiredAt'[k] =
        IF issued[k] # None /\ issued[k].project = p /\ retiredAt[k] = None
        THEN now ELSE retiredAt[k]
  BY <1>w DEF Written
<1>0. now' = now /\ cache' = cache /\ lookup' = lookup /\ now \in Nat
  BY DEF WriteRow, KeysTypeOK
<1>1. RowsLive'
  <2> SUFFICES ASSUME NEW q \in Projects, projects'[q] # None
               PROVE  /\ issued'[projects'[q].write] = [project |-> q, type |-> "write"]
                      /\ issued'[projects'[q].secret] = [project |-> q, type |-> "secret"]
                      /\ retiredAt'[projects'[q].write] = None
                      /\ retiredAt'[projects'[q].secret] = None
    BY DEF RowsLive
  <2>1. CASE q = p
    BY <1>a, <1>b, <2>1
  <2>2. CASE q # p
    <3>1. projects'[q] = projects[q]
      BY <1>a, <2>2
    <3> DEFINE a == projects[q].write
               b == projects[q].secret
    <3>2. a \in Keys /\ b \in Keys
      BY <3>1, RowHasParts
    <3>3. /\ issued[a] = [project |-> q, type |-> "write"] /\ retiredAt[a] = None
          /\ issued[b] = [project |-> q, type |-> "secret"] /\ retiredAt[b] = None
      BY <3>1 DEF KeysTrue, RowsLive
    <3>4. issued[a] # None /\ issued[b] # None
      BY <3>3, NoneAssumption DEF Infos, Types
    <3> HIDE DEF a, b
    <3>5. issued'[a] = issued[a] /\ issued'[b] = issued[b]
      BY <1>b, <3>2, <3>4
    <3>6. retiredAt'[a] = None /\ retiredAt'[b] = None
      BY <1>c, <2>2, <3>2, <3>3
    <3> QED BY <3>1, <3>3, <3>5, <3>6 DEF a, b
  <2> QED BY <2>1, <2>2
<1>2. LiveInRows'
  <2> SUFFICES ASSUME NEW k \in Keys, issued'[k] # None, retiredAt'[k] = None
               PROVE  /\ projects'[issued'[k].project] # None
                      /\ k \in {projects'[issued'[k].project].write,
                                projects'[issued'[k].project].secret}
    BY DEF LiveInRows, Live
  <2>1. CASE k \in {w, s}
    BY <1>a, <1>b, <2>1
  <2>2. CASE k \notin {w, s}
    <3>1. issued'[k] = issued[k] /\ issued[k] # None
      BY <1>b, <2>2
    <3>2. retiredAt[k] = None /\ issued[k].project # p
      BY <1>0, <1>c, <3>1, NoneAssumption
    <3>3. issued[k].project \in Projects
      BY <3>1, IssuedHasParts
    <3>4. projects'[issued[k].project] = projects[issued[k].project]
      BY <1>a, <3>2, <3>3
    <3> QED BY <3>1, <3>2, <3>4 DEF KeysTrue, LiveInRows, Live
  <2> QED BY <2>1, <2>2
<1>3. UnissuedStand'
  <2> SUFFICES ASSUME NEW k \in Keys, issued'[k] = None PROVE retiredAt'[k] = None
    BY DEF UnissuedStand
  <2>1. CASE k \in {w, s}
    BY <1>a, <1>b, <2>1
  <2>2. CASE k \notin {w, s}
    BY <1>b, <1>c, <2>2 DEF KeysTrue, UnissuedStand
  <2> QED BY <2>1, <2>2
\* A key that was known before is issued as it was, and retired now or as it was.
<1>4. ASSUME NEW k \in Keys, issued[k] # None
      PROVE  issued'[k] = issued[k] /\ retiredAt'[k] \in {now, retiredAt[k]}
  BY <1>b, <1>c, <1>4
<1>5. CacheTrue'
  <2> SUFFICES ASSUME NEW k \in Keys, cache[k] # None
               PROVE  /\ cache[k].info = issued'[k]
                      /\ cache[k].expiresAt <= now + CacheTTL
                      /\ retiredAt'[k] # None => cache[k].expiresAt <= retiredAt'[k] + Grace
    BY <1>0 DEF CacheTrue
  <2>1. /\ cache[k].info = issued[k] /\ cache[k].expiresAt <= now + CacheTTL
        /\ retiredAt[k] # None => cache[k].expiresAt <= retiredAt[k] + Grace
    BY DEF KeysTrue, CacheTrue
  <2>2. cache[k].info \in Infos /\ cache[k].expiresAt \in Nat
    BY DEF KeysTypeOK, Entries
  <2>3. issued[k] # None
    BY <2>1, <2>2, NoneAssumption
  <2>4. cache[k].expiresAt <= now + Grace
    BY <1>0, <2>1, <2>2, GraceIsEnough
  <2> QED BY <1>4, <2>1, <2>3, <2>4
<1>6. FoundTrue'
  <2> SUFFICES ASSUME NEW r \in Requests, lookup[r] # None, lookup[r].stage \in Found
               PROVE  /\ lookup[r].info = issued'[lookup[r].key]
                      /\ lookup[r].stage = "store" =>
                           /\ lookup[r].readAt <= now
                           /\ now <= lookup[r].readAt + QueryLimit
                           /\ retiredAt'[lookup[r].key] # None =>
                                lookup[r].readAt <= retiredAt'[lookup[r].key]
    BY <1>0 DEF FoundTrue, Found
  <2>1. lookup[r].key \in Keys /\ lookup[r].info \in Infos
    BY LookupHasParts DEF KeysTypeOK
  <2>2. issued[lookup[r].key] # None
    BY <2>1, NoneAssumption DEF KeysTrue, FoundTrue
  <2>3. issued'[lookup[r].key] = issued[lookup[r].key]
        /\ retiredAt'[lookup[r].key] \in {now, retiredAt[lookup[r].key]}
    BY <1>4, <2>1, <2>2
  <2> QED BY <2>3 DEF KeysTrue, FoundTrue
<1> QED BY <1>1, <1>2, <1>3, <1>5, <1>6 DEF KeysTrue

LEMMA TickTrue == KeysTypeOK /\ KeysTrue /\ Tick => KeysTrue'
<1> SUFFICES ASSUME KeysTypeOK, KeysTrue, Tick PROVE KeysTrue'
  OBVIOUS
<1>1. RowsLive' /\ LiveInRows' /\ UnissuedStand'
  BY DEF KeysTrue, Tick, RowsLive, LiveInRows, Live, UnissuedStand
<1>2. CacheTrue'
  <2> SUFFICES ASSUME NEW k \in Keys, cache[k] # None
               PROVE  cache[k].expiresAt <= (now + 1) + CacheTTL
    BY DEF Tick, KeysTrue, CacheTrue
  <2>1. cache[k].expiresAt \in Nat /\ now \in Nat
    BY DEF KeysTypeOK, Entries
  <2>2. cache[k].expiresAt <= now + CacheTTL
    BY DEF KeysTrue, CacheTrue
  <2> QED BY <2>1, <2>2, GraceIsEnough
<1>3. FoundTrue'
  <2> SUFFICES ASSUME NEW r \in Requests, lookup[r] # None, lookup[r].stage = "store"
               PROVE  lookup[r].readAt <= now + 1 /\ now + 1 <= lookup[r].readAt + QueryLimit
    BY DEF Tick, KeysTrue, FoundTrue
  <2>1. lookup[r].readAt \in Nat /\ now \in Nat
    BY LookupHasParts DEF KeysTypeOK
  <2>2. lookup[r].readAt <= now
    BY DEF KeysTrue, FoundTrue
  <2>3. now < lookup[r].readAt + QueryLimit
    BY DEF Tick, InStage
  <2> QED BY <2>1, <2>2, <2>3, GraceIsEnough
<1> QED BY <1>1, <1>2, <1>3 DEF KeysTrue

\* A request moves, and all else but the cache and the limiter stays.
LEMMA MoveTrue ==
  ASSUME KeysTypeOK, KeysTrue, NEW r \in Requests, NEW x,
         lookup' = [lookup EXCEPT ![r] = x],
         UNCHANGED <<now, projects, issued, retiredAt>>,
         x # None =>
           /\ x.stage \in Found => x.info = issued[x.key]
           /\ x.stage = "store" =>
                /\ x.readAt <= now /\ now <= x.readAt + QueryLimit
                /\ retiredAt[x.key] # None => x.readAt <= retiredAt[x.key]
  PROVE  RowsLive' /\ LiveInRows' /\ UnissuedStand' /\ FoundTrue'
<1>1. RowsLive' /\ LiveInRows' /\ UnissuedStand'
  BY DEF KeysTrue, RowsLive, LiveInRows, Live, UnissuedStand
<1>2. lookup'[r] = x /\ \A q \in Requests : q # r => lookup'[q] = lookup[q]
  BY DEF KeysTypeOK
<1>3. FoundTrue'
  BY <1>2 DEF KeysTrue, FoundTrue
<1> QED BY <1>1, <1>3

LEMMA MoveOnTrue ==
  ASSUME KeysTypeOK, KeysTrue, NEW r \in Requests, NEW stage \in Unfound \cup Found,
         lookup[r] # None, Become(r, stage), stage # "store",
         stage \in Found => lookup[r].stage \in Found,
         UNCHANGED <<now, projects, issued, retiredAt>>
  PROVE  RowsLive' /\ LiveInRows' /\ UnissuedStand' /\ FoundTrue'
<1> DEFINE x == [lookup[r] EXCEPT !.stage = stage]
<1>1. lookup[r] \in Lookups
  BY DEF KeysTypeOK
<1>2. x.stage = stage /\ x.key = lookup[r].key /\ x.info = lookup[r].info
  BY <1>1 DEF Lookups
<1>3. stage \in Found => lookup[r].info = issued[lookup[r].key]
  BY DEF KeysTrue, FoundTrue
<1>4. lookup' = [lookup EXCEPT ![r] = x]
  BY DEF Become
<1> HIDE DEF x
<1> QED BY <1>2, <1>3, <1>4, MoveTrue

\* What the table answers for a key is what the key was issued for.
LEMMA VerifiedTrue ==
  ASSUME KeysTypeOK, KeysTrue, NEW k \in Keys, NEW type \in Types,
         NEW p \in Verified(type, k)
  PROVE  p \in Projects /\ issued[k] = [project |-> p, type |-> type]
         /\ retiredAt[k] = None
<1>1. p \in Projects /\ projects[p] # None /\ projects[p][type] = k
  BY DEF Verified, ByPrefix
<1>2. CASE type = "write"
  BY <1>1, <1>2 DEF KeysTrue, RowsLive
<1>3. CASE type = "secret"
  BY <1>1, <1>3 DEF KeysTrue, RowsLive
<1> QED BY <1>1, <1>2, <1>3 DEF Types

LEMMA RequestTrue ==
  ASSUME KeysTypeOK, KeysTrue, NEW r \in Requests, Request(r)
  PROVE  KeysTrue'
<1>0. ASSUME NEW stage \in Unfound \cup Found, InStage(r, stage)
      PROVE  /\ lookup[r] # None /\ lookup[r] \in Lookups
             /\ lookup[r].stage = stage /\ lookup[r].key \in Keys
  BY <1>0, LookupHasParts DEF InStage, KeysTypeOK
<1>a. ASSUME UNCHANGED <<now, cache, issued, retiredAt>> PROVE CacheTrue'
  BY <1>a DEF KeysTrue, CacheTrue
<1>1. ASSUME NEW k \in Keys, NEW e \in Endpoints, Ask(r, k, e) PROVE KeysTrue'
  <2> DEFINE x == [stage |-> "cache", key |-> k, endpoint |-> e, info |-> None,
                   readAt |-> 0, excused |-> ~Live(k)]
  <2>1. x.stage \notin Found /\ x.stage # "store"
    BY DEF Found
  <2>2. lookup' = [lookup EXCEPT ![r] = x]
    BY <1>1 DEF Ask
  <2>3. UNCHANGED <<now, projects, cache, issued, retiredAt>>
    BY <1>1 DEF Ask
  <2> HIDE DEF x
  <2> QED BY <1>a, <2>1, <2>2, <2>3, MoveTrue DEF KeysTrue
<1>2. CASE CheckCache(r)
  <2> DEFINE k == lookup[r].key
  <2>1. lookup[r] # None /\ lookup[r] \in Lookups /\ k \in Keys
        /\ lookup[r].stage = "cache"
    BY <1>0, <1>2 DEF CheckCache, Unfound
  <2>2. UNCHANGED <<now, projects, cache, issued, retiredAt>>
    BY <1>2 DEF CheckCache
  <2>3. CASE Cached(k)
    <3> DEFINE x == [lookup[r] EXCEPT !.stage = "granted", !.info = cache[k].info,
                                      !.excused = FALSE]
    <3>1. lookup' = [lookup EXCEPT ![r] = x]
      BY <1>2, <2>3 DEF CheckCache
    <3>2. x.stage = "granted" /\ x.key = k /\ x.info = cache[k].info
      BY <2>1 DEF Lookups
    <3>3. cache[k].info = issued[k]
      BY <2>1, <2>3 DEF Cached, KeysTrue, CacheTrue
    <3> HIDE DEF x
    <3> QED BY <1>a, <2>2, <3>1, <3>2, <3>3, MoveTrue DEF KeysTrue
  <2>4. CASE ~Cached(k)
    <3>1. Become(r, "write")
      BY <1>2, <2>4 DEF CheckCache
    <3> QED BY <1>a, <2>1, <2>2, <3>1, MoveOnTrue DEF KeysTrue, Unfound, Found
  <2> QED BY <2>3, <2>4
<1>3. ASSUME NEW type \in Types, NEW after \in {"secret", "refused"}, Find(r, type, after)
      PROVE  KeysTrue'
  <2> DEFINE k == lookup[r].key
  <2>1. lookup[r] # None /\ lookup[r] \in Lookups /\ k \in Keys
        /\ lookup[r].stage = type
    BY <1>0, <1>3 DEF Find, Unfound, Types
  <2>2. UNCHANGED <<now, projects, cache, issued, retiredAt>> /\ now \in Nat
    BY <1>3 DEF Find, KeysTypeOK
  <2>3. CASE lookup' = [lookup EXCEPT ![r] = [@ EXCEPT !.stage = after, !.excused = TRUE]]
    <3> DEFINE x == [lookup[r] EXCEPT !.stage = after, !.excused = TRUE]
    <3>1. x.stage \notin Found /\ x.stage # "store"
      BY <2>1 DEF Lookups, Found
    <3>2. lookup' = [lookup EXCEPT ![r] = x]
      BY <2>3
    <3> HIDE DEF x
    <3> QED BY <1>a, <2>2, <3>1, <3>2, MoveTrue DEF KeysTrue
  <2>4. ASSUME NEW p \in Verified(type, k),
               lookup' = [lookup EXCEPT ![r] =
                 [@ EXCEPT !.stage = "store", !.readAt = now, !.excused = FALSE,
                           !.info = [project |-> p, type |-> type]]]
        PROVE  KeysTrue'
    <3> DEFINE x == [lookup[r] EXCEPT !.stage = "store", !.readAt = now, !.excused = FALSE,
                                      !.info = [project |-> p, type |-> type]]
    <3>1. lookup' = [lookup EXCEPT ![r] = x]
      BY <2>4
    <3>2. x.key = k /\ x.readAt = now /\ x.info = [project |-> p, type |-> type]
      BY <2>1 DEF Lookups
    <3>3. issued[k] = [project |-> p, type |-> type] /\ retiredAt[k] = None
      BY <2>1, VerifiedTrue
    <3>4. now <= now + QueryLimit /\ now <= now
      BY <2>2, GraceIsEnough
    <3> HIDE DEF x
    <3> QED BY <1>a, <2>2, <3>1, <3>2, <3>3, <3>4, MoveTrue DEF KeysTrue
  <2>5. CASE Become(r, after)
    BY <1>a, <2>1, <2>2, <2>5, MoveOnTrue DEF KeysTrue, Unfound, Found
  <2> QED BY <1>3, <2>3, <2>4, <2>5 DEF Find
<1>4. CASE Store(r)
  <2> DEFINE k == lookup[r].key
             x == [lookup[r] EXCEPT !.stage = "granted", !.readAt = 0]
  <2>1. lookup[r] # None /\ lookup[r] \in Lookups /\ k \in Keys
        /\ lookup[r].stage = "store"
    BY <1>0, <1>4 DEF Store, Found
  <2>2. UNCHANGED <<now, projects, issued, retiredAt>>
        /\ lookup' = [lookup EXCEPT ![r] = x]
    BY <1>4 DEF Store
  <2>3. x.stage = "granted" /\ x.key = k /\ x.info = lookup[r].info
    BY <2>1 DEF Lookups
  <2>4. /\ lookup[r].info = issued[k]
        /\ now <= lookup[r].readAt + QueryLimit
        /\ retiredAt[k] # None => lookup[r].readAt <= retiredAt[k]
    BY <2>1 DEF KeysTrue, FoundTrue, Found
  <2>5. RowsLive' /\ LiveInRows' /\ UnissuedStand' /\ FoundTrue'
    <3> HIDE DEF x
    <3> QED BY <2>2, <2>3, <2>4, MoveTrue
  <2>6. CacheTrue'
    <3> DEFINE entry == [info |-> lookup[r].info, expiresAt |-> now + CacheTTL]
    <3>1. cache'[k] = entry /\ \A l \in Keys : l # k => cache'[l] = cache[l]
      BY <1>4, <2>1 DEF Store, KeysTypeOK
    <3>2. now \in Nat /\ lookup[r].readAt \in Nat
          /\ (retiredAt[k] # None => retiredAt[k] \in Nat)
      BY <2>1, LookupHasParts DEF KeysTypeOK
    <3>3. retiredAt[k] # None => now + CacheTTL <= retiredAt[k] + Grace
      BY <2>4, <3>2, GraceIsEnough
    <3>4. now + CacheTTL <= now + CacheTTL
      BY <3>2, GraceIsEnough
    <3> QED BY <2>2, <2>4, <3>1, <3>3, <3>4 DEF KeysTrue, CacheTrue
  <2> QED BY <2>5, <2>6 DEF KeysTrue
<1>5. ASSUME NEW stage \in Found, stage # "store", InStage(r, "granted"), Become(r, stage),
             UNCHANGED <<now, projects, cache, issued, retiredAt>>
      PROVE  KeysTrue'
  BY <1>0, <1>a, <1>5, MoveOnTrue DEF KeysTrue, Found
<1>6. CASE Forbid(r) \/ ServeQuery(r) \/ Ingest(r)
  BY <1>5, <1>6 DEF Forbid, ServeQuery, Ingest, Limit, Admit, Found
<1> QED BY <1>1, <1>2, <1>3, <1>4, <1>6
        DEF Request, FindByWriteKey, FindBySecretKey, NextSearch, Types

LEMMA NextTrue == TypeOK /\ KeysTrue /\ [Next]_vars => KeysTrue'
<1> SUFFICES ASSUME TypeOK, KeysTrue, [Next]_vars PROVE KeysTrue'
  OBVIOUS
<1>1. CASE KeyStep
  BY <1>1, RequestTrue, WritingTrue, TickTrue DEF KeyStep, TypeOK
<1>2. CASE UNCHANGED keyVars
  BY <1>2 DEF keyVars, KeysTrue, RowsLive, LiveInRows, Live, UnissuedStand, CacheTrue, FoundTrue
<1> QED BY <1>1, <1>2, NextKeys DEF TypeOK, vars

LEMMA InitTrue == Init => KeysTrue
BY DEF Init, KeysInit, KeysTrue, RowsLive, LiveInRows, Live, UnissuedStand, CacheTrue, FoundTrue

\* Whatever is cached or found for a key is what it was issued for, and the
\* rows of the table are the keys that stand.
THEOREM AccessTrue == Spec => []KeysTrue
BY AccessTypes, InitTrue, NextTrue, PTL DEF Spec

------------------------------------------------------------------------------
(* The refinement *)

\* How a lookup looks from outside, and how all of them do.
View(x) ==
  IF x = None THEN None
  ELSE [key |-> x.key,
        endpoint |-> x.endpoint,
        outcome |-> Outcome(x.stage),
        project |-> IF x.stage \in {"granted", "served"} THEN x.info.project ELSE None]

Views == [r \in Requests |-> AccessOf(r)]

LEMMA ViewOf ==
  ASSUME NEW x \in Lookups
  PROVE  /\ View(x) # None /\ View(x) \in Accesses
         /\ View(x).key = x.key /\ View(x).endpoint = x.endpoint
         /\ View(x).outcome = Outcome(x.stage)
<1>1. x # None
  BY NoneAssumption
<1>2. /\ x.key \in Keys /\ x.endpoint \in Endpoints /\ x.stage \in Unfound \cup Found
      /\ x.stage \in Found => x.info \in Infos
  BY LookupHasParts
<1>3. View(x) = [key |-> x.key, endpoint |-> x.endpoint, outcome |-> Outcome(x.stage),
                 project |-> IF x.stage \in {"granted", "served"}
                             THEN x.info.project ELSE None]
  BY <1>1 DEF View
<1>4. Outcome(x.stage) \in {"asking", "granted", "served", "refused"}
  BY DEF Outcome
<1>5. (IF x.stage \in {"granted", "served"} THEN x.info.project ELSE None)
        \in Projects \cup {None}
  <2>1. CASE x.stage \in {"granted", "served"}
    <3>1. x.info \in Infos
      BY <1>2, <2>1 DEF Found
    <3>2. x.info.project \in Projects
      BY <3>1, InfosHaveParts
    <3> QED BY <2>1, <3>2
  <2> QED BY <2>1
<1>6. View(x) \in Accesses
  <2> DEFINE project == IF x.stage \in {"granted", "served"}
                        THEN x.info.project ELSE None
             outcome == Outcome(x.stage)
  <2>1. project \in Projects \cup {None}
        /\ outcome \in {"asking", "granted", "served", "refused"}
    BY <1>4, <1>5
  <2>2. View(x) = [key |-> x.key, endpoint |-> x.endpoint, outcome |-> outcome,
                   project |-> project]
    BY <1>3
  <2> HIDE DEF project, outcome
  <2> QED BY <1>2, <2>1, <2>2 DEF Accesses
<1> QED BY <1>3, <1>6, AccessAssumption

LEMMA OutcomeOf ==
  /\ \A stage \in Searching : Outcome(stage) = "asking"
  /\ Outcome("granted") = "granted" /\ Outcome("served") = "served"
  /\ \A stage \in {"refused", "forbidden", "limited"} : Outcome(stage) = "refused"
BY DEF Outcome, Searching

LEMMA ViewsMove ==
  ASSUME KeysTypeOK, NEW r \in Requests, NEW x, lookup' = [lookup EXCEPT ![r] = x]
  PROVE  Views' = [Views EXCEPT ![r] = View(x)]
<1>1. Views = [q \in Requests |-> View(lookup[q])]
  BY DEF Views, AccessOf, View
<1>2. Views' = [q \in Requests |-> View(lookup'[q])]
  BY DEF Views, AccessOf, View
<1>3. \A q \in Requests : lookup'[q] = IF q = r THEN x ELSE lookup[q]
  BY DEF KeysTypeOK
<1> QED BY <1>1, <1>2, <1>3

LEMMA ViewsStay ==
  ASSUME KeysTypeOK, NEW r \in Requests, NEW x,
         lookup' = [lookup EXCEPT ![r] = x], View(x) = View(lookup[r])
  PROVE  Views' = Views
<1>1. Views = [q \in Requests |-> View(lookup[q])]
  BY DEF Views, AccessOf, View
<1>2. Views' = [q \in Requests |-> View(lookup'[q])]
  BY DEF Views, AccessOf, View
<1>3. \A q \in Requests : View(lookup'[q]) = View(lookup[q])
  BY DEF KeysTypeOK
<1> QED BY <1>1, <1>2, <1>3

LEMMA ViewAt == \A r \in Requests : Views[r] = View(lookup[r])
BY DEF Views, AccessOf, View

LEMMA AccessIsItsParts ==
  ASSUME NEW v \in Accesses
  PROVE  v = [key |-> v.key, endpoint |-> v.endpoint,
              outcome |-> v.outcome, project |-> v.project]
BY DEF Accesses

LEMMA AccessChanges ==
  ASSUME NEW v \in Accesses,
         NEW outcome \in {"asking", "granted", "served", "refused"},
         NEW project \in Projects \cup {None}
  PROVE  /\ [v EXCEPT !.outcome = outcome, !.project = project]
              = [key |-> v.key, endpoint |-> v.endpoint,
                 outcome |-> outcome, project |-> project]
         /\ [v EXCEPT !.outcome = outcome]
              = [key |-> v.key, endpoint |-> v.endpoint,
                 outcome |-> outcome, project |-> v.project]
<1> DEFINE both == [v EXCEPT !.outcome = outcome, !.project = project]
           one == [v EXCEPT !.outcome = outcome]
<1>1. /\ both \in Accesses /\ both.key = v.key /\ both.endpoint = v.endpoint
      /\ both.outcome = outcome /\ both.project = project
  BY DEF Accesses
<1>2. /\ one \in Accesses /\ one.key = v.key /\ one.endpoint = v.endpoint
      /\ one.outcome = outcome /\ one.project = v.project
  BY DEF Accesses
<1> HIDE DEF both, one
<1>3. both = [key |-> v.key, endpoint |-> v.endpoint,
              outcome |-> outcome, project |-> project]
  BY <1>1, AccessIsItsParts
<1>4. one = [key |-> v.key, endpoint |-> v.endpoint,
             outcome |-> outcome, project |-> v.project]
  BY <1>2, AccessIsItsParts
<1> QED BY <1>3, <1>4 DEF both, one

\* A request is refused: from the search or after it was granted.
LEMMA RefuseMaps ==
  ASSUME KeysTypeOK, NEW r \in Requests, NEW x \in Lookups,
         lookup' = [lookup EXCEPT ![r] = x], lookup[r] # None,
         lookup[r].stage \in Searching \cup {"granted"},
         x.stage \in {"refused", "forbidden", "limited"},
         x.key = lookup[r].key, x.endpoint = lookup[r].endpoint,
         UNCHANGED <<now, issued, retiredAt>>
  PROVE  Promise!Refuse(r)
<1> DEFINE v == View(lookup[r])
<1>1. lookup[r] \in Lookups
  BY DEF KeysTypeOK
<1>2. /\ v # None /\ v \in Accesses /\ v.outcome \in {"asking", "granted"}
      /\ v.key = lookup[r].key /\ v.endpoint = lookup[r].endpoint
  BY <1>1, ViewOf, OutcomeOf
<1>3. x # None
  BY NoneAssumption
<1>4. View(x) = [key |-> v.key, endpoint |-> v.endpoint, outcome |-> "refused",
                 project |-> None]
  BY <1>2, <1>3, OutcomeOf DEF View
<1>5. View(x) = [v EXCEPT !.outcome = "refused", !.project = None]
  BY <1>2, <1>4, AccessChanges
<1>6. Views[r] = v
  BY ViewAt
<1>7. Views' = [Views EXCEPT ![r] = View(x)]
  BY ViewsMove
<1>8. Views' = [Views EXCEPT ![r] = [@ EXCEPT !.outcome = "refused", !.project = None]]
  BY <1>5, <1>6, <1>7
<1> HIDE DEF v
<1> QED BY <1>2, <1>6, <1>8 DEF Promise!Refuse, Views

LEMMA AskMaps ==
  ASSUME KeysTypeOK, NEW r \in Requests, NEW k \in Keys, NEW e \in Endpoints, Ask(r, k, e)
  PROVE  Promise!Ask(r, k, e)
<1> DEFINE x == [stage |-> "cache", key |-> k, endpoint |-> e, info |-> None,
                 readAt |-> 0, excused |-> ~Live(k)]
<1>1. lookup' = [lookup EXCEPT ![r] = x] /\ UNCHANGED <<now, issued, retiredAt>>
  BY DEF Ask
<1>2. x \in Lookups /\ x.key = k /\ x.endpoint = e /\ x.stage = "cache"
  BY DEF Lookups, Unfound, Live
<1>3. View(x) = [key |-> k, endpoint |-> e, outcome |-> "asking", project |-> None]
  <2> HIDE DEF x
  <2> QED BY <1>2, NoneAssumption, OutcomeOf DEF View, Searching
<1>4. Views' = [Views EXCEPT ![r] =
        [key |-> k, endpoint |-> e, outcome |-> "asking", project |-> None]]
  <2> HIDE DEF x
  <2> QED BY <1>1, <1>3, ViewsMove
<1>5. ASSUME Views[r] # None PROVE Views[r].outcome \in {"served", "refused"}
  <2>1. lookup[r] # None /\ lookup[r] \in Lookups
    BY <1>5, ViewAt DEF View, KeysTypeOK
  <2>2. lookup[r].stage \in Answered
    BY <2>1 DEF Ask
  <2> QED BY <2>1, <2>2, ViewAt, ViewOf, OutcomeOf DEF Answered
<1> QED BY <1>1, <1>4, <1>5 DEF Promise!Ask, Views

\* A request is granted out of the cache or when its answer is kept.
LEMMA GrantMaps ==
  ASSUME KeysTypeOK, NEW r \in Requests, NEW x \in Lookups,
         lookup' = [lookup EXCEPT ![r] = x], lookup[r] # None,
         lookup[r].stage \in Searching,
         x.stage = "granted", x.key = lookup[r].key, x.endpoint = lookup[r].endpoint,
         x.info = issued[x.key],
         retiredAt[x.key] = None \/ now < retiredAt[x.key] + Grace,
         UNCHANGED <<now, issued, retiredAt>>
  PROVE  Promise!Grant(r)
<1> DEFINE v == View(lookup[r])
<1>1. lookup[r] \in Lookups
  BY DEF KeysTypeOK
<1>2. /\ v # None /\ v \in Accesses /\ v.outcome = "asking"
      /\ v.key = lookup[r].key /\ v.endpoint = lookup[r].endpoint
  BY <1>1, ViewOf, OutcomeOf
<1>3. x.info \in Infos /\ x # None
  BY LookupHasParts, NoneAssumption DEF Found
<1>4. issued[v.key] # None /\ issued[v.key].project \in Projects
      /\ x.info.project = issued[v.key].project
  BY <1>2, <1>3, InfosHaveParts, NoneAssumption
<1>5. View(x) = [key |-> v.key, endpoint |-> v.endpoint, outcome |-> "granted",
                 project |-> issued[v.key].project]
  BY <1>2, <1>3, <1>4, OutcomeOf DEF View
<1>6. View(x) = [v EXCEPT !.outcome = "granted", !.project = issued[v.key].project]
  BY <1>2, <1>4, <1>5, AccessChanges
<1>7. Views[r] = v
  BY ViewAt
<1>8. Views' = [Views EXCEPT ![r] = View(x)]
  BY ViewsMove
<1>9. Views' = [Views EXCEPT ![r] =
        [@ EXCEPT !.outcome = "granted", !.project = issued[Views[r].key].project]]
  BY <1>6, <1>7, <1>8
<1>10. retiredAt[Views[r].key] = None \/ now < retiredAt[Views[r].key] + Grace
  BY <1>2, <1>7
<1> HIDE DEF v
<1> QED BY <1>2, <1>4, <1>7, <1>9, <1>10 DEF Promise!Grant, Promise!InGrace, Views

LEMMA ServeMaps ==
  ASSUME KeysTypeOK, NEW r \in Requests, NEW x \in Lookups,
         lookup' = [lookup EXCEPT ![r] = x], lookup[r] # None,
         lookup[r].stage = "granted", x.stage = "served",
         x.key = lookup[r].key, x.endpoint = lookup[r].endpoint, x.info = lookup[r].info,
         lookup[r].info = issued[lookup[r].key],
         lookup[r].info.type = Required(lookup[r].endpoint),
         UNCHANGED <<now, issued, retiredAt>>
  PROVE  Promise!Serve(r)
<1> DEFINE v == View(lookup[r])
<1>1. lookup[r] \in Lookups
  BY DEF KeysTypeOK
<1>2. /\ v # None /\ v \in Accesses /\ v.outcome = "granted"
      /\ v.key = lookup[r].key /\ v.endpoint = lookup[r].endpoint
  BY <1>1, ViewOf, OutcomeOf
<1>3. v.project = lookup[r].info.project
  BY DEF View
<1>4. x # None
  BY NoneAssumption
<1>5. View(x) = [key |-> v.key, endpoint |-> v.endpoint, outcome |-> "served",
                 project |-> v.project]
  BY <1>2, <1>3, <1>4, OutcomeOf DEF View
<1>6. View(x) = [v EXCEPT !.outcome = "served"]
  BY <1>2, <1>5, AccessChanges
<1>7. Views[r] = v
  BY ViewAt
<1>8. Views' = [Views EXCEPT ![r] = View(x)]
  BY ViewsMove
<1>9. Views' = [Views EXCEPT ![r] = [@ EXCEPT !.outcome = "served"]]
  BY <1>6, <1>7, <1>8
<1>10. issued[Views[r].key].type = Required(Views[r].endpoint)
  BY <1>2, <1>7
<1> HIDE DEF v
<1> QED BY <1>2, <1>7, <1>9, <1>10 DEF Promise!Serve, Promise!Required, Required, Views

LEMMA IssueMaps ==
  ASSUME KeysTypeOK, KeysTrue,
         NEW p \in Projects, NEW w \in WriteKeys, NEW s \in SecretKeys, WriteRow(p, w, s)
  PROVE  Promise!Issue(p, w, s)
<1>1. Written(p, w, s)
  BY RowWritten
<1>2. retiredAt' = [k \in Keys |->
        IF issued[k] # None /\ issued[k].project = p /\ retiredAt[k] = None
        THEN now ELSE retiredAt[k]]
  <2>1. retiredAt' = [k \in Keys |-> retiredAt'[k]]
    BY DEF WriteRow
  <2> QED BY <1>1, <2>1 DEF Written
<1>3. Views' = Views
  BY DEF WriteRow, Views, AccessOf
<1> QED BY <1>1, <1>2, <1>3 DEF Promise!Issue, Written, WriteRow, Views

LEMMA RequestMaps ==
  ASSUME KeysTypeOK, KeysTrue, NEW r \in Requests, Request(r)
  PROVE  Promise!Next \/ UNCHANGED <<now, issued, retiredAt, Views>>
<1>0. ASSUME NEW stage \in Unfound \cup Found, InStage(r, stage)
      PROVE  /\ lookup[r] # None /\ lookup[r] \in Lookups
             /\ lookup[r].stage = stage /\ lookup[r].key \in Keys
  BY <1>0, LookupHasParts DEF InStage, KeysTypeOK
<1>1. ASSUME NEW k \in Keys, NEW e \in Endpoints, Ask(r, k, e) PROVE Promise!Next
  BY <1>1, AskMaps DEF Promise!Next, Promise!Endpoints, Endpoints
<1>2. CASE CheckCache(r)
  <2> DEFINE k == lookup[r].key
  <2>1. lookup[r] # None /\ lookup[r] \in Lookups /\ k \in Keys
        /\ lookup[r].stage = "cache"
    BY <1>0, <1>2 DEF CheckCache, Unfound
  <2>2. UNCHANGED <<now, issued, retiredAt>>
    BY <1>2 DEF CheckCache
  <2>3. CASE Cached(k)
    <3> DEFINE x == [lookup[r] EXCEPT !.stage = "granted", !.info = cache[k].info,
                                      !.excused = FALSE]
    <3>1. lookup' = [lookup EXCEPT ![r] = x]
      BY <1>2, <2>3 DEF CheckCache
    <3>2. cache[k].info \in Infos /\ cache[k].expiresAt \in Nat
      BY <2>1, <2>3 DEF Cached, KeysTypeOK, Entries
    <3>3. x.stage = "granted" /\ x.key = k /\ x.info = cache[k].info
          /\ x.endpoint = lookup[r].endpoint
      BY <2>1 DEF Lookups
    <3>4. x \in Lookups
      BY <2>1, <3>2, LookupFinds DEF Found
    <3>5. /\ cache[k].info = issued[k]
          /\ retiredAt[k] # None => cache[k].expiresAt <= retiredAt[k] + Grace
      BY <2>1, <2>3 DEF Cached, KeysTrue, CacheTrue
    <3>6. retiredAt[k] = None \/ now < retiredAt[k] + Grace
      <4>1. now < cache[k].expiresAt /\ now \in Nat
            /\ (retiredAt[k] # None => retiredAt[k] \in Nat)
        BY <2>1, <2>3 DEF Cached, KeysTypeOK
      <4> QED BY <3>2, <3>5, <4>1, GraceIsEnough
    <3> HIDE DEF x
    <3>7. Promise!Grant(r)
      BY <2>1, <2>2, <3>1, <3>3, <3>4, <3>5, <3>6, GrantMaps DEF Searching
    <3> QED BY <3>7 DEF Promise!Next
  <2>4. CASE ~Cached(k)
    <3> DEFINE x == [lookup[r] EXCEPT !.stage = "write"]
    <3>1. lookup' = [lookup EXCEPT ![r] = x]
      BY <1>2, <2>4 DEF CheckCache, Become
    <3>2. x \in Lookups /\ x.stage = "write" /\ x.key = k /\ x.endpoint = lookup[r].endpoint
      BY <2>1, LookupMoves, GraceIsEnough DEF Unfound, Lookups
    <3> HIDE DEF x
    <3>3. View(x) = View(lookup[r])
      BY <2>1, <3>2, NoneAssumption, OutcomeOf DEF View, Searching
    <3> QED BY <2>2, <3>1, <3>3, ViewsStay
  <2> QED BY <2>3, <2>4
<1>3. ASSUME NEW type \in Types, NEW after \in {"secret", "refused"}, Find(r, type, after)
      PROVE  Promise!Next \/ UNCHANGED <<now, issued, retiredAt, Views>>
  <2> DEFINE k == lookup[r].key
  <2>1. lookup[r] # None /\ lookup[r] \in Lookups /\ k \in Keys
        /\ lookup[r].stage = type
    BY <1>0, <1>3 DEF Find, Unfound, Types
  <2>2. UNCHANGED <<now, issued, retiredAt>> /\ now \in Nat
    BY <1>3 DEF Find, KeysTypeOK
  \* The search goes on, or ends without a key.
  <2>3. ASSUME NEW x \in Lookups, lookup' = [lookup EXCEPT ![r] = x],
               x.stage = after, x.key = k, x.endpoint = lookup[r].endpoint
        PROVE  Promise!Next \/ UNCHANGED <<now, issued, retiredAt, Views>>
    <3>1. CASE after = "refused"
      <4>1. Promise!Refuse(r)
        BY <2>1, <2>2, <2>3, <3>1, RefuseMaps DEF Searching, Types
      <4> QED BY <4>1 DEF Promise!Next
    <3>2. CASE after = "secret"
      <4>1. View(x) = View(lookup[r])
        BY <2>1, <2>3, <3>2, NoneAssumption, OutcomeOf DEF View, Searching, Types
      <4> QED BY <2>2, <2>3, <4>1, ViewsStay
    <3> QED BY <3>1, <3>2
  <2>4. CASE lookup' = [lookup EXCEPT ![r] = [@ EXCEPT !.stage = after, !.excused = TRUE]]
    <3> DEFINE x == [lookup[r] EXCEPT !.stage = after, !.excused = TRUE]
    <3>1. x \in Lookups /\ x.stage = after /\ x.key = k /\ x.endpoint = lookup[r].endpoint
      BY <2>1, LookupMoves, GraceIsEnough, ZenonT(60) DEF Unfound, Lookups, Types
    <3>2. lookup' = [lookup EXCEPT ![r] = x]
      BY <2>4
    <3> HIDE DEF x
    <3> QED BY <2>3, <3>1, <3>2
  <2>5. ASSUME NEW p \in Verified(type, k),
               lookup' = [lookup EXCEPT ![r] =
                 [@ EXCEPT !.stage = "store", !.readAt = now, !.excused = FALSE,
                           !.info = [project |-> p, type |-> type]]]
        PROVE  UNCHANGED <<now, issued, retiredAt, Views>>
    <3> DEFINE x == [lookup[r] EXCEPT !.stage = "store", !.readAt = now, !.excused = FALSE,
                                      !.info = [project |-> p, type |-> type]]
    <3>1. lookup' = [lookup EXCEPT ![r] = x]
      BY <2>5
    <3>2. [project |-> p, type |-> type] \in Infos
      BY <2>1, VerifiedTrue DEF Infos
    <3>3. x \in Lookups
      BY <2>1, <2>2, <3>2, LookupFinds DEF Found
    <3>4. x.key = k /\ x.endpoint = lookup[r].endpoint /\ x.stage = "store"
      BY <2>1 DEF Lookups
    <3> HIDE DEF x
    <3>5. View(x) = View(lookup[r])
      BY <2>1, <3>3, <3>4, NoneAssumption, OutcomeOf DEF View, Searching, Types
    <3> QED BY <2>2, <3>1, <3>5, ViewsStay
  <2>6. CASE Become(r, after)
    <3> DEFINE x == [lookup[r] EXCEPT !.stage = after]
    <3>1. x \in Lookups /\ x.stage = after /\ x.key = k /\ x.endpoint = lookup[r].endpoint
      BY <2>1, LookupMoves, GraceIsEnough DEF Unfound, Lookups, Types
    <3>2. lookup' = [lookup EXCEPT ![r] = x]
      BY <2>6 DEF Become
    <3> HIDE DEF x
    <3> QED BY <2>3, <3>1, <3>2
  <2> QED BY <1>3, <2>4, <2>5, <2>6 DEF Find
<1>4. CASE Store(r)
  <2> DEFINE k == lookup[r].key
             x == [lookup[r] EXCEPT !.stage = "granted", !.readAt = 0]
  <2>1. lookup[r] # None /\ lookup[r] \in Lookups /\ k \in Keys
        /\ lookup[r].stage = "store"
    BY <1>0, <1>4 DEF Store, Found
  <2>2. UNCHANGED <<now, issued, retiredAt>> /\ lookup' = [lookup EXCEPT ![r] = x]
    BY <1>4 DEF Store
  <2>3. x.stage = "granted" /\ x.key = k /\ x.info = lookup[r].info
        /\ x.endpoint = lookup[r].endpoint
    BY <2>1 DEF Lookups
  <2>4. x \in Lookups
    BY <2>1, LookupMoves DEF Found
  <2>5. /\ lookup[r].info = issued[k]
        /\ now <= lookup[r].readAt + QueryLimit
        /\ retiredAt[k] # None => lookup[r].readAt <= retiredAt[k]
    BY <2>1 DEF KeysTrue, FoundTrue, Found
  <2>6. retiredAt[k] = None \/ now < retiredAt[k] + Grace
    <3>1. now \in Nat /\ lookup[r].readAt \in Nat
          /\ (retiredAt[k] # None => retiredAt[k] \in Nat)
      BY <2>1, LookupHasParts DEF KeysTypeOK
    <3> QED BY <2>5, <3>1, GraceIsEnough
  <2> HIDE DEF x
  <2>7. Promise!Grant(r)
    BY <2>1, <2>2, <2>3, <2>4, <2>5, <2>6, GrantMaps DEF Searching
  <2> QED BY <2>7 DEF Promise!Next
<1>5. ASSUME NEW stage \in Found, InStage(r, "granted"), Become(r, stage)
      PROVE  /\ lookup[r] # None /\ lookup[r].stage = "granted"
             /\ lookup[r].info = issued[lookup[r].key]
             /\ [lookup[r] EXCEPT !.stage = stage] \in Lookups
             /\ lookup' = [lookup EXCEPT ![r] = [lookup[r] EXCEPT !.stage = stage]]
             /\ [lookup[r] EXCEPT !.stage = stage].stage = stage
             /\ [lookup[r] EXCEPT !.stage = stage].key = lookup[r].key
             /\ [lookup[r] EXCEPT !.stage = stage].endpoint = lookup[r].endpoint
             /\ [lookup[r] EXCEPT !.stage = stage].info = lookup[r].info
  <2>1. lookup[r] # None /\ lookup[r] \in Lookups /\ lookup[r].stage = "granted"
    BY <1>0, <1>5 DEF Found
  <2>2. [lookup[r] EXCEPT !.stage = stage] \in Lookups
    BY <2>1, LookupMoves, GraceIsEnough DEF Found
  <2>3. lookup[r].info = issued[lookup[r].key]
    BY <2>1 DEF KeysTrue, FoundTrue, Found
  <2> QED BY <1>5, <2>1, <2>2, <2>3 DEF Become, Lookups
<1>6. ASSUME NEW stage \in {"forbidden", "limited"}, InStage(r, "granted"), Become(r, stage),
             UNCHANGED <<now, issued, retiredAt>>
      PROVE  Promise!Next
  <2> DEFINE x == [lookup[r] EXCEPT !.stage = stage]
  <2>1. /\ lookup[r] # None /\ lookup[r].stage = "granted" /\ x \in Lookups
        /\ lookup' = [lookup EXCEPT ![r] = x] /\ x.stage = stage
        /\ x.key = lookup[r].key /\ x.endpoint = lookup[r].endpoint
    BY <1>5, <1>6 DEF Found
  <2> HIDE DEF x
  <2>2. Promise!Refuse(r)
    BY <1>6, <2>1, RefuseMaps
  <2> QED BY <2>2 DEF Promise!Next
<1>7. ASSUME InStage(r, "granted"), Become(r, "served"),
             lookup[r].info.type = Required(lookup[r].endpoint),
             UNCHANGED <<now, issued, retiredAt>>
      PROVE  Promise!Next
  <2> DEFINE x == [lookup[r] EXCEPT !.stage = "served"]
  <2>1. /\ lookup[r] # None /\ lookup[r].stage = "granted" /\ x \in Lookups
        /\ lookup' = [lookup EXCEPT ![r] = x] /\ x.stage = "served"
        /\ x.key = lookup[r].key /\ x.endpoint = lookup[r].endpoint
        /\ x.info = lookup[r].info /\ lookup[r].info = issued[lookup[r].key]
    BY <1>5, <1>7 DEF Found
  <2> HIDE DEF x
  <2>2. Promise!Serve(r)
    BY <1>7, <2>1, ServeMaps
  <2> QED BY <2>2 DEF Promise!Next
<1>8. CASE Forbid(r)
  BY <1>6, <1>8 DEF Forbid
<1>9. CASE ServeQuery(r)
  BY <1>7, <1>9 DEF ServeQuery
<1>10. CASE Ingest(r)
  BY <1>6, <1>7, <1>10 DEF Ingest, Limit, Admit
<1> QED BY <1>1, <1>2, <1>3, <1>4, <1>8, <1>9, <1>10
        DEF Request, FindByWriteKey, FindBySecretKey, NextSearch, Types

\* Every step of the server is a step of the promise or leaves it alone.
LEMMA NextMaps ==
  ASSUME TypeOK, KeysTrue, [Next]_vars
  PROVE  [Promise!Next]_(Promise!vars)
<1>1. ASSUME UNCHANGED keyVars PROVE UNCHANGED <<now, issued, retiredAt, Views>>
  BY <1>1 DEF keyVars, Views, AccessOf
<1>2. ASSUME Writing PROVE Promise!Next
  <2>1. PICK p \in Projects, w \in WriteKeys, s \in SecretKeys : WriteRow(p, w, s)
    BY <1>2 DEF Writing
  <2>2. Promise!Issue(p, w, s) /\ w \in Keys /\ s \in Keys
    BY <2>1, IssueMaps DEF TypeOK, Keys
  <2> QED BY <2>2 DEF Promise!Next
<1>3. ASSUME Tick PROVE Promise!Next
  BY <1>3 DEF Tick, Promise!Next, Promise!Tick, AccessOf
<1>4. KeyStep \/ UNCHANGED keyVars
  BY NextKeys DEF TypeOK, vars
<1>5. Promise!Next \/ UNCHANGED <<now, issued, retiredAt, Views>>
  BY <1>1, <1>2, <1>3, <1>4, RequestMaps DEF KeyStep, TypeOK
<1> QED BY <1>5 DEF Promise!vars, Views

LEMMA InitMaps == Init => Promise!Init
BY DEF Init, KeysInit, Promise!Init, AccessOf

\* A key is granted the project it was issued for, while it stands and for no
\* longer than Grace after it was rotated away, and served where its type may
\* go: whatever the cache held and whichever lookups were under way.
THEOREM AccessKeepsPromise == Spec => KeysKeepPromise
<1>1. TypeOK /\ KeysTrue /\ [Next]_vars => [Promise!Next]_(Promise!vars)
  BY NextMaps
<1> QED BY <1>1, InitMaps, AccessTypes, AccessTrue, PTL
        DEF Spec, KeysKeepPromise, Promise!Spec

------------------------------------------------------------------------------
(***************************************************************************)
(* Accounts, projects and refusals.                                        *)
(***************************************************************************)

(* Projects and their owners *)

LEMMA AccountedStep ==
  ASSUME TypeOK, ProjectsAccountedFor, [Next]_vars
  PROVE  ProjectsAccountedFor'
<1> SUFFICES ASSUME NEW p \in Projects, projects'[p] # None
             PROVE  \/ \E c \in Consoles : At(c, "member")' /\ console'[c].project = p
                    \/ \E u \in Emails : <<u, p, TRUE>> \in created' /\ <<u, p>> \in members'
                    \/ \E u \in Emails : <<u, p, FALSE>> \in created'
  BY DEF ProjectsAccountedFor, ListUserProjects
<1> USE DEF TypeOK, AccountsTypeOK
<1>1. ASSUME UNCHANGED <<members, created>>, projects[p] # None,
             NEW c \in Consoles, ~At(c, "member"),
             \A d \in Consoles : d # c => console'[d] = console[d]
      PROVE  \/ \E d \in Consoles : At(d, "member")' /\ console'[d].project = p
             \/ \E u \in Emails : <<u, p, TRUE>> \in created' /\ <<u, p>> \in members'
             \/ \E u \in Emails : <<u, p, FALSE>> \in created'
  BY <1>1 DEF ProjectsAccountedFor, ListUserProjects, At
<1>2. CASE UNCHANGED accountVars /\ (UNCHANGED projects \/ projects[p] # None)
  BY <1>2 DEF accountVars, ProjectsAccountedFor, ListUserProjects, At
<1>3. ASSUME NEW r \in Requests, Request(r) PROVE UNCHANGED projects
  BY <1>3 DEF Request, Ask, CheckCache, FindByWriteKey, FindBySecretKey, Find, Store,
              Forbid, ServeQuery, Ingest
<1>4. ASSUME NEW c \in Consoles, NEW q \in Projects, NEW w \in WriteKeys, NEW s \in SecretKeys,
             CreateProject(c, q, w, s)
      PROVE  \/ \E d \in Consoles : At(d, "member")' /\ console'[d].project = p
             \/ \E u \in Emails : <<u, p, TRUE>> \in created' /\ <<u, p>> \in members'
             \/ \E u \in Emails : <<u, p, FALSE>> \in created'
  <2>1. At(c, "create") /\ ~At(c, "member")
    BY <1>4 DEF CreateProject, At
  <2>2. console' = [console EXCEPT ![c] =
          [stage |-> "member", user |-> console[c].user, project |-> q]]
    BY <1>4 DEF CreateProject, Enter
  <2>3. CASE q = p
    <3>1. console[c].user \in Emails
      BY <2>1, HandlingHasParts DEF At
    <3>2. [stage |-> "member", user |-> console[c].user, project |-> q] \in Handlings
      BY <3>1 DEF Handlings
    <3>3. console'[c] # None /\ console'[c].stage = "member" /\ console'[c].project = p
      BY <2>2, <2>3, <3>2, AccountsAssumption
    <3> QED BY <3>3 DEF At
  <2>4. CASE q # p
    <3>1. projects[p] # None
      BY <1>4, <2>4 DEF CreateProject, WriteRow, KeysTypeOK
    <3> QED BY <1>1, <1>4, <2>1, <2>2, <3>1 DEF CreateProject
  <2> QED BY <2>3, <2>4
<1>5. ASSUME NEW c \in Consoles, AddMember(c)
      PROVE  \/ \E d \in Consoles : At(d, "member")' /\ console'[d].project = p
             \/ \E u \in Emails : <<u, p, TRUE>> \in created' /\ <<u, p>> \in members'
             \/ \E u \in Emails : <<u, p, FALSE>> \in created'
  <2>1. projects[p] # None
    BY <1>5 DEF AddMember, keyVars
  <2>2. /\ members \subseteq members' /\ created \subseteq created'
        /\ \A d \in Consoles : d # c => console'[d] = console[d]
    BY <1>5 DEF AddMember, Return
  <2>3. CASE console[c].project = p
    <3>1. console[c].user \in Emails
      BY <1>5, HandlingHasParts DEF AddMember, At
    <3>2. PICK added \in BOOLEAN :
            /\ members' = members \cup
                 (IF added THEN {<<console[c].user, console[c].project>>} ELSE {})
            /\ created' = created \cup {<<console[c].user, console[c].project, added>>}
      BY <1>5 DEF AddMember
    <3>3. CASE added
      BY <2>3, <3>1, <3>2, <3>3
    <3>4. CASE ~added
      BY <2>3, <3>1, <3>2, <3>4
    <3> QED BY <3>3, <3>4
  <2>4. CASE console[c].project # p
    BY <2>1, <2>2, <2>4 DEF ProjectsAccountedFor, ListUserProjects, At
  <2> QED BY <2>3, <2>4
<1>6. ASSUME NEW c \in Consoles, NEW w \in WriteKeys, NEW s \in SecretKeys, RotateKeys(c, w, s)
      PROVE  projects[p] # None
  BY <1>6 DEF RotateKeys, WriteRow, KeysTypeOK
<1>7. ASSUME NEW c \in Consoles, Handler(c)
      PROVE  \/ \E d \in Consoles : At(d, "member")' /\ console'[d].project = p
             \/ \E u \in Emails : <<u, p, TRUE>> \in created' /\ <<u, p>> \in members'
             \/ \E u \in Emails : <<u, p, FALSE>> \in created'
  <2>1. CASE AddMember(c)
    BY <1>5, <2>1
  <2>2. CASE \E q \in Projects, w \in WriteKeys, s \in SecretKeys : CreateProject(c, q, w, s)
    BY <1>4, <2>2
  <2>3. CASE /\ ~AddMember(c)
             /\ ~\E q \in Projects, w \in WriteKeys, s \in SecretKeys : CreateProject(c, q, w, s)
    <3>1. /\ UNCHANGED <<members, created>> /\ ~At(c, "member")
          /\ \A d \in Consoles : d # c => console'[d] = console[d]
      BY <1>7, <2>3
         DEF Handler, Fail, HandleSetup, HandleLogin, CreateFirstUser, StartSession,
             Authenticate, HandleLogout, CheckOwner, RotateKeys, Enter, Return, At, Idle
    <3>2. projects[p] # None
      BY <1>6, <1>7, <2>3
         DEF Handler, Fail, HandleSetup, HandleLogin, CreateFirstUser, StartSession,
             Authenticate, HandleLogout, CheckOwner, keyVars
    <3> QED BY <1>1, <3>1, <3>2
  <2> QED BY <2>1, <2>2, <2>3
<1> QED BY <1>2, <1>3, <1>7 DEF Next, Pass, Tick, vars, keyVars

\* However handlers interleave and whichever statement fails, a project whose
\* creation was answered with success has its owner, who finds it.
THEOREM ProjectsHaveOwners == Spec => []ProjectsAccountedFor
<1>1. Init => ProjectsAccountedFor
  BY DEF Init, KeysInit, ProjectsAccountedFor
<1>2. TypeOK /\ ProjectsAccountedFor /\ [Next]_vars => ProjectsAccountedFor'
  BY AccountedStep
<1> QED BY <1>1, <1>2, AccessTypes, PTL DEF Spec

------------------------------------------------------------------------------
(* Rotation *)

\* Who is about to rotate has an account and owns the project; who asked to
\* has an account.
Entitled == \A c \in Consoles :
  /\ At(c, "rotate") \/ At(c, "rotating") => users[console[c].user] # None
  /\ At(c, "rotating") => <<console[c].user, console[c].project>> \in members

LEMMA EntitledStep ==
  ASSUME TypeOK, Entitled, [Next]_vars
  PROVE  Entitled'
<1> USE DEF TypeOK, AccountsTypeOK
<1>1. CASE UNCHANGED accountVars
  BY <1>1 DEF accountVars, Entitled, At
<1>2. ASSUME NEW c \in Consoles, Handler(c) PROVE Entitled'
  <2>1. members \subseteq members' /\ \A e \in Emails : users[e] # None => users'[e] # None
    <3>1. CASE CreateFirstUser(c)
      BY <3>1, AccountsAssumption DEF CreateFirstUser
    <3>2. CASE ~CreateFirstUser(c)
      BY <1>2, <3>2
         DEF Handler, Fail, HandleSetup, HandleLogin, StartSession, Authenticate,
             HandleLogout, CreateProject, AddMember, CheckOwner, RotateKeys
    <3> QED BY <3>1, <3>2
  <2>2. \A d \in Consoles : d # c => console'[d] = console[d]
    BY <1>2 DEF Handler, Fail, HandleSetup, HandleLogin, CreateFirstUser, StartSession,
                Authenticate, HandleLogout, CreateProject, AddMember, CheckOwner,
                RotateKeys, Enter, Return
  <2>3. ASSUME NEW d \in Consoles, d # c
        PROVE  /\ At(d, "rotate")' \/ At(d, "rotating")' => users'[console'[d].user] # None
               /\ At(d, "rotating")' => <<console'[d].user, console'[d].project>> \in members'
    <3>1. console[d] # None => console[d].user \in Emails
      BY HandlingHasParts
    <3> QED BY <2>1, <2>2, <2>3, <3>1 DEF Entitled, At
  <2>4. /\ At(c, "rotate")' \/ At(c, "rotating")' => users'[console'[c].user] # None
        /\ At(c, "rotating")' => <<console'[c].user, console'[c].project>> \in members'
    <3>1. ASSUME NEW stage \in {"logout", "create", "rotate"}, Authenticate(c, stage)
          PROVE  users'[console'[c].user] # None /\ ~At(c, "rotating")'
      BY <3>1 DEF Authenticate, Enter, At
    <3>2. ASSUME NEW p \in Projects, CheckOwner(c, p)
          PROVE  At(c, "rotating")' =>
                   /\ users'[console'[c].user] # None
                   /\ <<console'[c].user, console'[c].project>> \in members'
      <4>1. CASE p \in ListUserProjects(console[c].user)
        <5> DEFINE u == console[c].user
                   x == [stage |-> "rotating", user |-> u, project |-> p]
        <5>1. console' = [console EXCEPT ![c] = x] /\ At(c, "rotate")
              /\ users' = users /\ members' = members
          BY <3>2, <4>1 DEF CheckOwner, Enter
        <5>2. console'[c] = x
          BY <5>1
        <5>3. x.user = u /\ x.project = p
          OBVIOUS
        <5>4. users[u] # None /\ <<u, p>> \in members
          BY <4>1, <5>1 DEF Entitled, ListUserProjects
        <5> HIDE DEF x, u
        <5> QED BY <5>1, <5>2, <5>3, <5>4
      <4>2. CASE p \notin ListUserProjects(console[c].user)
        BY <3>2, <4>2 DEF CheckOwner, Return, At
      <4> QED BY <4>1, <4>2
    <3>3. ASSUME NEW p \in Projects, CheckOwner(c, p) PROVE ~At(c, "rotate")'
      BY <3>3 DEF CheckOwner, Enter, Return, At
    <3>4. ASSUME NEW e \in Emails, HandleSetup(c, e) \/ HandleLogin(c, e)
          PROVE  ~At(c, "rotate")' /\ ~At(c, "rotating")'
      BY <3>4 DEF HandleSetup, HandleLogin, Enter, At
    <3>5. ASSUME NEW p \in Projects, NEW w \in WriteKeys, NEW s \in SecretKeys,
                 CreateProject(c, p, w, s)
          PROVE  ~At(c, "rotate")' /\ ~At(c, "rotating")'
      BY <3>5 DEF CreateProject, Enter, At
    <3>6. CASE CreateFirstUser(c)
      BY <3>6 DEF CreateFirstUser, Enter, At
    <3>7. ASSUME Return(c) PROVE ~At(c, "rotate")' /\ ~At(c, "rotating")'
      BY <3>7 DEF Return, At
    <3> QED BY <1>2, <3>1, <3>2, <3>3, <3>4, <3>5, <3>6, <3>7
            DEF Handler, Fail, StartSession, HandleLogout, AddMember, RotateKeys
  <2> QED BY <2>3, <2>4 DEF Entitled
<1> QED BY <1>1, <1>2 DEF Next, Pass, vars

LEMMA RotationStep ==
  ASSUME TypeOK, KeysTrue, Entitled, [Next]_vars,
         NEW p \in Projects, projects[p] # None, projects'[p] # projects[p]
  PROVE  /\ projects'[p].write # projects[p].write
         /\ projects'[p].secret # projects[p].secret
         /\ \E c \in Consoles :
              /\ At(c, "rotating") /\ ~At(c, "rotating")'
              /\ users[console[c].user] # None
              /\ p \in ListUserProjects(console[c].user)
<1> USE DEF TypeOK, AccountsTypeOK
<1>1. ASSUME NEW r \in Requests PROVE ~Request(r)
  BY <1>1 DEF Request, Ask, CheckCache, FindByWriteKey, FindBySecretKey, Find, Store,
              Forbid, ServeQuery, Ingest
<1>2. PICK c \in Consoles : Handler(c)
  BY <1>1 DEF Next, Pass, Tick, vars, keyVars
<1>3. ASSUME NEW q \in Projects, NEW w \in WriteKeys, NEW s \in SecretKeys
      PROVE  ~CreateProject(c, q, w, s)
  BY <1>3 DEF CreateProject, WriteRow, KeysTypeOK
<1>4. PICK w \in WriteKeys, s \in SecretKeys : RotateKeys(c, w, s)
  BY <1>2, <1>3
     DEF Handler, Fail, HandleSetup, HandleLogin, CreateFirstUser, StartSession,
         Authenticate, HandleLogout, AddMember, CheckOwner, keyVars
<1>5. console[c].project = p /\ WriteRow(p, w, s) /\ At(c, "rotating")
  <2>1. At(c, "rotating") /\ WriteRow(console[c].project, w, s)
    BY <1>4 DEF RotateKeys
  <2>2. console[c].project = p
    BY <2>1 DEF WriteRow, KeysTypeOK
  <2> QED BY <2>1, <2>2
<1>6. /\ projects'[p].write # projects[p].write
      /\ projects'[p].secret # projects[p].secret
  <2>1. projects'[p] = [write |-> w, secret |-> s] /\ issued[w] = None /\ issued[s] = None
    BY <1>5 DEF WriteRow, KeysTypeOK
  <2>2. issued[projects[p].write] # None /\ issued[projects[p].secret] # None
    <3>1. /\ issued[projects[p].write] = [project |-> p, type |-> "write"]
          /\ issued[projects[p].secret] = [project |-> p, type |-> "secret"]
      BY DEF KeysTrue, RowsLive
    <3>2. /\ [project |-> p, type |-> "write"] \in Infos
          /\ [project |-> p, type |-> "secret"] \in Infos
      BY DEF Infos, Types
    <3> QED BY <3>1, <3>2, NoneAssumption
  <2> QED BY <2>1, <2>2
<1>7. ~At(c, "rotating")'
  BY <1>4 DEF RotateKeys, Return, At
<1> QED BY <1>5, <1>6, <1>7 DEF Entitled, ListUserProjects

\* Nobody but an owner of a project changes its keys, and rotation leaves
\* neither of the old pair in the table.
THEOREM OwnersRotate == Spec => RotatedByOwners
<1>1. Init => Entitled
  BY DEF Init, AccountsInit, Entitled, At
<1>2. TypeOK /\ Entitled /\ [Next]_vars => Entitled'
  BY EntitledStep
<1>3. TypeOK /\ KeysTrue /\ Entitled /\ [Next]_vars =>
        [\A p \in Projects :
           projects[p] # None /\ projects'[p] # projects[p] =>
             /\ projects'[p].write # projects[p].write
             /\ projects'[p].secret # projects[p].secret
             /\ \E c \in Consoles :
                  /\ At(c, "rotating") /\ ~(At(c, "rotating"))'
                  /\ users[console[c].user] # None
                  /\ p \in ListUserProjects(console[c].user)]_projects
  BY RotationStep
<1> QED BY <1>1, <1>2, <1>3, AccessTypes, AccessTrue, PTL DEF Spec, RotatedByOwners

------------------------------------------------------------------------------
(* Refusals *)

\* A request no refusal of which is excused carries a key that was issued;
\* if the search has passed a table, the key is not one that stands in it.
Sought == \A r \in Requests : lookup[r] # None /\ ~lookup[r].excused =>
  /\ issued[lookup[r].key] # None
  /\ lookup[r].stage = "secret" /\ retiredAt[lookup[r].key] = None =>
       issued[lookup[r].key].type = "secret"
  /\ lookup[r].stage = "refused" => retiredAt[lookup[r].key] # None

\* A key that stands is found in the table of its type.
LEMMA StandingIsVerified ==
  ASSUME KeysTypeOK, KeysTrue, NEW k \in Keys, issued[k] # None, retiredAt[k] = None
  PROVE  Verified(issued[k].type, k) # {} /\ issued[k].type \in Types
<1> DEFINE p == issued[k].project
<1>1. issued[k] \in Infos /\ p \in Projects /\ issued[k].type \in Types
  BY IssuedHasParts
<1>2. projects[p] # None /\ k \in {projects[p].write, projects[p].secret}
  BY DEF KeysTrue, LiveInRows, Live
<1>3. CASE k = projects[p].write
  <2>1. issued[k] = [project |-> p, type |-> "write"]
    BY <1>1, <1>2, <1>3 DEF KeysTrue, RowsLive
  <2>2. issued[k].type = "write"
    BY <2>1
  <2>3. p \in Verified("write", k)
    BY <1>1, <1>2, <1>3 DEF Verified, ByPrefix
  <2> QED BY <1>1, <2>2, <2>3
<1>4. CASE k = projects[p].secret
  <2>1. issued[k] = [project |-> p, type |-> "secret"]
    BY <1>1, <1>2, <1>4 DEF KeysTrue, RowsLive
  <2>2. issued[k].type = "secret"
    BY <2>1
  <2>3. p \in Verified("secret", k)
    BY <1>1, <1>2, <1>4 DEF Verified, ByPrefix
  <2> QED BY <1>1, <2>2, <2>3
<1> QED BY <1>2, <1>3, <1>4

LEMMA SoughtMoves ==
  ASSUME KeysTypeOK, Sought, NEW r \in Requests, NEW x,
         lookup' = [lookup EXCEPT ![r] = x], UNCHANGED <<issued, retiredAt>>,
         ~x.excused =>
           /\ issued[x.key] # None
           /\ x.stage = "secret" /\ retiredAt[x.key] = None => issued[x.key].type = "secret"
           /\ x.stage = "refused" => retiredAt[x.key] # None
  PROVE  Sought'
<1>1. lookup'[r] = x /\ \A q \in Requests : q # r => lookup'[q] = lookup[q]
  BY DEF KeysTypeOK
<1> QED BY <1>1 DEF Sought

LEMMA RequestSeeks ==
  ASSUME KeysTypeOK, KeysTrue, Sought, NEW r \in Requests, Request(r)
  PROVE  Sought'
<1>0. ASSUME NEW stage \in Unfound \cup Found, InStage(r, stage)
      PROVE  /\ lookup[r] # None /\ lookup[r] \in Lookups
             /\ lookup[r].stage = stage /\ lookup[r].key \in Keys
             /\ stage \in Found => lookup[r].info = issued[lookup[r].key]
                                   /\ lookup[r].info \in Infos
  <2>1. /\ lookup[r] # None /\ lookup[r] \in Lookups
        /\ lookup[r].stage = stage /\ lookup[r].key \in Keys
    BY <1>0, LookupHasParts DEF InStage, KeysTypeOK
  <2>2. ASSUME stage \in Found
        PROVE  lookup[r].info = issued[lookup[r].key] /\ lookup[r].info \in Infos
    BY <2>1, <2>2, LookupHasParts DEF KeysTrue, FoundTrue
  <2> QED BY <2>1, <2>2
<1>1. ASSUME NEW k \in Keys, NEW e \in Endpoints, Ask(r, k, e) PROVE Sought'
  <2> DEFINE x == [stage |-> "cache", key |-> k, endpoint |-> e, info |-> None,
                   readAt |-> 0, excused |-> ~Live(k)]
  <2>1. lookup' = [lookup EXCEPT ![r] = x] /\ UNCHANGED <<issued, retiredAt>>
    BY <1>1 DEF Ask
  <2>2. ~x.excused => issued[k] # None
    BY DEF Live
  <2>3. x.stage = "cache" /\ x.key = k
    OBVIOUS
  <2> HIDE DEF x
  <2> QED BY <2>1, <2>2, <2>3, SoughtMoves
\* A move that leaves the key and the excuse, out of stages that are searched.
<1>2. ASSUME NEW stage \in {"write"} \cup Found, InStage(r, "cache") \/ InStage(r, "granted"),
             Become(r, stage), UNCHANGED <<issued, retiredAt>>
      PROVE  Sought'
  <2> DEFINE x == [lookup[r] EXCEPT !.stage = stage]
  <2>1. lookup[r] # None /\ lookup[r] \in Lookups
    BY <1>0, <1>2 DEF Unfound, Found
  <2>2. x.stage = stage /\ x.key = lookup[r].key /\ x.excused = lookup[r].excused
    BY <2>1 DEF Lookups
  <2>3. lookup' = [lookup EXCEPT ![r] = x]
    BY <1>2 DEF Become
  <2>4. ~lookup[r].excused => issued[lookup[r].key] # None
    BY <2>1 DEF Sought
  <2> HIDE DEF x
  <2> QED BY <1>2, <2>2, <2>3, <2>4, SoughtMoves DEF Found
<1>3. CASE CheckCache(r)
  <2> DEFINE k == lookup[r].key
  <2>1. lookup[r] # None /\ lookup[r] \in Lookups /\ k \in Keys /\ InStage(r, "cache")
    BY <1>0, <1>3 DEF CheckCache, Unfound
  <2>2. CASE Cached(k)
    <3> DEFINE x == [lookup[r] EXCEPT !.stage = "granted", !.info = cache[k].info,
                                      !.excused = FALSE]
    <3>1. lookup' = [lookup EXCEPT ![r] = x] /\ UNCHANGED <<issued, retiredAt>>
      BY <1>3, <2>2 DEF CheckCache
    <3>2. x.stage = "granted" /\ x.key = k
      BY <2>1 DEF Lookups
    <3>3. cache[k].info = issued[k] /\ cache[k].info \in Infos
      BY <2>1, <2>2 DEF Cached, KeysTrue, CacheTrue, KeysTypeOK, Entries
    <3>4. issued[k] # None
      BY <3>3, NoneAssumption
    <3> HIDE DEF x
    <3> QED BY <3>1, <3>2, <3>4, SoughtMoves
  <2>3. CASE ~Cached(k)
    BY <1>2, <1>3, <2>1, <2>3 DEF CheckCache
  <2> QED BY <2>2, <2>3
<1>4. ASSUME NEW type \in Types, NEW after \in {"secret", "refused"}, Find(r, type, after),
             (type = "write" /\ after = "secret") \/ (type = "secret" /\ after = "refused")
      PROVE  Sought'
  <2> DEFINE k == lookup[r].key
  <2>1. lookup[r] # None /\ lookup[r] \in Lookups /\ k \in Keys /\ lookup[r].stage = type
    BY <1>0, <1>4 DEF Find, Unfound, Types
  <2>2. UNCHANGED <<issued, retiredAt>>
    BY <1>4 DEF Find
  <2>3. CASE lookup' = [lookup EXCEPT ![r] = [@ EXCEPT !.stage = after, !.excused = TRUE]]
    <3> DEFINE x == [lookup[r] EXCEPT !.stage = after, !.excused = TRUE]
    <3>1. x.excused /\ lookup' = [lookup EXCEPT ![r] = x]
      BY <2>1, <2>3 DEF Lookups
    <3> HIDE DEF x
    <3> QED BY <2>2, <3>1, SoughtMoves
  <2>4. ASSUME NEW p \in Verified(type, k),
               lookup' = [lookup EXCEPT ![r] =
                 [@ EXCEPT !.stage = "store", !.readAt = now, !.excused = FALSE,
                           !.info = [project |-> p, type |-> type]]]
        PROVE  Sought'
    <3> DEFINE x == [lookup[r] EXCEPT !.stage = "store", !.readAt = now, !.excused = FALSE,
                                      !.info = [project |-> p, type |-> type]]
    <3>1. lookup' = [lookup EXCEPT ![r] = x]
      BY <2>4
    <3>2. x.key = k /\ x.stage = "store"
      BY <2>1 DEF Lookups
    <3>3. issued[k] = [project |-> p, type |-> type] /\ p \in Projects
      BY <2>1, VerifiedTrue
    <3>4. [project |-> p, type |-> type] \in Infos
      BY <3>3 DEF Infos
    <3>5. issued[k] # None
      BY <3>3, <3>4, NoneAssumption
    <3> HIDE DEF x
    <3> QED BY <2>2, <3>1, <3>2, <3>5, SoughtMoves
  <2>5. CASE Verified(type, k) = {} /\ Become(r, after)
    <3> DEFINE x == [lookup[r] EXCEPT !.stage = after]
    <3>1. lookup' = [lookup EXCEPT ![r] = x]
      BY <2>5 DEF Become
    <3>2. x.key = k /\ x.stage = after /\ x.excused = lookup[r].excused
      BY <2>1 DEF Lookups
    <3>3. ~lookup[r].excused =>
            /\ issued[k] # None
            /\ type = "secret" /\ retiredAt[k] = None => issued[k].type = "secret"
      BY <2>1 DEF Sought
    <3>4. issued[k] # None /\ retiredAt[k] = None =>
            issued[k].type # type /\ issued[k].type \in Types
      BY <2>1, <2>5, StandingIsVerified
    <3>5. ~lookup[r].excused =>
            /\ issued[k] # None
            /\ after = "secret" /\ retiredAt[k] = None => issued[k].type = "secret"
            /\ after = "refused" => retiredAt[k] # None
      BY <1>4, <3>3, <3>4 DEF Types
    <3> HIDE DEF x
    <3> QED BY <2>2, <3>1, <3>2, <3>5, SoughtMoves
  <2> QED BY <1>4, <2>3, <2>4, <2>5 DEF Find
<1>5. CASE Store(r)
  <2> DEFINE k == lookup[r].key
             x == [lookup[r] EXCEPT !.stage = "granted", !.readAt = 0]
  <2>1. /\ lookup[r] \in Lookups /\ lookup[r].info = issued[k]
        /\ lookup[r].info \in Infos
    BY <1>0, <1>5 DEF Store, Found
  <2>2. lookup' = [lookup EXCEPT ![r] = x] /\ UNCHANGED <<issued, retiredAt>>
    BY <1>5 DEF Store
  <2>3. x.key = k /\ x.stage = "granted"
    BY <2>1 DEF Lookups
  <2>4. issued[k] # None
    BY <2>1, NoneAssumption
  <2> HIDE DEF x
  <2> QED BY <2>2, <2>3, <2>4, SoughtMoves
<1>6. CASE Forbid(r) \/ ServeQuery(r) \/ Ingest(r)
  BY <1>2, <1>6 DEF Forbid, ServeQuery, Ingest, Limit, Admit, Found
<1> QED BY <1>1, <1>3, <1>4, <1>5, <1>6
        DEF Request, FindByWriteKey, FindBySecretKey, NextSearch, Types

\* Rows are written for keys never issued, and a key once retired stays so.
LEMMA WritingSeeks ==
  ASSUME KeysTypeOK, KeysTrue, Sought, Writing
  PROVE  Sought'
<1>1. PICK p \in Projects, w \in WriteKeys, s \in SecretKeys : WriteRow(p, w, s)
  BY DEF Writing
<1>2. Written(p, w, s)
  BY <1>1, RowWritten
<1>3. ASSUME NEW k \in Keys, issued[k] # None
      PROVE  issued'[k] = issued[k] /\ (retiredAt'[k] = None => retiredAt[k] = None)
  <2>1. now # None
    BY NoneAssumption DEF KeysTypeOK
  <2> QED BY <1>2, <1>3, <2>1 DEF Written
<1>4. \A r \in Requests : lookup'[r] # None => lookup[r].key \in Keys
  BY <1>1, LookupHasParts DEF WriteRow, KeysTypeOK
<1>5. lookup' = lookup
  BY <1>1 DEF WriteRow
<1> QED BY <1>3, <1>4, <1>5 DEF Sought

\* A key that stands is never turned away as unknown, unless a query failed or
\* the key was rotated while it was looked up.
THEOREM RefusalsHaveCause == Spec => []RefusedForCause
<1>1. Init => Sought
  BY DEF Init, KeysInit, Sought
<1>2. TypeOK /\ KeysTrue /\ Sought /\ [Next]_vars => Sought'
  <2> SUFFICES ASSUME TypeOK, KeysTrue, Sought, [Next]_vars PROVE Sought'
    OBVIOUS
  <2>1. CASE KeyStep
    <3>1. CASE Tick
      BY <3>1 DEF Tick, Sought
    <3> QED BY <2>1, <3>1, RequestSeeks, WritingSeeks DEF KeyStep, TypeOK
  <2>2. CASE UNCHANGED keyVars
    BY <2>2 DEF keyVars, Sought
  <2> QED BY <2>1, <2>2, NextKeys DEF TypeOK, vars
<1>3. Sought => RefusedForCause
  BY DEF Sought, RefusedForCause, InStage
<1> QED BY <1>1, <1>2, <1>3, AccessTypes, AccessTrue, PTL DEF Spec

------------------------------------------------------------------------------
(* Set-up *)

Finite == IsFiniteSet(Registered) /\ IsFiniteSet(SettingUp)

\* How a step changes the accounts and the set-ups that are running.
LEMMA SetupMoves ==
  ASSUME TypeOK, [Next]_vars
  PROVE  \/ Registered' = Registered /\ SettingUp' = SettingUp
         \/ /\ Registered = {} /\ Registered' = Registered
            /\ \E c \in Consoles : SettingUp' = SettingUp \cup {c}
         \/ /\ Registered' = Registered
            /\ \E c \in SettingUp : SettingUp' = SettingUp \ {c}
         \/ \E c \in SettingUp, e \in Emails \ Registered :
              Registered' = Registered \cup {e} /\ SettingUp' = SettingUp \ {c}
<1> USE DEF TypeOK, AccountsTypeOK
<1>1. ASSUME users' = users PROVE Registered' = Registered
  BY <1>1 DEF Registered
<1>2. ASSUME NEW c \in Consoles, NEW x, console' = [console EXCEPT ![c] = x],
             x = None \/ x.stage # "setup"
      PROVE  SettingUp' = SettingUp \ {c}
  BY <1>2 DEF SettingUp, At
<1>3. ASSUME NEW c \in Consoles, NEW stage, NEW u, NEW p, Enter(c, stage, u, p), stage # "setup"
      PROVE  SettingUp' = SettingUp \ {c}
  <2> DEFINE x == [stage |-> stage, user |-> u, project |-> p]
  <2>1. console' = [console EXCEPT ![c] = x] /\ x.stage # "setup"
    BY <1>3 DEF Enter
  <2> HIDE DEF x
  <2> QED BY <1>2, <2>1
<1>4. ASSUME NEW c \in Consoles, Return(c) PROVE SettingUp' = SettingUp \ {c}
  BY <1>2, <1>4 DEF Return
<1>5. ASSUME NEW c \in Consoles, SettingUp' = SettingUp \ {c}
      PROVE  SettingUp' = SettingUp \/ \E d \in SettingUp : SettingUp' = SettingUp \ {d}
  BY <1>5
<1>6. CASE UNCHANGED accountVars
  BY <1>6 DEF accountVars, Registered, SettingUp, At
<1>7. ASSUME NEW c \in Consoles, NEW e \in Emails, HandleSetup(c, e)
      PROVE  /\ Registered = {} /\ Registered' = Registered
             /\ SettingUp' = SettingUp \cup {c}
  <2> DEFINE x == [stage |-> "setup", user |-> e, project |-> None]
  <2>1. console' = [console EXCEPT ![c] = x] /\ Registered = {} /\ users' = users
    BY <1>7 DEF HandleSetup, Enter
  <2>2. x \in Handlings /\ x.stage = "setup"
    BY DEF Handlings
  <2>3. x # None
    BY <2>2, AccountsAssumption
  <2> HIDE DEF x
  <2> QED BY <1>1, <2>1, <2>2, <2>3 DEF SettingUp, At
<1>8. ASSUME NEW c \in Consoles, CreateFirstUser(c)
      PROVE  \E d \in SettingUp, e \in Emails \ Registered :
               Registered' = Registered \cup {e} /\ SettingUp' = SettingUp \ {d}
  <2> DEFINE u == console[c].user
  <2>1. c \in SettingUp /\ u \in Emails /\ users[u] = None
    BY <1>8, HandlingHasParts DEF CreateFirstUser, SettingUp, At
  <2>2. users' = [users EXCEPT ![u] = [admin |-> TRUE]] /\ [admin |-> TRUE] # None
    <3>1. [admin |-> TRUE] \in [admin : BOOLEAN]
      OBVIOUS
    <3> QED BY <1>8, <3>1, AccountsAssumption DEF CreateFirstUser
  <2>3. Registered' = Registered \cup {u} /\ u \notin Registered
    <3> HIDE DEF u
    <3> QED BY <2>1, <2>2 DEF Registered
  <2>4. SettingUp' = SettingUp \ {c}
    BY <1>3, <1>8 DEF CreateFirstUser
  <2> QED BY <2>1, <2>3, <2>4
<1>9. ASSUME NEW c \in Consoles, Handler(c), ~CreateFirstUser(c),
             \A e \in Emails : ~HandleSetup(c, e)
      PROVE  Registered' = Registered /\ SettingUp' = SettingUp \ {c}
  <2>1. users' = users
    BY <1>9 DEF Handler, Fail, HandleLogin, StartSession, Authenticate, HandleLogout,
                CreateProject, AddMember, CheckOwner, RotateKeys
  <2>2. \/ Return(c)
        \/ \E stage \in {"session", "logout", "create", "rotate", "member", "rotating"} :
             \E u, p : Enter(c, stage, u, p)
    BY <1>9 DEF Handler, Fail, HandleLogin, StartSession, Authenticate, HandleLogout,
                CreateProject, AddMember, CheckOwner, RotateKeys
  <2> QED BY <1>1, <1>3, <1>4, <2>1, <2>2
<1>10. ASSUME NEW c \in Consoles, Handler(c), ~CreateFirstUser(c),
              \A e \in Emails : ~HandleSetup(c, e)
       PROVE  \/ Registered' = Registered /\ SettingUp' = SettingUp
              \/ /\ Registered' = Registered
                 /\ \E d \in SettingUp : SettingUp' = SettingUp \ {d}
  BY <1>5, <1>9, <1>10
<1> QED BY <1>6, <1>7, <1>8, <1>10 DEF Next, Pass, vars

\* Once there is an account, set-up makes at most as many more as requests
\* had found none, and each that ends without one is gone for good.
THEOREM SetupEnds == Spec => SetupCloses
<1>1. Init => Finite
  <2> SUFFICES ASSUME Init PROVE Finite
    OBVIOUS
  <2>1. Registered = {} /\ SettingUp = {}
    BY DEF Init, AccountsInit, Registered, SettingUp, At
  <2> QED BY <2>1, FS_EmptySet DEF Finite
<1>2. TypeOK /\ Finite /\ [Next]_vars => Finite'
  <2> SUFFICES ASSUME TypeOK, Finite, [Next]_vars PROVE Finite'
    OBVIOUS
  <2> QED BY SetupMoves, FS_AddElement, FS_RemoveElement DEF Finite
<1>3. TypeOK /\ Finite /\ [Next]_vars =>
        [Registered # {} =>
           Cardinality(Registered') + Cardinality(SettingUp')
             <= Cardinality(Registered) + Cardinality(SettingUp)]_<<users, console>>
  <2> SUFFICES ASSUME TypeOK, Finite, [Next]_vars, Registered # {}
               PROVE  Cardinality(Registered') + Cardinality(SettingUp')
                        <= Cardinality(Registered) + Cardinality(SettingUp)
    OBVIOUS
  <2>1. Cardinality(Registered) \in Nat /\ Cardinality(SettingUp) \in Nat
    BY FS_CardinalityType DEF Finite
  <2>2. CASE Registered' = Registered /\ SettingUp' = SettingUp
    BY <2>1, <2>2
  <2>3. ASSUME NEW c \in SettingUp, SettingUp' = SettingUp \ {c}
        PROVE  Cardinality(SettingUp') = Cardinality(SettingUp) - 1
    BY <2>3, FS_RemoveElement DEF Finite
  <2>4. CASE /\ Registered' = Registered
             /\ \E c \in SettingUp : SettingUp' = SettingUp \ {c}
    <3>1. Cardinality(SettingUp') = Cardinality(SettingUp) - 1
      BY <2>3, <2>4
    <3>2. Cardinality(Registered') = Cardinality(Registered)
      BY <2>4
    <3> QED BY <2>1, <3>1, <3>2
  <2>5. ASSUME NEW c \in SettingUp, NEW e \in Emails \ Registered,
               Registered' = Registered \cup {e}, SettingUp' = SettingUp \ {c}
        PROVE  Cardinality(Registered') + Cardinality(SettingUp')
                 <= Cardinality(Registered) + Cardinality(SettingUp)
    <3>1. Cardinality(Registered') = Cardinality(Registered) + 1
      BY <2>5, FS_AddElement DEF Finite
    <3> QED BY <2>1, <2>3, <2>5, <3>1
  <2> QED BY <2>2, <2>4, <2>5, SetupMoves
<1> QED BY <1>1, <1>2, <1>3, AccessTypes, PTL DEF Spec, SetupCloses

==============================================================================
