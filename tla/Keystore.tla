------------------------------ MODULE Keystore -------------------------------
(***************************************************************************)
(* API keys at the server: the projects table that holds them, the cache   *)
(* that Keystore.Lookup keeps in front of it, the middleware that asks for *)
(* a key type, and the token bucket that limits ingestion per key.         *)
(*                                                                         *)
(* A lookup is several steps, with the lock released between them: look in *)
(* the cache, ask the table for a write key, ask it for a secret key, keep *)
(* the answer.  Keys may be rotated between any two of them, and rotation  *)
(* does not touch the cache.                                               *)
(*                                                                         *)
(* One instant is the time in which a bucket gains one unit, and a token   *)
(* is TokenCost units.  Prefix[k] stands for the first characters of a key *)
(* and equality of keys for equality of their hashes.                      *)
(***************************************************************************)
EXTENDS Integers, Sequences

CONSTANTS
  Projects,
  WriteKeys, SecretKeys,   \* the keys uuid.New can make for each purpose
  Strays,                  \* keys that were never made
  Prefix,                  \* the prefix each key is found by
  Requests,                \* the requests that can be in flight together
  CacheTTL,
  QueryLimit,              \* bound on the time from the database's answer to
                           \* the store of that answer in the cache
  Burst, TokenCost,
  MaxAsks,                 \* bound on the requests made
  None

Keys == WriteKeys \cup SecretKeys \cup Strays

Endpoints == {"ingest", "query"}
Types == {"write", "secret"}
Searching == {"cache", "write", "secret", "store"}
Answered == {"served", "refused", "forbidden", "limited"}

Full == Burst * TokenCost

Rows == [write : WriteKeys, secret : SecretKeys]
Infos == [project : Projects, type : Types]
Entries == [info : Infos, expiresAt : Nat]
\* A request that has found its key carries what it was found to be.
Unfound == {"cache", "write", "secret", "refused"}
Found == {"store", "granted", "served", "forbidden", "limited"}
Lookups ==
  [stage : Unfound, key : Keys, endpoint : Endpoints, info : {None},
   readAt : Nat, excused : BOOLEAN]
  \cup [stage : Found, key : Keys, endpoint : Endpoints, info : Infos,
        readAt : Nat, excused : BOOLEAN]
Buckets == [tokens : 0 .. Full, lastTime : Nat]

\* The keys of the two purposes have prefixes of their own, and a key made by
\* uuid.New is no other key.
ASSUME KeysAssumption ==
  /\ WriteKeys \cap SecretKeys = {}
  /\ Strays \cap (WriteKeys \cup SecretKeys) = {}

\* None is none of the values it stands in for.
ASSUME NoneAssumption ==
  /\ None \notin Keys /\ None \notin Projects /\ None \notin Nat
  /\ None \notin Rows /\ None \notin Infos /\ None \notin Entries
  /\ None \notin Lookups /\ None \notin Buckets

\* The times and the limits are configured positive.
ASSUME TimesAssumption ==
  /\ CacheTTL \in Nat \ {0}
  /\ QueryLimit \in Nat
  /\ Burst \in Nat \ {0}
  /\ TokenCost \in Nat \ {0}
  /\ MaxAsks \in Nat

VARIABLES
  now,
  projects,    \* the table: each project's write and secret key, or None
  cache,       \* Keystore.cache: per key what it was found to be, until when
  lookup,      \* per request: its key, its endpoint and how far it has come;
               \* history: whether a refusal of it would have a reason
  bucket,      \* TokenBucket.buckets
  asked,       \* the number of requests made, for the bound
  issued, retiredAt, admitted   \* history: what each key was issued for, when
                                \* it was rotated away, and when requests that
                                \* carried it passed the limiter

keyVars == <<now, projects, cache, lookup, bucket, asked,
             issued, retiredAt, admitted>>

KeysTypeOK ==
  /\ now \in Nat
  /\ projects \in [Projects -> Rows \cup {None}]
  /\ cache \in [Keys -> Entries \cup {None}]
  /\ lookup \in [Requests -> Lookups \cup {None}]
  /\ bucket \in [Keys -> Buckets \cup {None}]
  /\ asked \in 0 .. MaxAsks
  /\ issued \in [Keys -> Infos \cup {None}]
  /\ retiredAt \in [Keys -> Nat \cup {None}]
  /\ admitted \in [Keys -> Seq(Nat)]

KeysInit ==
  /\ now = 0
  /\ projects = [p \in Projects |-> None]
  /\ cache = [k \in Keys |-> None]
  /\ lookup = [r \in Requests |-> None]
  /\ bucket = [k \in Keys |-> None]
  /\ asked = 0
  /\ issued = [k \in Keys |-> None]
  /\ retiredAt = [k \in Keys |-> None]
  /\ admitted = [k \in Keys |-> <<>>]

------------------------------------------------------------------------------
(* The projects table. *)

Live(k) == issued[k] # None /\ retiredAt[k] = None

\* Create and RotateKeys alike write the pair of keys of one row.
WriteRow(p, w, s) ==
  /\ issued[w] = None
  /\ issued[s] = None
  /\ projects' = [projects EXCEPT ![p] = [write |-> w, secret |-> s]]
  /\ issued' = [issued EXCEPT ![w] = [project |-> p, type |-> "write"],
                              ![s] = [project |-> p, type |-> "secret"]]
  /\ retiredAt' = [k \in Keys |->
       IF projects[p] # None /\ k \in {projects[p].write, projects[p].secret}
       THEN now ELSE retiredAt[k]]
  /\ UNCHANGED <<now, cache, lookup, bucket, asked, admitted>>

\* The rows a prefix finds, and of those the ones whose hash is the key's.
ByPrefix(type, k) == {p \in Projects :
  projects[p] # None /\ Prefix[projects[p][type]] = Prefix[k]}

Verified(type, k) == {p \in ByPrefix(type, k) : projects[p][type] = k}

------------------------------------------------------------------------------
(* Keystore.Lookup and the middleware around it. *)

InStage(r, stage) == lookup[r] # None /\ lookup[r].stage = stage

Become(r, stage) == lookup' = [lookup EXCEPT ![r] = [@ EXCEPT !.stage = stage]]

\* A request carries a key that was handed out, or one that never existed.
Ask(r, k, e) ==
  /\ issued[k] # None \/ k \in Strays
  /\ asked < MaxAsks
  /\ lookup[r] # None => lookup[r].stage \in Answered
  /\ lookup' = [lookup EXCEPT ![r] =
       [stage |-> "cache", key |-> k, endpoint |-> e, info |-> None,
        readAt |-> 0, excused |-> ~Live(k)]]
  /\ asked' = asked + 1
  /\ UNCHANGED <<now, projects, cache, bucket, issued, retiredAt, admitted>>

EverCached(k) == cache[k] # None

Cached(k) == cache[k] # None /\ now < cache[k].expiresAt

CheckCache(r) ==
  /\ InStage(r, "cache")
  /\ IF Cached(lookup[r].key)
     THEN lookup' = [lookup EXCEPT ![r] =
            [@ EXCEPT !.stage = "granted", !.info = cache[lookup[r].key].info,
                      !.excused = FALSE]]
     ELSE Become(r, "write")
  /\ UNCHANGED <<now, projects, cache, bucket, asked, issued, retiredAt, admitted>>

\* FindByWriteKeyPrefix or FindBySecretKeyPrefix.  An error is not told from
\* finding nothing: the search goes on to the stage after.
Find(r, type, after) ==
  /\ InStage(r, type)
  /\ \/ lookup' = [lookup EXCEPT ![r] =
          [@ EXCEPT !.stage = after, !.excused = TRUE]]
     \/ \E p \in Verified(type, lookup[r].key) :
          lookup' = [lookup EXCEPT ![r] =
            [@ EXCEPT !.stage = "store", !.readAt = now, !.excused = FALSE,
                      !.info = [project |-> p, type |-> type]]]
     \/ Verified(type, lookup[r].key) = {} /\ Become(r, after)
  /\ UNCHANGED <<now, projects, cache, bucket, asked, issued, retiredAt, admitted>>

NoSearch == "refused"
NextSearch == "secret"

FindByWriteKey(r) == Find(r, "write", NextSearch)
FindBySecretKey(r) == Find(r, "secret", "refused")

Store(r) ==
  /\ InStage(r, "store")
  /\ cache' = [cache EXCEPT ![lookup[r].key] =
       [info |-> lookup[r].info, expiresAt |-> now + CacheTTL]]
  /\ lookup' = [lookup EXCEPT ![r] = [@ EXCEPT !.stage = "granted", !.readAt = 0]]
  /\ UNCHANGED <<now, projects, bucket, asked, issued, retiredAt, admitted>>

\* RequireKeyType: each group of routes takes one type of key.
Required(endpoint) == IF endpoint = "ingest" THEN "write" ELSE "secret"

Forbid(r) ==
  /\ InStage(r, "granted")
  /\ lookup[r].info.type # Required(lookup[r].endpoint)
  /\ Become(r, "forbidden")
  /\ UNCHANGED <<now, projects, cache, bucket, asked, issued, retiredAt, admitted>>

ServeQuery(r) ==
  /\ InStage(r, "granted")
  /\ lookup[r].endpoint = "query"
  /\ lookup[r].info.type = Required("query")
  /\ Become(r, "served")
  /\ UNCHANGED <<now, projects, cache, bucket, asked, issued, retiredAt, admitted>>

------------------------------------------------------------------------------
(* TokenBucket.Allow. *)

Least(a, b) == IF a < b THEN a ELSE b

\* A bucket nobody has used is full; one in use has gained a unit an instant.
Filled(k) ==
  IF bucket[k] = None THEN Full
  ELSE Least(Full, bucket[k].tokens + (now - bucket[k].lastTime))

\* A refused call keeps what the bucket has gained, and spends nothing.
Limit(r, k) ==
  /\ Filled(k) < TokenCost
  /\ bucket' = [bucket EXCEPT ![k] = [tokens |-> Filled(k), lastTime |-> now]]
  /\ Become(r, "limited")
  /\ UNCHANGED admitted

AdmitUnchecked(r, k) ==
  /\ bucket' = [bucket EXCEPT ![k] =
       [tokens |-> Filled(k) - TokenCost, lastTime |-> now]]
  /\ admitted' = [admitted EXCEPT ![k] = Append(@, now)]
  /\ Become(r, "served")

AdmitFirstFree(r, k) ==
  /\ Filled(k) >= TokenCost
  /\ bucket' = [bucket EXCEPT ![k] =
       [tokens |-> Filled(k) - (IF @ = None THEN 0 ELSE TokenCost), lastTime |-> now]]
  /\ admitted' = [admitted EXCEPT ![k] = Append(@, now)]
  /\ Become(r, "served")

Admit(r, k) ==
  /\ Filled(k) >= TokenCost
  /\ bucket' = [bucket EXCEPT ![k] =
       [tokens |-> Filled(k) - TokenCost, lastTime |-> now]]
  /\ admitted' = [admitted EXCEPT ![k] = Append(@, now)]
  /\ Become(r, "served")

Ingest(r) ==
  /\ InStage(r, "granted")
  /\ lookup[r].endpoint = "ingest"
  /\ lookup[r].info.type = Required("ingest")
  /\ Limit(r, lookup[r].key) \/ Admit(r, lookup[r].key)
  /\ UNCHANGED <<now, projects, cache, asked, issued, retiredAt>>

------------------------------------------------------------------------------

\* Time passes while requests wait for the database, but from the answer of
\* a query to the store of it no more than QueryLimit instants do.
Tick ==
  /\ \A r \in Requests : InStage(r, "store") => now < lookup[r].readAt + QueryLimit
  /\ now' = now + 1
  /\ UNCHANGED <<projects, cache, lookup, bucket, asked, issued, retiredAt, admitted>>

Request(r) ==
  \/ \E k \in Keys, e \in Endpoints : Ask(r, k, e)
  \/ CheckCache(r) \/ FindByWriteKey(r) \/ FindBySecretKey(r) \/ Store(r)
  \/ Forbid(r) \/ ServeQuery(r) \/ Ingest(r)

------------------------------------------------------------------------------

\* A request whose key stood when it arrived is turned away as an invalid key
\* only when a query failed or the key was rotated while it was looked up:
\* neither an expired entry, a shared prefix nor the order of the two
\* searches may lose a key that stands (keystore.go, Lookup).
RefusedForCause == \A r \in Requests :
  InStage(r, "refused") /\ ~lookup[r].excused => retiredAt[lookup[r].key] # None

\* Whatever stretch of time one looks at, the requests one key had admitted
\* in it cost no more than a full bucket and what the bucket gained meanwhile
\* (limiter.go, Allow).
AdmissionsBounded == \A k \in Keys :
  \A i, j \in DOMAIN admitted[k] :
    i <= j => (j - i + 1) * TokenCost <= Full + (admitted[k][j] - admitted[k][i])
==============================================================================
