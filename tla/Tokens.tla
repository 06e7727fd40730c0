------------------------------- MODULE Tokens -------------------------------
(***************************************************************************)
(* The check of one token that every authenticated request begins with,    *)
(* by ValidateToken of auth-service or by JWTMiddleware of the legacy      *)
(* server: a Redis entry says that it is good; without one the token is    *)
(* parsed and, if good, the entry made.  The legacy server makes no entry  *)
(* that outlives the token.  Time is counted in ticks.                     *)
(***************************************************************************)
EXTENDS Integers

CONSTANTS
  Validations,   \* calls in flight at once
  Lifetime,      \* the 72 hours of jwt.Issue
  TokenCacheTTL, \* tokenCacheTTL, five minutes
  MaxLag         \* bound on the time from jwt.Parse to the SET

ASSUME TimesAssumption ==
  Lifetime \in Nat \ {0} /\ TokenCacheTTL \in Nat /\ MaxLag \in Nat

VARIABLES
  server,    \* which of the two it is: "auth" or "legacy"
  age,       \* ticks since the token was issued
  entry,     \* ticks the entry still lives, 0 when there is none
  check,     \* validation -> what it is at
  ttl,       \* of the entry it will make
  lag,       \* ticks since it parsed the token
  honoured   \* history: the greatest age at which the token was found good

tkvars == <<server, age, entry, check, ttl, lag, honoured>>

-----------------------------------------------------------------------------
TkInit ==
  /\ server \in {"auth", "legacy"}
  /\ age = 0 /\ entry = 0 /\ honoured = 0
  /\ check = [v \in Validations |-> "idle"]
  /\ ttl = [v \in Validations |-> 0] /\ lag = [v \in Validations |-> 0]

\* The request goes on with the user of the token.
Honour == honoured' = IF age > honoured THEN age ELSE honoured

\* Mutation of Hit: an entry that is used lives on.
HitAndRenew(v) ==
  /\ check[v] = "idle" /\ entry > 0
  /\ Honour /\ entry' = TokenCacheTTL
  /\ UNCHANGED <<server, age, check, ttl, lag>>

\* The entry is found: nobody looks at the token.
Hit(v) ==
  /\ check[v] = "idle" /\ entry > 0
  /\ Honour
  /\ UNCHANGED <<server, age, entry, check, ttl, lag>>

\* There is no entry, or Redis fails.
Miss(v) ==
  /\ check[v] = "idle"
  /\ check' = [check EXCEPT ![v] = "parse"]
  /\ UNCHANGED <<server, age, entry, ttl, lag, honoured>>

\* The lifetime of an entry: the legacy server takes what is left of the
\* token's, if that is less.
EntryTTL ==
  IF server = "legacy" /\ Lifetime - age < TokenCacheTTL THEN Lifetime - age ELSE TokenCacheTTL

\* The parser accepts a token within its lifetime only.
Parse(v) ==
  /\ check[v] = "parse"
  /\ check' = [check EXCEPT ![v] = IF age < Lifetime THEN "keep" ELSE "idle"]
  /\ ttl' = [ttl EXCEPT ![v] = EntryTTL]
  /\ lag' = [lag EXCEPT ![v] = 0]
  /\ UNCHANGED <<server, age, entry, honoured>>

\* SET with its TTL, whose error nobody looks at; then the request goes on.
Keep(v) ==
  /\ check[v] = "keep"
  /\ check' = [check EXCEPT ![v] = "idle"]
  /\ entry' \in {entry, ttl[v]}
  /\ Honour
  /\ UNCHANGED <<server, age, ttl, lag>>

\* A call is not delayed for longer than MaxLag; the ages that differ end when
\* no entry can be left.
Pass ==
  /\ age < Lifetime + TokenCacheTTL + MaxLag + 1
  /\ \A v \in Validations : check[v] = "keep" => lag[v] < MaxLag
  /\ age' = age + 1
  /\ entry' = IF entry > 0 THEN entry - 1 ELSE 0
  /\ lag' = [v \in Validations |-> IF check[v] = "keep" THEN lag[v] + 1 ELSE 0]
  /\ UNCHANGED <<server, check, ttl, honoured>>

Check(v) == Hit(v) \/ Miss(v) \/ Parse(v) \/ Keep(v)
ValidateToken(v) == server = "auth" /\ Check(v)
JWTMiddleware(v) == server = "legacy" /\ Check(v)

TkNext ==
  \/ \E v \in Validations : ValidateToken(v) \/ JWTMiddleware(v)
  \/ Pass

TkSpec == TkInit /\ [][TkNext]_tkvars

-----------------------------------------------------------------------------
\* A token is good for at most tokenCacheTTL beyond its lifetime, in the
\* legacy server not even that, and the time a call takes: no sequence of
\* validations keeps its entry alive.
HonouredWithinTTL ==
  honoured < Lifetime + MaxLag + (IF server = "auth" THEN TokenCacheTTL ELSE 0)
=============================================================================
