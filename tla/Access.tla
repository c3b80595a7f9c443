------------------------------- MODULE Access -------------------------------
(***************************************************************************)
(* Logins and tokens.  A login passes a rate limiter that counts attempts  *)
(* per client and minute, and yields a signed token whose row is kept in   *)
(* the database; a request is accepted when the signature is that of the   *)
(* backend's secret, and the row is neither revoked nor expired.  Without  *)
(* a configured secret every start of the backend makes up a new one.  The *)
(* bridge is a client that logs in when it has no token and drops its      *)
(* token when a request fails, whatever the reason.                        *)
(***************************************************************************)
EXTENDS Naturals, FiniteSets

CONSTANTS
  Token,        \* the tokens that may be issued
  NoToken,
  Limit,        \* rate_limit_per_minute
  Configured,   \* BOOLEAN: auth.secret is configured
  MaxIncidents  \* bound: restarts of the backend, and network failures

ASSUME AccessAssumption ==
  /\ NoToken \notin Token /\ IsFiniteSet(Token) /\ Cardinality(Token) >= 2
  /\ Limit \in Nat \ {0}
  /\ Configured \in BOOLEAN /\ MaxIncidents \in Nat

Client == {"bridge", "operator"}

VARIABLES
  api_tokens,  \* the table: the state of each token, and the secret it is signed with
  secret,      \* how many secrets the backend has had
  hits,        \* attempts of each client to log in within the minute
  held,        \* the token each client holds
  ingested,    \* the last request of the bridge was accepted
  incidents    \* restarts and failures so far

accessVars == <<api_tokens, secret, hits, held, ingested, incidents>>

Nothing == [c \in Client |-> 0]

(* issue_token.  The bound on tokens is met by using again one that is in  *)
(* nobody's hands, for it is never presented again.  A token is "new" until*)
(* it has been accepted once: its time to live spans many requests.        *)
Spare == {k \in Token : \A c \in Client : held[c] # k}

IssueToken(c) ==
  LET k == CHOOSE k \in Spare : TRUE
  IN /\ api_tokens' = [api_tokens EXCEPT ![k] = [state |-> "new", secret |-> secret]]
     /\ held' = [held EXCEPT ![c] = k]

(* POST /api/auth/login.  check_rate_limit counts the attempt and says     *)
(* whether it is allowed; beyond the limit the count no longer matters.    *)
Login(c) ==
  /\ held[c] = NoToken
  /\ hits' = [hits EXCEPT ![c] = IF @ > Limit THEN @ ELSE @ + 1]
  /\ IF hits'[c] <= Limit THEN IssueToken(c) ELSE UNCHANGED <<api_tokens, held>>
  /\ UNCHANGED <<secret, ingested, incidents>>

(* The attempts of the last minute are forgotten (counts.clear).           *)
NextMinute ==
  /\ hits # Nothing
  /\ hits' = Nothing
  /\ UNCHANGED <<api_tokens, secret, held, ingested, incidents>>

(* verify_token: the signature, then the row.                              *)
Verified(k) == api_tokens[k].secret = secret /\ api_tokens[k].state \in {"new", "valid"}

(* Mutant: a client that is turned away keeps its token.                   *)
AskKeeps(c) ==
  /\ held[c] # NoToken
  /\ api_tokens' = IF Verified(held[c]) THEN [api_tokens EXCEPT ![held[c]].state = "valid"]
                   ELSE api_tokens
  /\ ingested' = IF c = "bridge" THEN Verified(held[c]) ELSE ingested
  /\ UNCHANGED <<held, secret, hits, incidents>>

(* get_current_user of a request of c; a client that is turned away drops  *)
(* its token (_post).                                                      *)
Ask(c) ==
  /\ held[c] # NoToken
  /\ IF Verified(held[c])
     THEN api_tokens' = [api_tokens EXCEPT ![held[c]].state = "valid"] /\ UNCHANGED held
     ELSE held' = [held EXCEPT ![c] = NoToken] /\ UNCHANGED api_tokens
  /\ ingested' = IF c = "bridge" THEN Verified(held[c]) ELSE ingested
  /\ UNCHANGED <<secret, hits, incidents>>

(* The request or its answer is lost.                                      *)
Fail(c) ==
  /\ held[c] # NoToken
  /\ incidents < MaxIncidents /\ incidents' = incidents + 1
  /\ held' = [held EXCEPT ![c] = NoToken]
  /\ ingested' = (ingested /\ c # "bridge")
  /\ UNCHANGED <<api_tokens, secret, hits>>

(* POST /api/auth/logout.                                                  *)
Logout ==
  /\ held["operator"] # NoToken /\ Verified(held["operator"])
  /\ api_tokens' = [api_tokens EXCEPT ![held["operator"]].state = "revoked"]
  /\ held' = [held EXCEPT !["operator"] = NoToken]
  /\ UNCHANGED <<secret, hits, ingested, incidents>>

Expire(k) ==
  /\ api_tokens[k].state = "valid"
  /\ api_tokens' = [api_tokens EXCEPT ![k].state = "expired"]
  /\ UNCHANGED <<secret, hits, held, ingested, incidents>>

(* The counters are in memory, the tokens in the database; without a       *)
(* configured secret the backend makes up a new one.                       *)
RestartBackend ==
  /\ incidents < MaxIncidents /\ incidents' = incidents + 1
  /\ secret' = IF Configured THEN secret ELSE secret + 1
  /\ hits' = Nothing
  /\ UNCHANGED <<api_tokens, held, ingested>>

AccessInit ==
  /\ api_tokens = [k \in Token |-> [state |-> "unissued", secret |-> 0]]
  /\ secret = 1
  /\ hits = Nothing
  /\ held = [c \in Client |-> NoToken]
  /\ ingested = FALSE
  /\ incidents = 0

AccessNext ==
  \/ \E c \in Client : Login(c) \/ Ask(c) \/ Fail(c)
  \/ NextMinute \/ Logout \/ RestartBackend
  \/ \E k \in Token : Expire(k)

-----------------------------------------------------------------------------
(* The bridge always comes to report again: after its token has expired,   *)
(* after a restart that has changed the secret under it, and when the      *)
(* attempts that follow run into the rate limiter.                         *)
BridgeReportsAgain == []<>ingested
=============================================================================
