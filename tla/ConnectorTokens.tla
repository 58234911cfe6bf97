-------------------------- MODULE ConnectorTokens --------------------------
(***************************************************************************)
(* How a connector run gets its access token: CloverTokenStore.get_session *)
(* and Square's VaultTokenStore.get_token, over one secret (the tokens of  *)
(* one tenant and source) that the runs share without a lock.              *)
(*                                                                         *)
(* A Clover refresh is destructive.  The token that was presented is spent *)
(* on return and becomes the one token /recovery accepts, and the pair     *)
(* that replaces it exists nowhere but in the caller until the vault has   *)
(* it.  A Square refresh hands the same refresh token back.                *)
(*                                                                         *)
(* Vendor endpoints and Secret Manager are external.  Refresh tokens are   *)
(* numbered as they are issued; 0 is no token.  Pruning destroys versions  *)
(* older than the two newest and reads take the newest, so the vault is    *)
(* its newest version.                                                     *)
(***************************************************************************)
EXTENDS Naturals

CONSTANTS
    Runs,       \* processes that execute a trigger
    MaxTokens,  \* bound on refresh tokens ever issued
    None

ASSUME ConnectorTokensAssumption == MaxTokens \in Nat \ {0}

Tokens == 1..MaxTokens
Vendors == {"clover", "square"}

\* A stored token set: the refresh token and the one it replaced.
TokenSet == [refresh_token : Tokens, previous_refresh_token : 0..MaxTokens]

VARIABLES
    vendor,       \* which connector serves the source
    issued,       \* vendor: refresh tokens issued so far
    live,         \* vendor: the token /refresh accepts, or 0
    recoverable,  \* vendor: the token /recovery accepts, or 0
    vault,        \* the newest secret version
    age,          \* of its access token, or of its refresh token when "expired"
    pc,           \* where each run is
    held          \* what it read from the vault, or got from the vendor

grantVars == <<issued, live, recoverable>>
tokenVars == <<vendor, grantVars, vault, age, held>>

ASSUME NoneAssumption == None \notin TokenSet

TokenSteps == {"auth", "refresh", "recover", "recover previous", "persist"}

TokenTypeOK ==
    /\ vendor \in Vendors
    /\ issued \in 0..MaxTokens
    /\ live \in 0..issued
    /\ recoverable \in 0..issued
    /\ vault \in TokenSet \cup {None}
    /\ age \in {"fresh", "due", "expired"}
    /\ held \in [Runs -> TokenSet \cup {None}]

TokenInit ==
    /\ vendor \in Vendors
    /\ issued = 0
    /\ live = 0
    /\ recoverable = 0
    /\ vault = None
    /\ age = "fresh"
    /\ held = [r \in Runs |-> None]

\* The store's locals go with its call.
Drop(r) == held' = [held EXCEPT ![r] = None]

Goto(r, step) == pc' = [pc EXCEPT ![r] = step]

Rotating == \E r \in Runs : pc[r] \in {"refresh", "recover", "recover previous", "persist"}

----------------------------------------------------------------------------
(* The vendor. *)

\* A new pair is issued; the token presented is what /recovery accepts from now on.
Issue(spent) ==
    /\ issued < MaxTokens
    /\ issued' = issued + 1
    /\ live' = issued + 1
    /\ recoverable' = spent

\* /oauth/v2/refresh on Clover, /oauth2/token on Square: the pair the caller is sent.
Grant(token, pair) ==
    /\ live = token
    /\ IF vendor = "clover"
       THEN /\ Issue(token)
            /\ pair = [refresh_token |-> issued + 1, previous_refresh_token |-> 0]
       ELSE /\ UNCHANGED grantVars
            /\ pair = [refresh_token |-> token, previous_refresh_token |-> 0]

\* /oauth/v2/recovery accepts the immediately preceding refresh token only.
Restore(token, pair) ==
    /\ token # 0
    /\ recoverable = token
    /\ Issue(token)
    /\ pair = [refresh_token |-> issued + 1, previous_refresh_token |-> 0]

Pairs == [refresh_token : Tokens, previous_refresh_token : {0}]

\* The seller revokes the app: nothing of the grant is accepted any more.
Revoke ==
    /\ live # 0
    /\ live' = 0
    /\ recoverable' = 0
    /\ UNCHANGED <<vendor, issued, vault, age, held, pc>>

----------------------------------------------------------------------------
(* The clock.  A rotation is a few HTTP calls of at most 30 s; an access    *)
(* token lives 30 minutes and the window of /recovery two weeks from when   *)
(* its token was rotated out, so neither ends while a pair is rotated.      *)

needs_refresh == age # "fresh"
refresh_token_expired == age = "expired"

AccessTokenFallsDue ==
    /\ vault # None
    /\ age = "fresh"
    /\ ~Rotating
    /\ age' = "due"
    /\ UNCHANGED <<vendor, grantVars, vault, held, pc>>

\* Two weeks since the last rotation.  The grant itself lives a year.
RecoveryLapses ==
    /\ recoverable # 0
    /\ ~Rotating
    /\ recoverable' = 0
    /\ UNCHANGED <<vendor, issued, live, vault, age, held, pc>>

\* A year without a run: both windows have passed and the vendor forgets the grant.
RefreshTokenExpires ==
    /\ vault # None
    /\ age = "due"
    /\ ~Rotating
    /\ age' = "expired"
    /\ live' = 0
    /\ recoverable' = 0
    /\ UNCHANGED <<vendor, issued, vault, held, pc>>

----------------------------------------------------------------------------
(* The secret. *)

vault_write(record) == vault' = record /\ age' = "fresh"

\* clover_oauth_complete and square_oauth_complete: exchange the code, store the pair
\* with no predecessor.  A failed exchange or write leaves the merchant unconnected.
\* The merchant connects when there is no working grant, and not during a rotation.
oauth_complete ==
    /\ live = 0
    /\ ~Rotating
    /\ Issue(0)
    /\ vault_write([refresh_token |-> issued + 1, previous_refresh_token |-> 0])
    /\ UNCHANGED <<vendor, held, pc>>

----------------------------------------------------------------------------
(* get_session / get_token.  kept says that a step inside the store leaves  *)
(* the run's own state alone ("probe" is where it has its token); fail is   *)
(* the run's step when the store raises, escape its step when the vault     *)
(* does.                                                                    *)

\* 1. and 2.: read the newest record; use it as it is unless its token is due.
get_session(r, kept, fail) ==
    /\ pc[r] = "auth"
    /\ \/ vault = None /\ fail /\ UNCHANGED held
       \/ vault # None /\ ~needs_refresh /\ Goto(r, "probe") /\ kept /\ UNCHANGED held
       \/ /\ vault # None
          /\ needs_refresh
          /\ IF vendor = "clover" /\ refresh_token_expired
             THEN fail /\ UNCHANGED held
             ELSE Goto(r, "refresh") /\ kept /\ held' = [held EXCEPT ![r] = vault]
    /\ UNCHANGED <<vendor, grantVars, vault, age>>

\* Mutant: the record is persisted without the stamp.
carrying_previous_NoStamp(pair, spent) == pair

\* carrying_previous: the record that lands names its own recovery credential.
\* Square's record has no such field.
carrying_previous(pair, spent) ==
    IF vendor = "clover" THEN [pair EXCEPT !.previous_refresh_token = spent] ELSE pair

\* 3.: the refresh.  It may be rejected; it may take effect without the caller
\* hearing of it (CloverOAuthTransientError), or not reach the vendor at all.
refresh(r, kept, fail) ==
    /\ pc[r] = "refresh"
    /\ LET token == held[r].refresh_token IN
       \/ \E pair \in Pairs :
            /\ Grant(token, pair)
            /\ \/ /\ held' = [held EXCEPT ![r] = carrying_previous(pair, token)]
                  /\ Goto(r, "persist") /\ kept
               \/ fail /\ Drop(r)
       \/ fail /\ Drop(r) /\ UNCHANGED grantVars
       \/ /\ live # token
          /\ IF vendor = "clover" THEN Goto(r, "recover") /\ kept /\ UNCHANGED held ELSE fail /\ Drop(r)
          /\ UNCHANGED grantVars
    /\ UNCHANGED <<vendor, vault, age>>

\* _recover: the token just rejected first, then the record's previous one.
Candidate(r) ==
    IF pc[r] = "recover" THEN held[r].refresh_token ELSE held[r].previous_refresh_token

_recover(r, kept, fail) ==
    /\ pc[r] \in {"recover", "recover previous"}
    /\ LET token == Candidate(r) IN
       \/ \E pair \in Pairs :
            /\ Restore(token, pair)
            /\ \/ /\ held' = [held EXCEPT ![r] = carrying_previous(pair, token)]
                  /\ Goto(r, "persist") /\ kept
               \/ fail /\ Drop(r)
       \/ fail /\ Drop(r) /\ UNCHANGED grantVars
       \/ /\ token = 0 \/ recoverable # token
          /\ IF pc[r] = "recover" /\ held[r].previous_refresh_token # 0
             THEN Goto(r, "recover previous") /\ kept /\ UNCHANGED held
             ELSE fail /\ Drop(r)
          /\ UNCHANGED grantVars
    /\ UNCHANGED <<vendor, vault, age>>

\* 4. and 5.: the record is stored before its token is used.  A write that raises may
\* have landed.
_persist_then_return(r, kept, escape) ==
    /\ pc[r] = "persist"
    /\ \/ vault_write(held[r]) /\ Goto(r, "probe") /\ kept
       \/ vault_write(held[r]) /\ escape
       \/ escape /\ UNCHANGED <<vault, age>>
    /\ Drop(r)
    /\ UNCHANGED <<vendor, grantVars>>

----------------------------------------------------------------------------

\* Until the two weeks of /recovery are over, the newest record leads back to a grant
\* that the vendor still honours: its refresh token is live, or it or its predecessor is
\* the one /recovery accepts.  So it is after a crash, a lost response or a lost write,
\* and when two runs rotate at the same time, which token_store.py leaves to a future
\* lock: of their two chains one is dead, it may be the stored one, and /recovery is
\* then the only way back.  After the two weeks such a merchant has to consent again.
ChainIsRecoverable ==
    (vault # None /\ live # 0) =>
        \/ vault.refresh_token = live
        \/ recoverable \in {0, vault.refresh_token, vault.previous_refresh_token}

============================================================================
