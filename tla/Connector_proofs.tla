--------------------------- MODULE Connector_proofs ---------------------------
(***************************************************************************)
(* Proofs about Connector and the token stores of ConnectorTokens, for     *)
(* every number of overlapping runs, tokens, run keys, contents and rows.  *)
(***************************************************************************)
EXTENDS Connector, TLAPS

-----------------------------------------------------------------------------
(***************************************************************************)
(* The token chain.  Runs that rotate at the same time all read the same   *)
(* record, and the vendor's /recovery token, once the first of them has    *)
(* been granted a pair, is a token of that record for as long as the       *)
(* rotation lasts.                                                         *)
(***************************************************************************)

Reads(r) == pc[r] \in {"refresh", "recover", "recover previous"}
Rotates(r) == Reads(r) \/ pc[r] = "persist"

\* The newest record, and the ones that runs have read or are about to store.
Records == {x \in {vault} \cup {held[r] : r \in Runs} : x # None}

Names(x, token) == token \in {0, x.refresh_token, x.previous_refresh_token}
Leads(x) == x.refresh_token = live \/ Names(x, recoverable)

HeldInv ==
    /\ \A r \in Runs : held[r] # None <=> Rotates(r)
    /\ \A r \in Runs : Rotates(r) => vault # None
    /\ \A r \in Runs : pc[r] \in {"recover", "recover previous"} => vendor = "clover"
    /\ \A r \in Runs : Reads(r) /\ age # "fresh" => held[r] = vault
    /\ \A x \in Records : x.refresh_token <= issued /\ x.previous_refresh_token <= issued
    /\ live = 0 => recoverable = 0

\* Square hands out one refresh token, which every record holds.
SquareInv ==
    vendor = "square" => \A x \in Records :
        x.previous_refresh_token = 0 /\ (live # 0 => x.refresh_token = live)

\* A run that has read the live token is followed by no other record; once the token it
\* has read is spent, every record names the one /recovery accepts, if any.
ChainInv ==
    live # 0 =>
        /\ \A x \in Records : Leads(x)
        /\ \A r \in Runs : Reads(r) =>
             IF held[r].refresh_token = live THEN \A x \in Records : x = held[r]
             ELSE \A x \in Records : Names(x, recoverable)
        /\ \A r \in Runs : pc[r] \in {"recover", "recover previous"} => held[r].refresh_token # live
        /\ \A r \in Runs : vendor = "clover" /\ age # "fresh" /\ pc[r] = "persist" =>
             vault.refresh_token # live /\ \A x \in Records : Names(x, recoverable)

-----------------------------------------------------------------------------
(***************************************************************************)
(* The rows.                                                               *)
(***************************************************************************)

\* A payload that is uploaded, on record and announced.
Announced(i, c) ==
    /\ i \in Ids /\ bronze[i] # None /\ bronze[i].key = c.key /\ bronze[i].sha = c.content
    /\ bronze[i].status = "RECEIVED" /\ objects[i] = c.content

Settled(c) ==
    \E i \in Ids :
        \/ Announced(i, c) /\ i \in ready
        \/ /\ bronze[i] # None /\ bronze[i].key = c.key /\ bronze[i].sha = c.content
           /\ bronze[i].status = "FAILED" /\ c.outcome = "duplicate_noop"

Good == {"ingested", "duplicate_noop", "duplicate_resumed"}

Inserts == {"insert", "fail insert"}
Announces == {"publish", "mark"}

\* What a run knows at a step of the pipeline.
RunOk(step, c) ==
    /\ step # "idle" => c.key \in RunKeys
    /\ step \in {"lookup", "preflight", "upload", "fail upload"} \cup Inserts \cup Announces
         => c.content \in Contents
    /\ step \in Inserts => c.row \in Ids /\ bronze[c.row] = None /\ objects[c.row] = c.content
    /\ step \in Announces => Announced(c.row, c) /\ c.outcome \in {"ingested", "duplicate_resumed"}
    /\ step = "mark" => c.row \in ready
    /\ step \in {"idle", "report"} /\ c.outcome \in Good => Settled(c)
    /\ step \notin {"idle", "report"} \cup Announces => c.outcome = None

\* Two runs never insert the same row.
Apart == \A r, s \in Runs : r # s /\ pc[r] \in Inserts /\ pc[s] \in Inserts => ctx[r].row # ctx[s].row

RowsOk == \A i \in Ids : bronze[i] # None =>
    objects[i] = bronze[i].sha /\ (bronze[i].published => i \in ready)

RunInv == (\A r \in Runs : RunOk(pc[r], ctx[r])) /\ Apart /\ RowsOk

\* A run's locals remember whether it was ever answered 429.
LimitOk(step, c, seen) ==
    /\ seen <=> c.throttled \/ c.reason = "RATE_LIMITED"
    /\ step \in TokenSteps => ~seen
    /\ step # "report" => c.reason = None
    /\ c.outcome = "ingested" => c.reason = None

LimitInv == \A r \in Runs : LimitOk(pc[r], ctx[r], r \in limited)

IInv == TypeOK /\ HeldInv /\ SquareInv /\ ChainInv /\ RunInv /\ LimitInv

-----------------------------------------------------------------------------
(* Types. *)

LEMMA NoneIsNone ==
    /\ None \notin TokenSet /\ None \notin RunKeys /\ None \notin Contents /\ None \notin Ids
    /\ None \notin BronzeRow /\ None \notin Disposition /\ None \notin Reason
    /\ None \notin {"throttled", "exhausted"}
BY NoneAssumption, ConnectorNoneAssumption

LEMMA Bounds == MaxTokens \in Nat /\ MaxTokens # 0 /\ MaxTriggers \in Nat /\ MaxRows \in Nat /\ MaxAttempts \in Nat /\ MaxAttempts # 0
BY ConnectorTokensAssumption, ConnectorAssumption

LEMMA NoContextType == NoContext \in Context
BY Bounds DEF NoContext, Context

\* What the steps of a run do to its own locals.
LEMMA ContextTypes ==
    ASSUME TypeOK, NEW r \in Runs
    PROVE  /\ \A o \in Disposition, x \in Reason \cup {None} : Conclude(r, o, x) =>
                ctx' \in [Runs -> Context] /\ pc' \in [Runs -> Steps]
           /\ Escape(r) => ctx' \in [Runs -> Context] /\ pc' \in [Runs -> Steps]
           /\ AuthFails(r) => ctx' \in [Runs -> Context] /\ pc' \in [Runs -> Steps]
           /\ \A s \in Steps : Goto(r, s) => pc' \in [Runs -> Steps]
           /\ \A k \in RunKeys : [NoContext EXCEPT !.key = k] \in Context
<1>1. ctx[r] \in Context /\ ctx \in [Runs -> Context] /\ pc \in [Runs -> Steps]
  BY DEF TypeOK
<1>2. ASSUME NEW o \in Disposition, NEW x \in Reason \cup {None}, Conclude(r, o, x)
      PROVE  ctx' \in [Runs -> Context] /\ pc' \in [Runs -> Steps]
  <2>1. [ctx[r] EXCEPT !.outcome = o, !.reason = x] \in Context
    BY <1>1 DEF Context
  <2>2. ctx' = [ctx EXCEPT ![r] = [ctx[r] EXCEPT !.outcome = o, !.reason = x]]
    BY <1>1, <1>2 DEF Conclude
  <2>3. pc' = [pc EXCEPT ![r] = "report"]
    BY <1>2 DEF Conclude, Goto
  <2>4. QED BY <1>1, <2>1, <2>2, <2>3 DEF Steps
<1>3. ASSUME Escape(r) PROVE ctx' \in [Runs -> Context] /\ pc' \in [Runs -> Steps]
  BY <1>1, <1>3, NoContextType DEF Escape, Goto, Steps
<1>4. ASSUME AuthFails(r) PROVE ctx' \in [Runs -> Context] /\ pc' \in [Runs -> Steps]
  <2>1. CASE vendor = "clover"
    BY <2>1, <1>3, <1>4 DEF AuthFails
  <2>2. CASE vendor # "clover"
    <3>1. PICK x \in {"AUTH_FAILED", "VENDOR_UNAVAILABLE"} : Conclude(r, "auth_failed", x)
      BY <2>2, <1>4 DEF AuthFails
    <3>2. "auth_failed" \in Disposition /\ x \in Reason
      BY <3>1 DEF Disposition, Reason
    <3>3. QED BY <3>1, <3>2, <1>2
  <2>3. QED BY <2>1, <2>2
<1>5. \A s \in Steps : Goto(r, s) => pc' \in [Runs -> Steps]
  BY <1>1 DEF Goto
<1>6. \A k \in RunKeys : [NoContext EXCEPT !.key = k] \in Context
  BY NoContextType DEF NoContext, Context
<1>7. QED BY <1>2, <1>3, <1>4, <1>5, <1>6

LEMMA PairsAreTokenSets == Pairs \subseteq TokenSet
BY Bounds DEF Pairs, TokenSet

LEMMA CarryType ==
    ASSUME NEW pair \in TokenSet, NEW t \in 0..MaxTokens
    PROVE  carrying_previous(pair, t) \in TokenSet
BY DEF carrying_previous, TokenSet

-----------------------------------------------------------------------------
(* The token chain. *)

TokenInv == HeldInv /\ SquareInv /\ ChainInv

LEMMA FailsLeave ==
    ASSUME TypeOK, NEW r \in Runs
    PROVE  /\ AuthFails(r) \/ Escape(r) =>
                 pc'[r] \in {"idle", "report"} /\ \A s \in Runs : s # r => pc'[s] = pc[s]
           /\ \A x \in Steps : Goto(r, x) => pc'[r] = x /\ \A s \in Runs : s # r => pc'[s] = pc[s]
BY DEF TypeOK, AuthFails, Escape, Conclude, Goto

\* A step that takes a record away, or leaves all of them as they are.
LEMMA DropKeepsChain ==
    ASSUME TypeOK, TokenInv, NEW r \in Runs, UNCHANGED <<vendor, issued, live, recoverable, vault, age>>,
           held' = [held EXCEPT ![r] = None],
           pc'[r] \notin {"refresh", "recover", "recover previous", "persist"},
           \A s \in Runs : s # r => pc'[s] = pc[s]
    PROVE  TokenInv'
<1>1. held'[r] = None /\ \A s \in Runs : s # r => held'[s] = held[s]
  BY DEF TypeOK, TokenTypeOK
<1>2. Records' \subseteq Records
  BY <1>1 DEF Records
<1>3. HeldInv'
  BY <1>1, <1>2 DEF TokenInv, HeldInv, Rotates, Reads
<1>4. SquareInv'
  BY <1>2 DEF TokenInv, SquareInv
<1>5. ChainInv'
  BY <1>1, <1>2 DEF TokenInv, ChainInv, Leads, Names, Reads
<1>6. QED BY <1>3, <1>4, <1>5 DEF TokenInv

\* A step of a run that is not in the store.
LEMMA OutsideKeepsChain ==
    ASSUME TypeOK, TokenInv, NEW r \in Runs, UNCHANGED tokenVars, ~Rotates(r),
           pc'[r] \notin {"refresh", "recover", "recover previous", "persist"},
           \A s \in Runs : s # r => pc'[s] = pc[s]
    PROVE  TokenInv'
<1>1. held[r] = None
  BY DEF TokenInv, HeldInv
<1>2. held' = [held EXCEPT ![r] = None]
  BY <1>1 DEF TypeOK, TokenTypeOK, tokenVars
<1>3. QED BY <1>2, DropKeepsChain DEF tokenVars, grantVars

\* Reading a record that is due.
LEMMA ReadKeepsChain ==
    ASSUME TypeOK, TokenInv, NEW r \in Runs, UNCHANGED <<vendor, issued, live, recoverable, vault, age>>,
           vault # None, age # "fresh", ~Rotates(r), pc'[r] = "refresh", held' = [held EXCEPT ![r] = vault],
           \A s \in Runs : s # r => pc'[s] = pc[s]
    PROVE  TokenInv'
<1>1. held[r] = None /\ held'[r] = vault /\ \A s \in Runs : s # r => held'[s] = held[s]
  BY DEF TypeOK, TokenTypeOK, TokenInv, HeldInv
<1>2. Records' = Records
  BY <1>1 DEF Records
<1>3. HeldInv'
  BY <1>1, <1>2 DEF TokenInv, HeldInv, Rotates, Reads
<1>4. SquareInv'
  BY <1>2 DEF TokenInv, SquareInv
<1>5. vault \in Records
  BY DEF Records
<1>6. ASSUME live # 0
      PROVE  IF vault.refresh_token = live THEN \A x \in Records : x = vault
             ELSE \A x \in Records : Names(x, recoverable)
  <2>1. CASE \E s \in Runs : Reads(s)
    <3>1. PICK s \in Runs : Reads(s)
      BY <2>1
    <3>2. held[s] = vault
      BY <3>1 DEF TokenInv, HeldInv
    <3>3. QED BY <3>1, <3>2, <1>6 DEF TokenInv, ChainInv
  <2>2. CASE (~\E s \in Runs : Reads(s)) /\ \E s \in Runs : pc[s] = "persist"
    <3>1. CASE vendor = "clover"
      BY <2>2, <3>1, <1>6 DEF TokenInv, ChainInv
    <3>2. CASE vendor # "clover"
      <4>1. vendor = "square"
        BY <3>2 DEF TypeOK, TokenTypeOK, Vendors
      <4>2. \A x \in Records : x \in TokenSet /\ x.previous_refresh_token = 0 /\ x.refresh_token = live
        BY <4>1, <1>6 DEF TokenInv, SquareInv, Records, TypeOK, TokenTypeOK
      <4>3. \A x \in Records : x = vault
        BY <4>2, <1>5 DEF TokenSet
      <4>4. QED BY <4>2, <4>3, <1>5
    <3>3. QED BY <3>1, <3>2
  <2>3. CASE ~\E s \in Runs : Rotates(s)
    <3>1. \A x \in Records : x = vault
      BY <2>3 DEF TokenInv, HeldInv, Records
    <3>2. QED BY <3>1, <1>5, <1>6 DEF TokenInv, ChainInv, Leads
  <2>4. QED BY <2>1, <2>2, <2>3 DEF Rotates
<1>7. ChainInv'
  <2>1. SUFFICES ASSUME live # 0
                 PROVE  /\ \A x \in Records' : Leads(x)'
                        /\ \A s \in Runs : Reads(s)' =>
                             IF held'[s].refresh_token = live THEN \A x \in Records' : x = held'[s]
                             ELSE \A x \in Records' : Names(x, recoverable)
                        /\ \A s \in Runs : pc'[s] \in {"recover", "recover previous"} => held'[s].refresh_token # live
                        /\ \A s \in Runs : vendor = "clover" /\ age # "fresh" /\ pc'[s] = "persist" =>
                             vault.refresh_token # live /\ \A x \in Records' : Names(x, recoverable)
    BY DEF ChainInv, Names
  <2>2. \A x \in Records' : Leads(x)'
    BY <2>1, <1>2 DEF TokenInv, ChainInv, Leads, Names
  <2>3. QED BY <2>1, <2>2, <1>1, <1>2, <1>6 DEF TokenInv, ChainInv, Reads
<1>8. QED BY <1>3, <1>4, <1>7 DEF TokenInv

\* The vendor rejects the token a run presented; the run goes on with the record it has.
LEMMA RejectKeepsChain ==
    ASSUME TypeOK, TokenInv, NEW r \in Runs, UNCHANGED tokenVars, vendor = "clover", Reads(r),
           live # 0 => held[r].refresh_token # live,
           pc'[r] \in {"recover", "recover previous"}, \A s \in Runs : s # r => pc'[s] = pc[s]
    PROVE  TokenInv'
<1>1. Records' = Records
  BY DEF Records, tokenVars
<1>2. Reads(r)' /\ \A s \in Runs : Reads(s)' <=> Reads(s)
  BY DEF Reads
<1>3. HeldInv'
  BY <1>1, <1>2 DEF TokenInv, HeldInv, Rotates, Reads, tokenVars, grantVars
<1>4. SquareInv'
  BY <1>1 DEF TokenInv, SquareInv, tokenVars, grantVars
<1>5. ChainInv'
  BY <1>1, <1>2 DEF TokenInv, ChainInv, Leads, Names, Reads, tokenVars, grantVars
<1>6. QED BY <1>3, <1>4, <1>5 DEF TokenInv

HasOrLost(r, p) ==
    \/ pc'[r] = "persist" /\ held'[r] = p
    \/ pc'[r] \notin {"refresh", "recover", "recover previous", "persist"} /\ held'[r] = None

\* A Clover pair is issued for a token that every record names.  The run has the pair, or
\* never hears of it.
LEMMA IssueKeepsChain ==
    ASSUME TypeOK, TokenInv, NEW r \in Runs, NEW n \in Nat, NEW token \in Nat, NEW p \in TokenSet,
           issued = n, token # 0, token <= n,
           UNCHANGED <<vendor, vault, age>>, vendor = "clover", Reads(r),
           issued' = n + 1, live' = n + 1, recoverable' = token,
           \A x \in Records : token \in {x.refresh_token, x.previous_refresh_token},
           p = [refresh_token |-> n + 1, previous_refresh_token |-> token],
           \A s \in Runs : s # r => pc'[s] = pc[s] /\ held'[s] = held[s],
           HasOrLost(r, p)
    PROVE  TokenInv'
<1>1. /\ \A s \in Runs : s # r => held'[s] = held[s]
      /\ (held'[r] = p /\ pc'[r] = "persist") \/ (held'[r] = None /\ ~Rotates(r)')
      /\ ~Reads(r)' /\ \A s \in Runs : s # r => (Reads(s)' <=> Reads(s)) /\ (Rotates(s)' <=> Rotates(s))
  BY DEF HasOrLost, Rotates, Reads
<1>2. \A x \in Records' : x \in Records \/ x = p
  BY <1>1 DEF Records
<1>3. p # None
  BY NoneIsNone
<1>4. \A x \in Records : x \in TokenSet /\ x.refresh_token \in Nat /\ x.previous_refresh_token \in Nat
                         /\ x.refresh_token <= n /\ x.previous_refresh_token <= n
  <2>1. Records \subseteq TokenSet
    BY DEF Records, TypeOK, TokenTypeOK
  <2>2. QED BY <2>1, Bounds DEF TokenInv, HeldInv, TokenSet, Tokens
<1>5. \A x \in Records' : token \in {x.refresh_token, x.previous_refresh_token}
  BY <1>2
<1>6. HeldInv'
  <2>1. \A s \in Runs : (held[s] # None <=> Rotates(s)) /\ (Rotates(s) => vault # None)
                        /\ (pc[s] \in {"recover", "recover previous"} => vendor = "clover")
                        /\ (Reads(s) /\ age # "fresh" => held[s] = vault)
    BY DEF TokenInv, HeldInv
  <2>2. \A s \in Runs : (held'[s] # None <=> Rotates(s)')
    BY <1>1, <1>3, <2>1 DEF Rotates
  <2>3. \A s \in Runs : Rotates(s)' => vault' # None
    BY <2>1 DEF Rotates
  <2>4. \A s \in Runs : Reads(s)' /\ age' # "fresh" => held'[s] = vault'
    BY <1>1, <2>1
  <2>5. \A x \in Records' : x.refresh_token <= issued' /\ x.previous_refresh_token <= issued'
    BY <1>2, <1>3, <1>4
  <2>6. live' # 0
    BY <1>3
  <2>7. QED BY <2>2, <2>3, <2>4, <2>5, <2>6 DEF HeldInv
<1>7. SquareInv'
  BY DEF SquareInv
<1>8. ChainInv'
  <2>1. \A x \in Records' : Leads(x)' /\ Names(x, recoverable)'
    BY <1>5 DEF Leads, Names
  <2>2. \A s \in Runs : Reads(s)' => held'[s] \in Records
    BY <1>1 DEF Records, TokenInv, HeldInv, Rotates
  <2>3. \A s \in Runs : Reads(s)' => held'[s].refresh_token # live'
    BY <1>3, <1>4, <2>2
  <2>4. vault' \in Records
    BY DEF TokenInv, HeldInv, Rotates, Records
  <2>5. vault'.refresh_token # live'
    BY <2>4, <1>3, <1>4
  <2>6. \A s \in Runs : pc'[s] \in {"recover", "recover previous"} => Reads(s)'
    BY DEF Reads
  <2>7. QED BY <2>1, <2>3, <2>5, <2>6 DEF ChainInv
<1>9. QED BY <1>6, <1>7, <1>8 DEF TokenInv

\* Square hands back the token it was given: the run's record is the one it read.
LEMMA ReturnKeepsChain ==
    ASSUME TypeOK, TokenInv, NEW r \in Runs, UNCHANGED tokenVars, vendor = "square", Reads(r),
           pc'[r] = "persist", \A s \in Runs : s # r => pc'[s] = pc[s]
    PROVE  TokenInv'
<1>1. Records' = Records
  BY DEF Records, tokenVars
<1>2. ~Reads(r)' /\ \A s \in Runs : (Reads(s)' => Reads(s)) /\ (Rotates(s)' <=> Rotates(s))
  BY DEF Reads, Rotates
<1>3. HeldInv'
  BY <1>1, <1>2 DEF TokenInv, HeldInv, Reads, tokenVars, grantVars
<1>4. SquareInv'
  BY <1>1 DEF TokenInv, SquareInv, tokenVars, grantVars
<1>5. ChainInv'
  BY <1>1, <1>2 DEF TokenInv, ChainInv, Leads, Names, Reads, tokenVars, grantVars
<1>6. QED BY <1>3, <1>4, <1>5 DEF TokenInv

\* The write: a run's record becomes the newest one.
LEMMA StoreKeepsChain ==
    ASSUME TypeOK, TokenInv, NEW r \in Runs, UNCHANGED <<vendor, issued, live, recoverable>>,
           pc[r] = "persist", vault' = held[r], age' = "fresh", held' = [held EXCEPT ![r] = None],
           pc'[r] \notin {"refresh", "recover", "recover previous", "persist"},
           \A s \in Runs : s # r => pc'[s] = pc[s]
    PROVE  TokenInv'
<1>1. held[r] # None /\ held'[r] = None /\ \A s \in Runs : s # r => held'[s] = held[s]
  BY DEF TypeOK, TokenTypeOK, TokenInv, HeldInv, Rotates
<1>2. Records' \subseteq Records
  BY <1>1 DEF Records
<1>3. \A s \in Runs : (Reads(s)' => s # r /\ Reads(s)) /\ (Rotates(s)' => s # r /\ Rotates(s))
  BY DEF Reads, Rotates
<1>4. HeldInv'
  BY <1>1, <1>2, <1>3 DEF TokenInv, HeldInv, Reads, Rotates
<1>5. SquareInv'
  BY <1>2 DEF TokenInv, SquareInv
<1>6. ChainInv'
  BY <1>1, <1>2, <1>3 DEF TokenInv, ChainInv, Leads, Names, Reads
<1>7. QED BY <1>4, <1>5, <1>6 DEF TokenInv

\* The vendor, the clock and the consent screen.
LEMMA MerchantKeepsChain ==
    ASSUME TypeOK, TokenInv,
           Revoke \/ RecoveryLapses \/ AccessTokenFallsDue \/ RefreshTokenExpires \/ oauth_complete
    PROVE  TokenInv'
<1>0. \A s \in Runs : (Reads(s)' <=> Reads(s)) /\ (Rotates(s)' <=> Rotates(s)) /\ held'[s] = held[s] /\ pc'[s] = pc[s]
  BY DEF Revoke, RecoveryLapses, AccessTokenFallsDue, RefreshTokenExpires, oauth_complete, Reads, Rotates
<1>a. ASSUME ~Rotating PROVE \A s \in Runs : ~Rotates(s)
  BY <1>a DEF Rotating, Rotates, Reads
<1>1. CASE Revoke
  <2>1. Records' = Records
    BY <1>1 DEF Revoke, Records
  <2>2. HeldInv'
    BY <1>0, <1>1, <2>1 DEF Revoke, TokenInv, HeldInv
  <2>3. SquareInv' /\ ChainInv'
    BY <1>1, <2>1 DEF Revoke, TokenInv, SquareInv, ChainInv
  <2>4. QED BY <2>2, <2>3 DEF TokenInv
<1>2. CASE AccessTokenFallsDue
  <2>1. Records' = Records /\ \A s \in Runs : ~Rotates(s)
    BY <1>2, <1>a DEF AccessTokenFallsDue, Records
  <2>2. HeldInv'
    BY <1>0, <1>2, <2>1 DEF AccessTokenFallsDue, TokenInv, HeldInv, Rotates, grantVars
  <2>3. SquareInv'
    BY <1>2, <2>1 DEF AccessTokenFallsDue, TokenInv, SquareInv, grantVars
  <2>4. ChainInv'
    BY <1>0, <1>2, <2>1 DEF AccessTokenFallsDue, TokenInv, ChainInv, grantVars, Leads, Names, Rotates, Reads
  <2>5. QED BY <2>2, <2>3, <2>4 DEF TokenInv
<1>3. CASE RefreshTokenExpires
  <2>1. Records' = Records /\ \A s \in Runs : ~Rotates(s)
    BY <1>3, <1>a DEF RefreshTokenExpires, Records
  <2>2. HeldInv'
    BY <1>0, <1>3, <2>1 DEF RefreshTokenExpires, TokenInv, HeldInv, Rotates
  <2>3. SquareInv' /\ ChainInv'
    BY <1>3, <2>1 DEF RefreshTokenExpires, TokenInv, SquareInv, ChainInv
  <2>4. QED BY <2>2, <2>3 DEF TokenInv
<1>4. CASE oauth_complete
  <2>0. issued \in Nat
    BY Bounds DEF TypeOK, TokenTypeOK
  <2>1. PICK n \in Nat :
        /\ n = issued
        /\ \A s \in Runs : ~Rotates(s) /\ held'[s] = None
        /\ vault' = [refresh_token |-> n + 1, previous_refresh_token |-> 0]
        /\ issued' = n + 1 /\ live' = n + 1 /\ recoverable' = 0 /\ vendor' = vendor
    BY <2>0, <1>0, <1>4, <1>a DEF oauth_complete, Issue, vault_write, TokenInv, HeldInv
  <2>2. \A x \in Records' : x = vault'
    BY <2>1 DEF Records
  <2>3. vault'.refresh_token = n + 1 /\ vault'.previous_refresh_token = 0 /\ live' # 0 /\ 0 <= n + 1
    BY <2>1
  <2>a. \A s \in Runs : held'[s] = None /\ ~Rotates(s)' /\ ~Reads(s)'
                        /\ pc'[s] \notin {"recover", "recover previous", "persist"}
    BY <1>0, <2>1 DEF Rotates, Reads
  <2>b. \A x \in Records' : x.refresh_token = live' /\ x.refresh_token <= issued' /\ x.previous_refresh_token <= issued'
    BY <2>1, <2>2, <2>3
  <2>4. HeldInv'
    BY <2>a, <2>b, <2>3 DEF HeldInv
  <2>5. SquareInv'
    BY <2>1, <2>2 DEF SquareInv
  <2>6. ChainInv'
    BY <2>a, <2>b DEF ChainInv, Leads
  <2>7. QED BY <2>4, <2>5, <2>6 DEF TokenInv
<1>5. CASE RecoveryLapses
  <2>1. Records' = Records /\ recoverable' = 0 /\ UNCHANGED <<vendor, issued, live, vault, age>>
    BY <1>5 DEF RecoveryLapses, Records
  <2>2. HeldInv'
    BY <1>0, <2>1 DEF TokenInv, HeldInv
  <2>3. SquareInv'
    BY <2>1 DEF TokenInv, SquareInv
  <2>4. ChainInv'
    BY <1>0, <2>1 DEF TokenInv, ChainInv, Leads, Names
  <2>5. QED BY <2>2, <2>3, <2>4 DEF TokenInv
<1>6. QED BY <1>1, <1>2, <1>3, <1>4, <1>5

-----------------------------------------------------------------------------
(* Authenticate. *)

AuthMoves(r) ==
    \/ UNCHANGED ctx /\ \E x \in {"probe", "refresh", "recover", "recover previous", "persist"} : Goto(r, x)
    \/ AuthFails(r)
    \/ Escape(r)

LEMMA AuthEffect ==
    ASSUME NEW r \in Runs, Authenticate(r)
    PROVE  pc[r] \in TokenSteps /\ AuthMoves(r) /\ UNCHANGED <<vendor, dataVars, limited>>
<1>1. CASE get_session(r, UNCHANGED ctx, AuthFails(r))
  BY <1>1 DEF Authenticate, get_session, AuthMoves, TokenSteps
<1>2. CASE refresh(r, UNCHANGED ctx, AuthFails(r))
  BY <1>2 DEF Authenticate, refresh, AuthMoves, TokenSteps
<1>3. CASE _recover(r, UNCHANGED ctx, AuthFails(r))
  BY <1>3 DEF Authenticate, _recover, AuthMoves, TokenSteps
<1>4. CASE _persist_then_return(r, UNCHANGED ctx, Escape(r))
  BY <1>4 DEF Authenticate, _persist_then_return, AuthMoves, TokenSteps
<1>5. QED BY <1>1, <1>2, <1>3, <1>4 DEF Authenticate

LEMMA TokensAreNumbers ==
    ASSUME TypeOK, NEW r \in Runs, held[r] # None
    PROVE  /\ held[r] \in TokenSet /\ held[r].refresh_token \in Nat /\ held[r].refresh_token # 0
           /\ held[r].refresh_token <= MaxTokens
           /\ held[r].previous_refresh_token \in Nat /\ held[r].previous_refresh_token <= MaxTokens
           /\ issued \in Nat /\ live \in Nat /\ recoverable \in Nat
<1>1. held[r] \in TokenSet
  BY DEF TypeOK, TokenTypeOK
<1>2. QED BY <1>1, Bounds DEF TokenSet, Tokens, TypeOK, TokenTypeOK

\* What a run is told of a Clover grant: a new pair stamped with the token it spent, or
\* nothing.
CloverIssues(r, token) ==
    \E p \in TokenSet :
        /\ p = [refresh_token |-> issued + 1, previous_refresh_token |-> token]
        /\ HasOrLost(r, p)
        /\ \A s \in Runs : s # r => pc'[s] = pc[s] /\ held'[s] = held[s]

LEMMA CloverAnswers ==
    ASSUME TypeOK, NEW r \in Runs, NEW token \in Tokens, NEW pair \in Pairs, vendor = "clover",
           Issue(token), pair = [refresh_token |-> issued + 1, previous_refresh_token |-> 0],
           \/ held' = [held EXCEPT ![r] = carrying_previous(pair, token)] /\ Goto(r, "persist") /\ UNCHANGED ctx
           \/ AuthFails(r) /\ Drop(r)
    PROVE  CloverIssues(r, token)
<1>1. carrying_previous(pair, token) = [refresh_token |-> issued + 1, previous_refresh_token |-> token]
  BY DEF carrying_previous
<1>2. token \in 0..MaxTokens /\ pair \in TokenSet
  BY PairsAreTokenSets, Bounds DEF Tokens
<1>3. carrying_previous(pair, token) \in TokenSet
  BY <1>2, CarryType
<1>4. held \in [Runs -> TokenSet \cup {None}] /\ pc \in [Runs -> Steps]
  BY DEF TypeOK, TokenTypeOK
<1>5. CASE held' = [held EXCEPT ![r] = carrying_previous(pair, token)] /\ Goto(r, "persist") /\ UNCHANGED ctx
  <2>1. HasOrLost(r, carrying_previous(pair, token)) /\ \A s \in Runs : s # r => pc'[s] = pc[s] /\ held'[s] = held[s]
    BY <1>4, <1>5 DEF HasOrLost, Goto
  <2>2. QED BY <2>1, <1>1, <1>3 DEF CloverIssues
<1>6. CASE AuthFails(r) /\ Drop(r)
  <2>1. pc'[r] \in {"idle", "report"} /\ \A s \in Runs : s # r => pc'[s] = pc[s]
    BY <1>6, FailsLeave
  <2>2. held'[r] = None /\ \A s \in Runs : s # r => held'[s] = held[s]
    BY <1>4, <1>6 DEF Drop
  <2>3. HasOrLost(r, carrying_previous(pair, token))
    BY <2>1, <2>2 DEF HasOrLost
  <2>4. QED BY <2>1, <2>2, <2>3, <1>1, <1>3 DEF CloverIssues
<1>7. QED BY <1>5, <1>6

LEMMA IssuesKeepChain ==
    ASSUME TypeOK, TokenInv, NEW r \in Runs, NEW token \in Tokens, Reads(r), vendor = "clover",
           UNCHANGED <<vendor, vault, age>>, Issue(token), CloverIssues(r, token),
           \A x \in Records : token \in {x.refresh_token, x.previous_refresh_token}
    PROVE  TokenInv'
<1>1. issued \in Nat /\ token \in Nat /\ token # 0
  BY Bounds DEF TypeOK, TokenTypeOK, Tokens
<1>2. held[r] \in Records
  BY DEF TokenInv, HeldInv, Rotates, Records
<1>3. token <= issued
  BY <1>2 DEF TokenInv, HeldInv
<1>4. PICK p \in TokenSet :
        /\ p = [refresh_token |-> issued + 1, previous_refresh_token |-> token]
        /\ HasOrLost(r, p)
        /\ \A s \in Runs : s # r => pc'[s] = pc[s] /\ held'[s] = held[s]
  BY DEF CloverIssues
<1>5. issued' = issued + 1 /\ live' = issued + 1 /\ recoverable' = token
  BY DEF Issue
<1>6. QED BY <1>1, <1>3, <1>4, <1>5, IssueKeepsChain

LEMMA AuthKeepsChain ==
    ASSUME TypeOK, TokenInv, NEW r \in Runs, Authenticate(r)
    PROVE  TokenInv'
<1>0. (held[r] # None <=> Rotates(r)) /\ held \in [Runs -> TokenSet \cup {None}] /\ pc \in [Runs -> Steps]
  BY DEF TokenInv, HeldInv, TypeOK, TokenTypeOK
<1>a. ASSUME AuthFails(r) \/ Escape(r), UNCHANGED <<vendor, grantVars, vault, age>>, Drop(r)
      PROVE  TokenInv'
  <2>1. pc'[r] \in {"idle", "report"} /\ \A s \in Runs : s # r => pc'[s] = pc[s]
    BY <1>a, FailsLeave
  <2>2. QED BY <1>a, <2>1, DropKeepsChain DEF Drop, grantVars
<1>1. CASE get_session(r, UNCHANGED ctx, AuthFails(r))
  <2>0. ~Rotates(r) /\ held[r] = None /\ UNCHANGED <<vendor, issued, live, recoverable, vault, age>>
    BY <1>0, <1>1 DEF get_session, Rotates, Reads, grantVars
  <2>1. CASE AuthFails(r) /\ UNCHANGED held
    <3>1. Drop(r)
      BY <1>0, <2>0, <2>1 DEF Drop
    <3>2. QED BY <2>0, <2>1, <3>1, <1>a DEF grantVars
  <2>2. CASE Goto(r, "probe") /\ UNCHANGED held
    <3>1. pc'[r] = "probe" /\ \A s \in Runs : s # r => pc'[s] = pc[s]
      BY <1>0, <2>2 DEF Goto
    <3>2. QED BY <2>0, <2>2, <3>1, OutsideKeepsChain DEF tokenVars, grantVars
  <2>3. CASE vault # None /\ needs_refresh /\ Goto(r, "refresh") /\ held' = [held EXCEPT ![r] = vault]
    <3>1. pc'[r] = "refresh" /\ \A s \in Runs : s # r => pc'[s] = pc[s]
      BY <1>0, <2>3 DEF Goto
    <3>2. QED BY <2>0, <2>3, <3>1, ReadKeepsChain DEF needs_refresh
  <2>4. QED BY <1>1, <2>1, <2>2, <2>3 DEF get_session
<1>2. CASE refresh(r, UNCHANGED ctx, AuthFails(r))
  <2>0. Reads(r) /\ held[r] # None /\ UNCHANGED <<vendor, vault, age>>
    BY <1>0, <1>2 DEF refresh, Rotates, Reads
  <2>1. CASE \E pair \in Pairs :
               /\ Grant(held[r].refresh_token, pair)
               /\ \/ /\ held' = [held EXCEPT ![r] = carrying_previous(pair, held[r].refresh_token)]
                     /\ Goto(r, "persist") /\ UNCHANGED ctx
                  \/ AuthFails(r) /\ Drop(r)
    <3>0. held[r].refresh_token \in Tokens
      BY <2>0, TokensAreNumbers DEF TokenSet
    <3>1. PICK pair \in Pairs :
               /\ Grant(held[r].refresh_token, pair)
               /\ \/ /\ held' = [held EXCEPT ![r] = carrying_previous(pair, held[r].refresh_token)]
                     /\ Goto(r, "persist") /\ UNCHANGED ctx
                  \/ AuthFails(r) /\ Drop(r)
      BY <2>1
    <3>a. live = held[r].refresh_token /\ live # 0
      BY <3>1, <2>0, TokensAreNumbers DEF Grant
    <3>b. \A x \in Records : x = held[r]
      BY <3>a, <2>0 DEF TokenInv, ChainInv
    <3>2. CASE vendor = "clover"
      <4>1. Issue(held[r].refresh_token) /\ pair = [refresh_token |-> issued + 1, previous_refresh_token |-> 0]
        BY <3>1, <3>2 DEF Grant
      <4>2. CloverIssues(r, held[r].refresh_token)
        BY <3>0, <3>1, <3>2, <4>1, CloverAnswers
      <4>3. \A x \in Records : held[r].refresh_token \in {x.refresh_token, x.previous_refresh_token}
        BY <3>b
      <4>4. QED BY <2>0, <3>0, <3>2, <4>1, <4>2, <4>3, IssuesKeepChain
    <3>3. CASE vendor # "clover"
      <4>0. vendor = "square"
        BY <3>3 DEF TypeOK, TokenTypeOK, Vendors
      <4>1. UNCHANGED grantVars /\ pair = [refresh_token |-> held[r].refresh_token, previous_refresh_token |-> 0]
        BY <3>1, <3>3 DEF Grant
      <4>2. CASE AuthFails(r) /\ Drop(r)
        BY <4>1, <4>2, <2>0, <1>a
      <4>3. CASE held' = [held EXCEPT ![r] = carrying_previous(pair, held[r].refresh_token)] /\ Goto(r, "persist")
        <5>1. held[r] \in Records /\ held[r] \in TokenSet
          BY <2>0, TokensAreNumbers DEF Records
        <5>2. held[r].previous_refresh_token = 0
          BY <5>1, <4>0 DEF TokenInv, SquareInv
        <5>3. held[r] = pair
          BY <5>1, <5>2, <4>1 DEF TokenSet
        <5>4. carrying_previous(pair, held[r].refresh_token) = pair
          BY <3>3 DEF carrying_previous
        <5>5. held' = held
          BY <1>0, <4>3, <5>3, <5>4
        <5>6. pc'[r] = "persist" /\ \A s \in Runs : s # r => pc'[s] = pc[s]
          BY <1>0, <4>3 DEF Goto
        <5>7. UNCHANGED tokenVars
          BY <5>5, <4>1, <2>0 DEF tokenVars
        <5>8. QED BY <5>6, <5>7, <4>0, <2>0, ReturnKeepsChain
      <4>4. QED BY <3>1, <4>2, <4>3
    <3>4. QED BY <3>2, <3>3
  <2>2. CASE AuthFails(r) /\ Drop(r) /\ UNCHANGED grantVars
    BY <2>0, <2>2, <1>a
  <2>3. CASE live # held[r].refresh_token /\ vendor = "clover" /\ Goto(r, "recover") /\ UNCHANGED <<held, grantVars>>
    <3>1. pc'[r] = "recover" /\ \A s \in Runs : s # r => pc'[s] = pc[s]
      BY <1>0, <2>3 DEF Goto
    <3>2. UNCHANGED tokenVars
      BY <2>0, <2>3 DEF tokenVars
    <3>3. QED BY <2>0, <2>3, <3>1, <3>2, RejectKeepsChain
  <2>4. QED BY <1>2, <2>1, <2>2, <2>3 DEF refresh
<1>3. CASE _recover(r, UNCHANGED ctx, AuthFails(r))
  <2>0. /\ Reads(r) /\ held[r] # None /\ UNCHANGED <<vendor, vault, age>> /\ vendor = "clover"
        /\ pc[r] \in {"recover", "recover previous"}
    BY <1>0, <1>3 DEF _recover, Rotates, Reads, TokenInv, HeldInv
  <2>a. live # 0 => held[r].refresh_token # live
    BY <2>0 DEF TokenInv, ChainInv
  <2>1. CASE \E pair \in Pairs :
               /\ Restore(Candidate(r), pair)
               /\ \/ /\ held' = [held EXCEPT ![r] = carrying_previous(pair, Candidate(r))]
                     /\ Goto(r, "persist") /\ UNCHANGED ctx
                  \/ AuthFails(r) /\ Drop(r)
    <3>1. PICK pair \in Pairs :
               /\ Restore(Candidate(r), pair)
               /\ \/ /\ held' = [held EXCEPT ![r] = carrying_previous(pair, Candidate(r))]
                     /\ Goto(r, "persist") /\ UNCHANGED ctx
                  \/ AuthFails(r) /\ Drop(r)
      BY <2>1
    <3>2. Candidate(r) \in Tokens /\ Candidate(r) # 0 /\ recoverable = Candidate(r) /\ Issue(Candidate(r))
      <4>1. Candidate(r) # 0 /\ recoverable = Candidate(r) /\ Issue(Candidate(r))
        BY <3>1 DEF Restore
      <4>2. Candidate(r) \in Nat /\ Candidate(r) <= MaxTokens
        BY <2>0, TokensAreNumbers DEF Candidate
      <4>3. QED BY <4>1, <4>2, Bounds DEF Tokens
    <3>3. live # 0
      BY <3>2 DEF TokenInv, HeldInv
    <3>4. \A x \in Records : Candidate(r) \in {x.refresh_token, x.previous_refresh_token}
      BY <3>2, <3>3, <2>0, <2>a DEF TokenInv, ChainInv, Names
    <3>5. pair = [refresh_token |-> issued + 1, previous_refresh_token |-> 0]
      BY <3>1 DEF Restore
    <3>6. CloverIssues(r, Candidate(r))
      BY <3>1, <3>2, <3>5, <2>0, CloverAnswers
    <3>7. QED BY <2>0, <3>2, <3>4, <3>6, IssuesKeepChain
  <2>2. CASE AuthFails(r) /\ Drop(r) /\ UNCHANGED grantVars
    BY <2>0, <2>2, <1>a
  <2>3. CASE Goto(r, "recover previous") /\ UNCHANGED <<held, grantVars>>
    <3>1. pc'[r] = "recover previous" /\ \A s \in Runs : s # r => pc'[s] = pc[s]
      BY <1>0, <2>3 DEF Goto
    <3>2. UNCHANGED tokenVars
      BY <2>0, <2>3 DEF tokenVars
    <3>3. QED BY <2>0, <2>a, <3>1, <3>2, RejectKeepsChain
  <2>4. QED BY <1>3, <2>1, <2>2, <2>3 DEF _recover
<1>4. CASE _persist_then_return(r, UNCHANGED ctx, Escape(r))
  <2>1. /\ pc[r] = "persist" /\ held' = [held EXCEPT ![r] = None] /\ UNCHANGED <<vendor, issued, live, recoverable>>
        /\ Goto(r, "probe") \/ Escape(r)
    BY <1>4 DEF _persist_then_return, Drop, grantVars
  <2>2. pc'[r] \in {"probe", "idle"} /\ \A s \in Runs : s # r => pc'[s] = pc[s]
    BY <2>1, <1>0 DEF Goto, Escape
  <2>3. CASE UNCHANGED <<vault, age>>
    BY <2>1, <2>2, <2>3, DropKeepsChain
  <2>4. CASE vault_write(held[r])
    BY <2>1, <2>2, <2>4, StoreKeepsChain DEF vault_write
  <2>5. QED BY <1>4, <2>3, <2>4 DEF _persist_then_return
<1>5. QED BY <1>1, <1>2, <1>3, <1>4 DEF Authenticate

-----------------------------------------------------------------------------
(***************************************************************************)
(* The pipeline.                                                           *)
(***************************************************************************)

\* A run's own step and locals are all that changes of the runs' state.
Moves(r, x, c) == pc' = [pc EXCEPT ![r] = x] /\ ctx' = [ctx EXCEPT ![r] = c]

LEMMA MovesPointwise ==
    ASSUME TypeOK, NEW r \in Runs, NEW x \in Steps, NEW c \in Context, Moves(r, x, c)
    PROVE  /\ pc' \in [Runs -> Steps] /\ ctx' \in [Runs -> Context]
           /\ pc'[r] = x /\ ctx'[r] = c
           /\ \A s \in Runs : s # r => pc'[s] = pc[s] /\ ctx'[s] = ctx[s]
BY DEF TypeOK, Moves

\* The rows only grow: an announced payload stays announced, a settled run settled.
Grows ==
    /\ \A i \in Ids : objects[i] # None => objects'[i] = objects[i]
    /\ \A i \in Ids : bronze[i] # None =>
         bronze'[i] # None /\ bronze'[i].key = bronze[i].key /\ bronze'[i].sha = bronze[i].sha
         /\ bronze'[i].status = bronze[i].status
    /\ ready \subseteq ready'

LEMMA GrowsKeeps ==
    ASSUME TypeOK, Grows, RowsOk, NEW c \in Context
    PROVE  /\ \A i \in Ids : Announced(i, c) => Announced(i, c)'
           /\ Settled(c) => Settled(c)'
<1>1. ASSUME NEW i \in Ids, Announced(i, c) PROVE Announced(i, c)'
  <2>1. objects[i] # None
    BY <1>1, NoneIsNone DEF Announced, TypeOK, BronzeRow
  <2>2. QED BY <1>1, <2>1 DEF Announced, Grows
<1>2. ASSUME Settled(c) PROVE Settled(c)'
  <2>1. PICK i \in Ids :
        \/ Announced(i, c) /\ i \in ready
        \/ /\ bronze[i] # None /\ bronze[i].key = c.key /\ bronze[i].sha = c.content
           /\ bronze[i].status = "FAILED" /\ c.outcome = "duplicate_noop"
    BY <1>2 DEF Settled
  <2>2. CASE Announced(i, c) /\ i \in ready
    <3>1. Announced(i, c)' /\ i \in ready'
      BY <2>2, <1>1 DEF Grows
    <3>2. QED BY <3>1 DEF Settled
  <2>3. CASE /\ bronze[i] # None /\ bronze[i].key = c.key /\ bronze[i].sha = c.content
             /\ bronze[i].status = "FAILED" /\ c.outcome = "duplicate_noop"
    BY <2>3 DEF Settled, Grows
  <2>4. QED BY <2>1, <2>2, <2>3
<1>3. QED BY <1>1, <1>2

LEMMA RunOkHere ==
    ASSUME NEW s \in Runs, NEW x, NEW c, pc'[s] = x, ctx'[s] = c, RunOk(x, c)'
    PROVE  RunOk(pc[s], ctx[s])'
BY DEF RunOk, Announced, Settled

\* What the other runs know survives a step that grows the rows and inserts none of theirs.
LEMMA OthersKeep ==
    ASSUME TypeOK, Grows, RowsOk, NEW x \in Steps, NEW c \in Context, RunOk(x, c),
           x \in Inserts => bronze'[c.row] = None
    PROVE  RunOk(x, c)'
<1>1. (\A i \in Ids : Announced(i, c) => Announced(i, c)') /\ (Settled(c) => Settled(c)')
  BY GrowsKeeps
<1>2. x \in Inserts => objects'[c.row] = objects[c.row]
  BY NoneIsNone DEF RunOk, Grows, Inserts
<1>3. x \in Announces => c.row \in Ids
  BY DEF RunOk, Announced
<1>4. x = "mark" => c.row \in ready'
  BY DEF RunOk, Grows
<1>5. QED BY <1>1, <1>2, <1>3, <1>4 DEF RunOk

LEMMA SameRows ==
    ASSUME UNCHANGED <<objects, bronze, ready>>, NEW x, NEW c, RunOk(x, c)
    PROVE  RunOk(x, c)'
<1>1. \A i : Announced(i, c)' <=> Announced(i, c)
  BY DEF Announced
<1>2. Settled(c)' <=> Settled(c)
  BY <1>1 DEF Settled
<1>3. QED BY <1>1, <1>2 DEF RunOk

\* The frame of every step of the pipeline outside the token store.
LEMMA PipelineFrame ==
    ASSUME IInv, NEW r \in Runs, NEW x \in Steps, NEW c \in Context, Moves(r, x, c), UNCHANGED tokenVars,
           ~Rotates(r), x \notin {"refresh", "recover", "recover previous", "persist"}
    PROVE  TokenTypeOK' /\ TokenInv'
<1>1. pc'[r] = x /\ \A s \in Runs : s # r => pc'[s] = pc[s]
  BY MovesPointwise DEF IInv
<1>2. TokenInv'
  BY <1>1, OutsideKeepsChain DEF IInv, TokenInv
<1>3. TokenTypeOK'
  BY DEF IInv, TypeOK, TokenTypeOK, tokenVars, grantVars
<1>4. QED BY <1>2, <1>3

\* A step that leaves bronze, the bucket and the topic alone.
LEMMA QuietStep ==
    ASSUME IInv, NEW r \in Runs, NEW x \in Steps, NEW c \in Context, Moves(r, x, c),
           UNCHANGED <<objects, bronze, ready>>, TokenTypeOK', TokenInv',
           health' \in [status : {None, "healthy", "stale"}, rate_limit_state : Posture],
           limited' \subseteq Runs, \A s \in Runs : s # r => (s \in limited' <=> s \in limited),
           triggers' \in 0..MaxTriggers, x \notin Inserts, RunOk(x, c), LimitOk(x, c, r \in limited')
    PROVE  IInv'
<1>1. /\ pc' \in [Runs -> Steps] /\ ctx' \in [Runs -> Context] /\ pc'[r] = x /\ ctx'[r] = c
      /\ \A s \in Runs : s # r => pc'[s] = pc[s] /\ ctx'[s] = ctx[s]
  BY MovesPointwise DEF IInv
<1>2. TypeOK'
  BY <1>1 DEF IInv, TypeOK
<1>3. RunInv'
  <2>1. \A y, d : RunOk(y, d) => RunOk(y, d)'
    BY SameRows
  <2>a. ASSUME NEW s \in Runs PROVE RunOk(pc[s], ctx[s])'
    <3>1. CASE s = r
      BY <3>1, <1>1, <2>1, RunOkHere
    <3>2. CASE s # r
      <4>1. RunOk(pc[s], ctx[s]) /\ pc'[s] = pc[s] /\ ctx'[s] = ctx[s]
        BY <3>2, <1>1 DEF IInv, RunInv
      <4>2. PICK y, d : y = pc[s] /\ d = ctx[s]
        OBVIOUS
      <4>3. RunOk(y, d) /\ pc'[s] = y /\ ctx'[s] = d
        BY <4>1, <4>2
      <4>4. RunOk(y, d)'
        BY <4>3, <2>1
      <4>5. QED BY <4>3, <4>4, RunOkHere
    <3>3. QED BY <3>1, <3>2
  <2>2. Apart'
    BY <1>1 DEF IInv, RunInv, Apart
  <2>3. RowsOk'
    BY DEF IInv, RunInv, RowsOk
  <2>4. QED BY <2>a, <2>2, <2>3 DEF RunInv
<1>4. LimitInv'
  BY <1>1 DEF IInv, LimitInv, LimitOk
<1>5. QED BY <1>2, <1>3, <1>4 DEF IInv, TokenInv

\* A step that writes to them.
LEMMA GrowingStep ==
    ASSUME IInv, NEW r \in Runs, NEW x \in Steps, NEW c \in Context, Moves(r, x, c), Grows,
           UNCHANGED <<tokenVars, health, limited, triggers>>, ~Rotates(r),
           x \notin {"refresh", "recover", "recover previous", "persist"},
           objects' \in [Ids -> Contents \cup {None}], bronze' \in [Ids -> BronzeRow \cup {None}],
           ready' \subseteq Ids, RowsOk', Apart', RunOk(x, c)', LimitOk(x, c, r \in limited),
           \A s \in Runs : s # r /\ pc[s] \in Inserts => bronze'[ctx[s].row] = None
    PROVE  IInv'
<1>1. /\ pc' \in [Runs -> Steps] /\ ctx' \in [Runs -> Context] /\ pc'[r] = x /\ ctx'[r] = c
      /\ \A s \in Runs : s # r => pc'[s] = pc[s] /\ ctx'[s] = ctx[s]
  BY MovesPointwise DEF IInv
<1>2. TokenTypeOK' /\ TokenInv'
  BY PipelineFrame
<1>3. TypeOK'
  BY <1>1, <1>2 DEF IInv, TypeOK
<1>4. RunInv'
  <2>1. ASSUME NEW s \in Runs, s # r PROVE RunOk(pc[s], ctx[s])'
    <3>1. /\ RunOk(pc[s], ctx[s]) /\ pc'[s] = pc[s] /\ ctx'[s] = ctx[s] /\ RowsOk /\ TypeOK
          /\ pc[s] \in Steps /\ ctx[s] \in Context /\ (pc[s] \in Inserts => bronze'[ctx[s].row] = None)
      BY <2>1, <1>1 DEF IInv, RunInv, TypeOK
    <3>2. PICK y \in Steps, d \in Context : y = pc[s] /\ d = ctx[s]
      BY <3>1
    <3>3. RunOk(y, d) /\ pc'[s] = y /\ ctx'[s] = d /\ (y \in Inserts => bronze'[d.row] = None)
      BY <3>1, <3>2
    <3>4. RunOk(y, d)'
      BY <3>1, <3>3, OthersKeep
    <3>5. QED BY <3>3, <3>4, RunOkHere
  <2>2. RunOk(pc[r], ctx[r])'
    BY <1>1, RunOkHere
  <2>3. QED BY <2>1, <2>2 DEF RunInv
<1>5. LimitInv'
  BY <1>1 DEF IInv, LimitInv, LimitOk
<1>6. QED BY <1>2, <1>3, <1>4, <1>5 DEF IInv, TokenInv

LEMMA RunOkOf == ASSUME IInv, NEW r \in Runs
                 PROVE  /\ RunOk(pc[r], ctx[r]) /\ LimitOk(pc[r], ctx[r], r \in limited)
                        /\ ctx[r] \in Context /\ pc[r] \in Steps /\ TypeOK /\ TokenInv /\ RunInv
BY DEF IInv, RunInv, LimitInv, TypeOK, TokenInv

\* A run that failed or ended without an outcome.
LEMMA FailedIsOk ==
    ASSUME NEW c, c.key \in RunKeys, c.outcome \notin Good
    PROVE  RunOk("report", c)
BY DEF RunOk, Inserts, Announces

LEMMA IdleIsOk == RunOk("idle", NoContext) /\ LimitOk("idle", NoContext, FALSE)
<1>1. NoContext.outcome = None /\ NoContext.reason = None /\ NoContext.throttled = FALSE
  BY DEF NoContext
<1>2. None \notin Good /\ None # "RATE_LIMITED" /\ None # "ingested"
  BY NoneIsNone DEF Good, Disposition, Reason
<1>3. RunOk("idle", NoContext)
  BY <1>1, <1>2 DEF RunOk, Inserts, Announces
<1>4. LimitOk("idle", NoContext, FALSE)
  BY <1>1, <1>2 DEF LimitOk, TokenSteps
<1>5. QED BY <1>3, <1>4

\* The emit is all that is left of a run that gives up.
LEMMA ConcludeMoves ==
    ASSUME TypeOK, NEW r \in Runs, NEW o \in Disposition, NEW x \in Reason \cup {None}, Conclude(r, o, x)
    PROVE  \E c \in Context :
             /\ Moves(r, "report", c) /\ c.key = ctx[r].key /\ c.content = ctx[r].content
             /\ c.throttled = ctx[r].throttled /\ c.row = ctx[r].row /\ c.outcome = o /\ c.reason = x
<1>1. ctx[r] \in Context /\ ctx \in [Runs -> Context]
  BY DEF TypeOK
<1>2. PICK c : c = [ctx[r] EXCEPT !.outcome = o, !.reason = x]
  OBVIOUS
<1>3. /\ c \in Context /\ c.key = ctx[r].key /\ c.content = ctx[r].content
      /\ c.throttled = ctx[r].throttled /\ c.row = ctx[r].row /\ c.outcome = o /\ c.reason = x
  BY <1>1, <1>2 DEF Context
<1>4. ctx' = [ctx EXCEPT ![r] = c]
  BY <1>1, <1>2 DEF Conclude
<1>5. QED BY <1>3, <1>4 DEF Conclude, Goto, Moves

LEMMA AuthTypes ==
    ASSUME TypeOK, TokenInv, NEW r \in Runs, Authenticate(r)
    PROVE  TokenTypeOK'
<1>0. /\ held \in [Runs -> TokenSet \cup {None}] /\ issued \in Nat /\ issued <= MaxTokens /\ live \in 0..issued
      /\ recoverable \in 0..issued /\ vault \in TokenSet \cup {None} /\ vendor' = vendor /\ TokenTypeOK
  BY AuthEffect, Bounds DEF TypeOK, TokenTypeOK
<1>1. CASE get_session(r, UNCHANGED ctx, AuthFails(r))
  <2>1. held' \in [Runs -> TokenSet \cup {None}] /\ UNCHANGED <<vendor, issued, live, recoverable, vault, age>>
    BY <1>0, <1>1 DEF get_session, grantVars
  <2>2. QED BY <1>0, <2>1 DEF TokenTypeOK
<1>a. ASSUME NEW t \in 0..issued, Issue(t) PROVE issued' \in 0..MaxTokens /\ live' \in 0..issued' /\ recoverable' \in 0..issued'
  BY <1>0, <1>a, Bounds DEF Issue
<1>b. ASSUME NEW t \in 0..MaxTokens, NEW pair \in Pairs PROVE carrying_previous(pair, t) \in TokenSet
  BY PairsAreTokenSets, CarryType
<1>2. CASE refresh(r, UNCHANGED ctx, AuthFails(r))
  <2>0. held[r] # None /\ vault' = vault /\ age' = age
    BY <1>2 DEF refresh, TokenInv, HeldInv, Rotates, Reads
  <2>1. held[r].refresh_token \in 0..MaxTokens
    BY <2>0, TokensAreNumbers, Bounds
  <2>2. held' \in [Runs -> TokenSet \cup {None}]
    BY <1>0, <1>2, <1>b, <2>1 DEF refresh, Drop
  <2>3. UNCHANGED grantVars \/ (held[r].refresh_token = live /\ Issue(live))
    BY <1>2 DEF refresh, Grant
  <2>4. issued' \in 0..MaxTokens /\ live' \in 0..issued' /\ recoverable' \in 0..issued'
    <3>1. CASE UNCHANGED grantVars
      BY <3>1, <1>0 DEF grantVars, TokenTypeOK
    <3>2. CASE Issue(live)
      BY <3>2, <1>0, <1>a
    <3>3. QED BY <2>3, <3>1, <3>2
  <2>5. QED BY <1>0, <2>0, <2>2, <2>4 DEF TokenTypeOK
<1>3. CASE _recover(r, UNCHANGED ctx, AuthFails(r))
  <2>0. held[r] # None /\ vault' = vault /\ age' = age
    BY <1>3 DEF _recover, TokenInv, HeldInv, Rotates, Reads
  <2>1. Candidate(r) \in 0..MaxTokens
    BY <2>0, TokensAreNumbers, Bounds DEF Candidate
  <2>2. held' \in [Runs -> TokenSet \cup {None}]
    BY <1>0, <1>3, <1>b, <2>1 DEF _recover, Drop
  <2>3. UNCHANGED grantVars \/ (Candidate(r) = recoverable /\ Issue(recoverable))
    BY <1>3 DEF _recover, Restore
  <2>4. issued' \in 0..MaxTokens /\ live' \in 0..issued' /\ recoverable' \in 0..issued'
    <3>1. CASE UNCHANGED grantVars
      BY <3>1, <1>0 DEF grantVars, TokenTypeOK
    <3>2. CASE Issue(recoverable)
      BY <3>2, <1>0, <1>a
    <3>3. QED BY <2>3, <3>1, <3>2
  <2>5. QED BY <1>0, <2>0, <2>2, <2>4 DEF TokenTypeOK
<1>4. CASE _persist_then_return(r, UNCHANGED ctx, Escape(r))
  <2>1. held' \in [Runs -> TokenSet \cup {None}] /\ UNCHANGED <<vendor, issued, live, recoverable>>
    BY <1>0, <1>4 DEF _persist_then_return, Drop, grantVars
  <2>2. vault' \in TokenSet \cup {None} /\ age' \in {"fresh", "due", "expired"}
    BY <1>0, <1>4 DEF _persist_then_return, vault_write, TokenTypeOK
  <2>3. QED BY <1>0, <2>1, <2>2 DEF TokenTypeOK
<1>5. QED BY <1>1, <1>2, <1>3, <1>4 DEF Authenticate

LEMMA AuthenticateKeeps ==
    ASSUME IInv, NEW r \in Runs, Authenticate(r), UNCHANGED triggers
    PROVE  IInv'
<1>0. /\ RunOk(pc[r], ctx[r]) /\ LimitOk(pc[r], ctx[r], r \in limited)
      /\ ctx[r] \in Context /\ ctx \in [Runs -> Context] /\ TypeOK /\ TokenInv
  BY RunOkOf DEF TypeOK
<1>1. /\ pc[r] \in TokenSteps /\ AuthMoves(r) /\ UNCHANGED <<vendor, dataVars, limited>>
      /\ TokenTypeOK' /\ TokenInv'
  BY <1>0, AuthEffect, AuthTypes, AuthKeepsChain
<1>2. /\ ctx[r].key \in RunKeys /\ ctx[r].outcome = None /\ ctx[r].reason = None /\ r \notin limited
      /\ ctx[r].throttled = FALSE
  <2>1. ctx[r].throttled \in BOOLEAN
    BY <1>0 DEF Context
  <2>2. pc[r] \notin {"idle", "report", "publish", "mark"}
    BY <1>1 DEF TokenSteps
  <2>3. QED BY <1>0, <1>1, <2>1, <2>2 DEF RunOk, LimitOk, Announces
<1>3. SUFFICES \E x \in Steps, c \in Context : Moves(r, x, c) /\ x \notin Inserts /\ RunOk(x, c) /\ LimitOk(x, c, r \in limited)
  <2>1. PICK x \in Steps, c \in Context : Moves(r, x, c) /\ x \notin Inserts /\ RunOk(x, c) /\ LimitOk(x, c, r \in limited)
    BY <1>3
  <2>2. UNCHANGED <<objects, bronze, ready, health, limited, triggers>>
    BY <1>1 DEF dataVars
  <2>3. /\ health' \in [status : {None, "healthy", "stale"}, rate_limit_state : Posture]
        /\ limited' \subseteq Runs /\ triggers' \in 0..MaxTriggers
    BY <2>2, <1>0 DEF TypeOK
  <2>4. QED BY <2>1, <2>2, <2>3, <1>1, QuietStep
<1>4. CASE UNCHANGED ctx /\ \E x \in {"probe", "refresh", "recover", "recover previous", "persist"} : Goto(r, x)
  <2>1. PICK x \in {"probe", "refresh", "recover", "recover previous", "persist"} : Goto(r, x)
    BY <1>4
  <2>2. Moves(r, x, ctx[r])
    BY <1>0, <1>4, <2>1 DEF Moves, Goto
  <2>3. x \in Steps /\ x \notin Inserts
    BY <2>1 DEF Steps, TokenSteps, Inserts
  <2>4. RunOk(x, ctx[r])
    BY <2>1, <1>2 DEF RunOk, Inserts, Announces
  <2>5. LimitOk(x, ctx[r], r \in limited)
    BY <1>0, <1>2, <2>1 DEF LimitOk
  <2>6. QED BY <1>0, <2>2, <2>3, <2>4, <2>5
<1>5. CASE Escape(r)
  <2>1. Moves(r, "idle", NoContext)
    BY <1>5 DEF Escape, Goto, Moves
  <2>2. "idle" \in Steps /\ "idle" \notin Inserts
    BY DEF Steps, Inserts
  <2>3. LimitOk("idle", NoContext, r \in limited)
    BY <1>2, IdleIsOk DEF LimitOk
  <2>4. QED BY <2>1, <2>2, <2>3, IdleIsOk, NoContextType
<1>6. CASE \E y \in {"AUTH_FAILED", "VENDOR_UNAVAILABLE"} : Conclude(r, "auth_failed", y)
  <2>1. PICK y \in {"AUTH_FAILED", "VENDOR_UNAVAILABLE"} : Conclude(r, "auth_failed", y)
    BY <1>6
  <2>2. "auth_failed" \in Disposition /\ y \in Reason /\ y # "RATE_LIMITED"
    BY <2>1 DEF Disposition, Reason
  <2>3. PICK c \in Context :
             /\ Moves(r, "report", c) /\ c.key = ctx[r].key /\ c.content = ctx[r].content
             /\ c.throttled = ctx[r].throttled /\ c.row = ctx[r].row /\ c.outcome = "auth_failed" /\ c.reason = y
    BY <1>0, <2>1, <2>2, ConcludeMoves
  <2>4. RunOk("report", c)
    BY <1>2, <2>3, FailedIsOk DEF Good
  <2>5. LimitOk("report", c, r \in limited)
    BY <1>2, <2>2, <2>3 DEF LimitOk, TokenSteps
  <2>6. "report" \in Steps /\ "report" \notin Inserts
    BY DEF Steps, Inserts
  <2>7. QED BY <2>3, <2>4, <2>5, <2>6
<1>7. QED BY <1>1, <1>4, <1>5, <1>6 DEF AuthMoves, AuthFails

\* Steps outside the store that leave the rows and the health row alone.
LEMMA PlainStep ==
    ASSUME IInv, NEW r \in Runs, NEW x \in Steps, NEW c \in Context, Moves(r, x, c),
           UNCHANGED <<tokenVars, dataVars>>, ~Rotates(r), x \notin TokenSteps \ {"auth"}, x \notin Inserts,
           limited' \subseteq Runs, \A s \in Runs : s # r => (s \in limited' <=> s \in limited),
           triggers' \in 0..MaxTriggers, RunOk(x, c), LimitOk(x, c, r \in limited')
    PROVE  IInv'
<1>1. x \notin {"refresh", "recover", "recover previous", "persist"}
  BY DEF TokenSteps
<1>2. TokenTypeOK' /\ TokenInv'
  BY <1>1, PipelineFrame
<1>3. UNCHANGED <<objects, bronze, ready>> /\ health' \in [status : {None, "healthy", "stale"}, rate_limit_state : Posture]
  BY DEF IInv, TypeOK, dataVars
<1>4. QED BY <1>2, <1>3, QuietStep

LEMMA RunTriggerKeeps ==
    ASSUME IInv, NEW r \in Runs, RunTrigger(r)
    PROVE  IInv'
<1>0. TypeOK
  BY DEF IInv
<1>1. PICK k \in RunKeys : ctx' = [ctx EXCEPT ![r] = [NoContext EXCEPT !.key = k]]
  BY DEF RunTrigger
<1>2. PICK c : c = [NoContext EXCEPT !.key = k]
  OBVIOUS
<1>3. c.key = k /\ c.outcome = None /\ c.reason = None /\ c.throttled = FALSE
  BY <1>2 DEF NoContext
<1>4. c \in Context
  BY <1>0, <1>1, <1>2, ContextTypes
<1>5. Moves(r, "auth", c) /\ "auth" \in Steps /\ "auth" \notin TokenSteps \ {"auth"} /\ "auth" \notin Inserts
  BY <1>1, <1>2 DEF RunTrigger, Goto, Moves, Steps, TokenSteps, Inserts
<1>6. RunOk("auth", c)
  BY <1>1, <1>3 DEF RunOk, Inserts, Announces
<1>7. r \notin limited' /\ limited' \subseteq Runs /\ \A s \in Runs : s # r => (s \in limited' <=> s \in limited)
  BY <1>0 DEF RunTrigger, TypeOK
<1>8. LimitOk("auth", c, r \in limited')
  BY <1>3, <1>7, NoneIsNone DEF LimitOk, Reason
<1>9. triggers' \in 0..MaxTriggers
  BY <1>0, Bounds DEF RunTrigger, TypeOK
<1>10. UNCHANGED <<tokenVars, dataVars>> /\ ~Rotates(r)
  BY DEF RunTrigger, Rotates, Reads
<1>11. QED BY <1>4, <1>5, <1>6, <1>7, <1>8, <1>9, <1>10, PlainStep

\* The answers a request does not survive, and the ones it retries.
LEMMA RequestKeeps ==
    ASSUME IInv, NEW r \in Runs, pc[r] \in {"probe", "extract"}, NEW o \in {"auth_failed", "extract_failed"},
           Request(r, FALSE, o), UNCHANGED <<tokenVars, dataVars, triggers>>
    PROVE  IInv'
<1>0. /\ RunOk(pc[r], ctx[r]) /\ LimitOk(pc[r], ctx[r], r \in limited)
      /\ ctx[r] \in Context /\ ctx \in [Runs -> Context] /\ pc \in [Runs -> Steps] /\ TypeOK /\ limited \subseteq Runs
      /\ triggers' \in 0..MaxTriggers
  BY RunOkOf DEF TypeOK
<1>1. /\ ctx[r].key \in RunKeys /\ ctx[r].outcome = None /\ ctx[r].reason = None /\ ctx[r].throttled \in BOOLEAN
      /\ (r \in limited <=> ctx[r].throttled)
  <2>1. ctx[r].throttled \in BOOLEAN
    BY <1>0 DEF Context
  <2>2. ctx[r].reason = None /\ None # "RATE_LIMITED"
    BY <1>0, NoneIsNone DEF LimitOk, Reason
  <2>3. QED BY <1>0, <2>1, <2>2 DEF RunOk, LimitOk, Announces
<1>2. ~Rotates(r) /\ o \in Disposition /\ o \notin Good /\ o # "ingested"
  BY DEF Rotates, Reads, Disposition, Good
<1>3. /\ "report" \in Steps /\ "report" \notin TokenSteps /\ "report" \notin Inserts /\ pc[r] \in Steps
      /\ pc[r] \notin TokenSteps /\ pc[r] \notin Inserts /\ pc[r] # "report"
  BY DEF Steps, TokenSteps, Inserts
<1>a. ASSUME NEW y \in Reason, Conclude(r, o, y), limited' = (IF y = "RATE_LIMITED" THEN limited \cup {r} ELSE limited)
      PROVE  IInv'
  <2>1. PICK c \in Context :
             /\ Moves(r, "report", c) /\ c.key = ctx[r].key /\ c.content = ctx[r].content
             /\ c.throttled = ctx[r].throttled /\ c.row = ctx[r].row /\ c.outcome = o /\ c.reason = y
    BY <1>0, <1>2, <1>a, ConcludeMoves
  <2>2. RunOk("report", c)
    BY <1>1, <1>2, <2>1, FailedIsOk
  <2>3. limited' \subseteq Runs /\ \A s \in Runs : s # r => (s \in limited' <=> s \in limited)
    BY <1>0, <1>a
  <2>4. r \in limited' <=> c.throttled \/ c.reason = "RATE_LIMITED"
    BY <1>1, <1>a, <2>1
  <2>5. LimitOk("report", c, r \in limited')
    BY <2>4, <2>1, <1>2, <1>3 DEF LimitOk
  <2>6. QED BY <1>0, <1>2, <1>3, <2>1, <2>2, <2>3, <2>5, PlainStep
<1>b. ASSUME ~LastAttempt(r), NEW t \in BOOLEAN, UNCHANGED pc,
             ctx' = [ctx EXCEPT ![r] = [ctx[r] EXCEPT !.attempt = ctx[r].attempt + 1, !.throttled = t]],
             (t = ctx[r].throttled /\ limited' = limited) \/ (t = TRUE /\ limited' = limited \cup {r})
      PROVE  IInv'
  <2>1. PICK c : c = [ctx[r] EXCEPT !.attempt = ctx[r].attempt + 1, !.throttled = t]
    OBVIOUS
  <2>2. ctx[r].attempt + 1 \in 1..MaxAttempts
    BY <1>0, <1>b, Bounds DEF LastAttempt, Context
  <2>3. /\ c \in Context /\ c.key = ctx[r].key /\ c.throttled = t /\ c.outcome = ctx[r].outcome /\ c.reason = ctx[r].reason
    BY <1>0, <2>1, <2>2 DEF Context
  <2>4. Moves(r, pc[r], c)
    BY <1>0, <1>b, <2>1 DEF Moves
  <2>5. RunOk(pc[r], c)
    BY <1>1, <1>3, <2>3 DEF RunOk, Inserts, Announces
  <2>6. limited' \subseteq Runs /\ \A s \in Runs : s # r => (s \in limited' <=> s \in limited)
    BY <1>0, <1>b
  <2>7. None # "RATE_LIMITED"
    BY NoneIsNone DEF Reason
  <2>8. r \in limited' <=> c.throttled \/ c.reason = "RATE_LIMITED"
    BY <1>1, <1>b, <2>3, <2>7
  <2>9. LimitOk(pc[r], c, r \in limited')
    BY <2>8, <2>3, <1>1, <1>3 DEF LimitOk
  <2>10. QED BY <1>0, <1>2, <1>3, <2>3, <2>4, <2>5, <2>6, <2>9, PlainStep
<1>4. CASE Conclude(r, o, "AUTH_FAILED") /\ UNCHANGED limited
  BY <1>4, <1>a DEF Reason
<1>5. CASE LastAttempt(r) /\ Conclude(r, o, "RATE_LIMITED") /\ limited' = limited \cup {r}
  BY <1>5, <1>a DEF Reason
<1>6. CASE ~LastAttempt(r) /\ Absorb(r) /\ UNCHANGED pc /\ limited' = limited \cup {r}
  <2>1. ctx' = [ctx EXCEPT ![r] = [ctx[r] EXCEPT !.attempt = ctx[r].attempt + 1, !.throttled = TRUE]]
    BY <1>0, <1>6 DEF Absorb
  <2>2. QED BY <1>6, <2>1, <1>b
<1>7. CASE ~LastAttempt(r) /\ ctx' = [ctx EXCEPT ![r].attempt = @ + 1] /\ UNCHANGED <<pc, limited>>
  <2>0. PICK t \in BOOLEAN : t = ctx[r].throttled
    BY <1>1
  <2>1. [ctx[r] EXCEPT !.attempt = ctx[r].attempt + 1]
          = [ctx[r] EXCEPT !.attempt = ctx[r].attempt + 1, !.throttled = t]
    BY <1>0, <2>0 DEF Context
  <2>2. ctx' = [ctx EXCEPT ![r] = [ctx[r] EXCEPT !.attempt = ctx[r].attempt + 1]]
    BY <1>0, <1>7
  <2>3. ctx' = [ctx EXCEPT ![r] = [ctx[r] EXCEPT !.attempt = ctx[r].attempt + 1, !.throttled = t]]
    BY <2>1, <2>2
  <2>4. QED BY <1>7, <2>0, <2>3, <1>b
<1>8. CASE Conclude(r, o, "VENDOR_UNAVAILABLE") /\ UNCHANGED limited
  BY <1>8, <1>a DEF Reason
<1>9. \/ Conclude(r, o, "AUTH_FAILED") /\ UNCHANGED limited
      \/ LastAttempt(r) /\ Conclude(r, o, "RATE_LIMITED") /\ limited' = limited \cup {r}
      \/ ~LastAttempt(r) /\ Absorb(r) /\ UNCHANGED pc /\ limited' = limited \cup {r}
      \/ ~LastAttempt(r) /\ ctx' = [ctx EXCEPT ![r].attempt = @ + 1] /\ UNCHANGED <<pc, limited>>
      \/ Conclude(r, o, "VENDOR_UNAVAILABLE") /\ UNCHANGED limited
  BY DEF Request
<1>10. QED BY <1>4, <1>5, <1>6, <1>7, <1>8, <1>9

LEMMA ProbeExtractKeep ==
    ASSUME IInv, NEW r \in Runs, Probe(r) \/ Extract(r), UNCHANGED triggers
    PROVE  IInv'
<1>0. /\ RunOk(pc[r], ctx[r]) /\ LimitOk(pc[r], ctx[r], r \in limited) /\ limited \subseteq Runs
      /\ ctx[r] \in Context /\ ctx \in [Runs -> Context] /\ TypeOK /\ triggers' \in 0..MaxTriggers
      /\ pc[r] \in {"probe", "extract"} /\ UNCHANGED <<tokenVars, dataVars>> /\ ~Rotates(r)
  BY RunOkOf DEF TypeOK, Probe, Extract, Rotates, Reads
<1>1. CASE Request(r, FALSE, "auth_failed") \/ Request(r, FALSE, "extract_failed")
  BY <1>0, <1>1, RequestKeeps
<1>2. CASE Goto(r, "extract") /\ ctx' = [ctx EXCEPT ![r].attempt = 1] /\ UNCHANGED limited /\ pc[r] = "probe"
  <2>1. PICK c : c = [ctx[r] EXCEPT !.attempt = 1]
    OBVIOUS
  <2>2. c \in Context /\ c.key = ctx[r].key /\ c.throttled = ctx[r].throttled /\ c.outcome = ctx[r].outcome /\ c.reason = ctx[r].reason
    BY <1>0, <2>1, Bounds DEF Context
  <2>3. Moves(r, "extract", c)
    BY <1>0, <1>2, <2>1 DEF Moves, Goto
  <2>4. RunOk("extract", c) /\ LimitOk("extract", c, r \in limited')
    BY <1>0, <1>2, <2>2 DEF RunOk, LimitOk, Inserts, Announces, TokenSteps
  <2>5. "extract" \in Steps /\ "extract" \notin TokenSteps /\ "extract" \notin Inserts
    BY DEF Steps, TokenSteps, Inserts
  <2>6. QED BY <1>0, <1>2, <2>2, <2>3, <2>4, <2>5, PlainStep
<1>3. CASE pc[r] = "extract" /\ Goto(r, "lookup") /\ UNCHANGED limited
           /\ \E d \in Contents : ctx' = [ctx EXCEPT ![r].attempt = 1, ![r].content = d]
  <2>0. PICK d \in Contents : ctx' = [ctx EXCEPT ![r].attempt = 1, ![r].content = d]
    BY <1>3
  <2>1. PICK c : c = [ctx[r] EXCEPT !.attempt = 1, !.content = d]
    OBVIOUS
  <2>a. d \in Contents \cup {None} /\ 1 \in 1..MaxAttempts
    BY <2>0, Bounds
  <2>2. /\ c \in Context /\ c.key = ctx[r].key /\ c.throttled = ctx[r].throttled /\ c.outcome = ctx[r].outcome
        /\ c.reason = ctx[r].reason /\ c.content = d
    BY <1>0, <2>a, <2>1 DEF Context
  <2>3. Moves(r, "lookup", c)
    BY <1>0, <1>3, <2>0, <2>1 DEF Moves, Goto
  <2>4. RunOk("lookup", c) /\ LimitOk("lookup", c, r \in limited')
    BY <1>0, <1>3, <2>2 DEF RunOk, LimitOk, Inserts, Announces, TokenSteps
  <2>5. "lookup" \in Steps /\ "lookup" \notin TokenSteps /\ "lookup" \notin Inserts
    BY DEF Steps, TokenSteps, Inserts
  <2>6. QED BY <1>0, <1>3, <2>2, <2>3, <2>4, <2>5, PlainStep
<1>4. QED
  <2>1. CASE Probe(r)
    BY <1>1, <1>2, <2>1 DEF Probe, Request
  <2>2. CASE Extract(r)
    BY <1>1, <1>3, <2>2 DEF Extract, Request
  <2>3. QED BY <2>1, <2>2

LEMMA LookupKeeps ==
    ASSUME IInv, NEW r \in Runs, Lookup(r), UNCHANGED triggers
    PROVE  IInv'
<1>0. /\ RunOk(pc[r], ctx[r]) /\ LimitOk(pc[r], ctx[r], r \in limited) /\ limited' \subseteq Runs /\ limited' = limited
      /\ ctx[r] \in Context /\ ctx \in [Runs -> Context] /\ TypeOK /\ triggers' \in 0..MaxTriggers
      /\ pc[r] = "lookup" /\ UNCHANGED <<tokenVars, dataVars>> /\ ~Rotates(r) /\ RowsOk
  BY RunOkOf DEF TypeOK, Lookup, Rotates, Reads, RunInv
<1>1. /\ ctx[r].key \in RunKeys /\ ctx[r].content \in Contents /\ ctx[r].outcome = None /\ ctx[r].reason = None
      /\ ctx[r].throttled \in BOOLEAN /\ (r \in limited <=> ctx[r].throttled)
  <2>1. ctx[r].throttled \in BOOLEAN
    BY <1>0 DEF Context
  <2>2. ctx[r].reason = None /\ None # "RATE_LIMITED"
    BY <1>0, NoneIsNone DEF LimitOk, Reason
  <2>3. QED BY <1>0, <2>1, <2>2 DEF RunOk, LimitOk, Announces
<1>2. None # "RATE_LIMITED"
  BY NoneIsNone DEF Reason
<1>3. \A x \in {"preflight", "publish", "report"} : x \in Steps /\ x \notin TokenSteps /\ x \notin Inserts
  BY DEF Steps, TokenSteps, Inserts
<1>4. CASE Goto(r, "preflight") /\ UNCHANGED ctx
  <2>1. Moves(r, "preflight", ctx[r])
    BY <1>0, <1>4 DEF Moves, Goto
  <2>2. RunOk("preflight", ctx[r]) /\ LimitOk("preflight", ctx[r], r \in limited')
    BY <1>0, <1>1, <1>3 DEF RunOk, LimitOk, Inserts, Announces
  <2>3. QED BY <1>0, <1>3, <2>1, <2>2, PlainStep
<1>5. CASE \E i \in Ids :
            /\ IsPrior(i, r)
            /\ IF Concluded(i)
               THEN Conclude(r, "duplicate_noop", None)
               ELSE /\ ctx' = [ctx EXCEPT ![r].row = i, ![r].outcome = "duplicate_resumed"]
                    /\ Goto(r, "publish")
  <2>1. PICK i \in Ids :
            /\ IsPrior(i, r)
            /\ IF Concluded(i)
               THEN Conclude(r, "duplicate_noop", None)
               ELSE /\ ctx' = [ctx EXCEPT ![r].row = i, ![r].outcome = "duplicate_resumed"]
                    /\ Goto(r, "publish")
    BY <1>5
  <2>2. /\ bronze[i] # None /\ bronze[i].key = ctx[r].key /\ bronze[i].sha = ctx[r].content
        /\ objects[i] = bronze[i].sha /\ (bronze[i].published => i \in ready)
        /\ bronze[i].status \in {"RECEIVED", "FAILED"}
    BY <1>0, <2>1 DEF IsPrior, Priors, RowsOk, TypeOK, BronzeRow
  <2>3. CASE Concluded(i)
    <3>1. "duplicate_noop" \in Disposition /\ None \in Reason \cup {None} /\ Conclude(r, "duplicate_noop", None)
      BY <2>1, <2>3 DEF Disposition
    <3>2. PICK c \in Context :
             /\ Moves(r, "report", c) /\ c.key = ctx[r].key /\ c.content = ctx[r].content
             /\ c.throttled = ctx[r].throttled /\ c.row = ctx[r].row /\ c.outcome = "duplicate_noop" /\ c.reason = None
      BY <1>0, <3>1, ConcludeMoves
    <3>3. Settled(c)
      BY <2>1, <2>2, <2>3, <3>2 DEF Settled, Announced, Concluded
    <3>4. RunOk("report", c)
      BY <3>2, <3>3, <1>1 DEF RunOk, Inserts, Announces
    <3>5. LimitOk("report", c, r \in limited')
      BY <1>0, <1>1, <1>2, <1>3, <3>2 DEF LimitOk
    <3>6. QED BY <1>0, <1>3, <3>2, <3>4, <3>5, PlainStep
  <2>4. CASE ~Concluded(i)
    <3>1. PICK c : c = [ctx[r] EXCEPT !.row = i, !.outcome = "duplicate_resumed"]
      OBVIOUS
    <3>2. /\ c \in Context /\ c.key = ctx[r].key /\ c.content = ctx[r].content /\ c.throttled = ctx[r].throttled
          /\ c.row = i /\ c.outcome = "duplicate_resumed" /\ c.reason = ctx[r].reason
      BY <1>0, <3>1 DEF Context, Disposition
    <3>3. Moves(r, "publish", c)
      BY <1>0, <2>1, <2>4, <3>1 DEF Moves, Goto
    <3>4. Announced(i, c)
      BY <2>2, <2>4, <3>2 DEF Announced, Concluded
    <3>5. RunOk("publish", c)
      BY <3>2, <3>4, <1>1 DEF RunOk, Inserts, Announces
    <3>6. LimitOk("publish", c, r \in limited')
      BY <1>0, <1>1, <1>2, <1>3, <3>2 DEF LimitOk
    <3>7. QED BY <1>0, <1>3, <3>2, <3>3, <3>5, <3>6, PlainStep
  <2>5. QED BY <2>3, <2>4
<1>6. QED BY <1>4, <1>5 DEF Lookup

LEMMA PreflightKeeps ==
    ASSUME IInv, NEW r \in Runs, Preflight(r), UNCHANGED triggers
    PROVE  IInv'
<1>0. /\ RunOk(pc[r], ctx[r]) /\ LimitOk(pc[r], ctx[r], r \in limited) /\ limited' \subseteq Runs /\ limited' = limited
      /\ ctx[r] \in Context /\ ctx \in [Runs -> Context] /\ TypeOK /\ triggers' \in 0..MaxTriggers
      /\ pc[r] = "preflight" /\ UNCHANGED <<tokenVars, dataVars>> /\ ~Rotates(r)
  BY RunOkOf DEF TypeOK, Preflight, Rotates, Reads
<1>1. PICK x \in {"upload", "fail upload"} : pc' = [pc EXCEPT ![r] = x]
  BY DEF Preflight, Goto
<1>2. x \in Steps /\ x \notin TokenSteps /\ x \notin Inserts
  BY <1>1 DEF Steps, TokenSteps, Inserts
<1>3. Moves(r, x, ctx[r])
  BY <1>0, <1>1 DEF Moves, Preflight
<1>4. RunOk(x, ctx[r]) /\ LimitOk(x, ctx[r], r \in limited')
  BY <1>0, <1>1, <1>2 DEF RunOk, LimitOk, Inserts, Announces
<1>5. QED BY <1>0, <1>2, <1>3, <1>4, PlainStep

\* What an emit stores; the two cases of RateLimitState exclude each other.
LEMMA UpsertedIs ==
    ASSUME TypeOK, NEW c \in Context, c.outcome = "ingested" => c.reason = None
    PROVE  /\ Upserted(c) \in [status : {None, "healthy", "stale"}, rate_limit_state : Posture]
           /\ Upserted(c).rate_limit_state =
                IF c.outcome = "ingested" THEN (IF c.throttled THEN "throttled" ELSE None)
                ELSE IF c.reason = "RATE_LIMITED" THEN "exhausted" ELSE health.rate_limit_state
<1>0. health \in [status : {None, "healthy", "stale"}, rate_limit_state : Posture]
  BY DEF TypeOK
<1>1. \A x : (CHOOSE s \in {x} : TRUE) = x
  OBVIOUS
<1>a. c.outcome = "ingested" => c.reason # "RATE_LIMITED"
  BY NoneIsNone DEF Reason
<1>2. PICK p : p = Upserted(c).rate_limit_state
  OBVIOUS
<1>3. p = IF RateLimitState(c) = {} THEN health.rate_limit_state ELSE CHOOSE s \in RateLimitState(c) : TRUE
  BY <1>2 DEF Upserted
<1>4. CASE c.outcome = "ingested"
  <2>1. CASE c.throttled
    <3>1. RateLimitState(c) = {"throttled"}
      BY <1>a, <1>4, <2>1 DEF RateLimitState
    <3>2. p = "throttled"
      BY <1>1, <1>3, <3>1
    <3>3. QED BY <1>2, <1>4, <2>1, <3>2 DEF Upserted, Posture
  <2>2. CASE ~c.throttled
    <3>1. RateLimitState(c) = {None}
      BY <1>a, <1>4, <2>2 DEF RateLimitState
    <3>2. p = None
      BY <1>1, <1>3, <3>1
    <3>3. QED BY <1>2, <1>4, <2>2, <3>2 DEF Upserted, Posture
  <2>3. QED BY <2>1, <2>2
<1>5. CASE c.outcome # "ingested" /\ c.reason = "RATE_LIMITED"
  <2>1. RateLimitState(c) = {"exhausted"}
    BY <1>5 DEF RateLimitState
  <2>2. p = "exhausted"
    BY <1>1, <1>3, <2>1
  <2>3. QED BY <1>2, <1>5, <2>2 DEF Upserted, Posture
<1>6. CASE c.outcome # "ingested" /\ c.reason # "RATE_LIMITED"
  <2>1. RateLimitState(c) = {}
    BY <1>6 DEF RateLimitState
  <2>2. p = health.rate_limit_state
    BY <1>3, <2>1
  <2>3. QED BY <1>0, <1>2, <1>6, <2>2 DEF Upserted
<1>7. QED BY <1>4, <1>5, <1>6

LEMMA ReportKeeps ==
    ASSUME IInv, NEW r \in Runs, Report(r), UNCHANGED triggers
    PROVE  IInv'
<1>0. /\ RunOk(pc[r], ctx[r]) /\ LimitOk(pc[r], ctx[r], r \in limited) /\ limited' = limited \ {r}
      /\ ctx[r] \in Context /\ ctx \in [Runs -> Context] /\ TypeOK /\ triggers' \in 0..MaxTriggers /\ limited \subseteq Runs
      /\ pc[r] = "report" /\ UNCHANGED <<tokenVars, objects, bronze, ready>> /\ ~Rotates(r)
  BY RunOkOf DEF TypeOK, Report, Rotates, Reads
<1>1. health' \in [status : {None, "healthy", "stale"}, rate_limit_state : Posture]
  BY <1>0, UpsertedIs DEF Report, TypeOK, LimitOk
<1>2. PICK c : c = [ctx[r] EXCEPT !.throttled = FALSE, !.row = None, !.reason = None, !.attempt = 1]
  OBVIOUS
<1>3. /\ c \in Context /\ c.key = ctx[r].key /\ c.content = ctx[r].content /\ c.throttled = FALSE
      /\ c.outcome = ctx[r].outcome /\ c.reason = None
  <2>1. 1 \in 1..MaxAttempts /\ None \in Ids \cup {None} /\ None \in Reason \cup {None} /\ FALSE \in BOOLEAN
    BY Bounds
  <2>2. QED BY <1>0, <1>2, <2>1 DEF Context
<1>4. Moves(r, "idle", c)
  BY <1>0, <1>2 DEF Report, Goto, Moves
<1>5. ctx[r].outcome \in Good => Settled(ctx[r])
  BY <1>0 DEF RunOk
<1>6. c.outcome \in Good => Settled(c)
  BY <1>3, <1>5 DEF Settled, Announced
<1>7. RunOk("idle", c)
  BY <1>6 DEF RunOk, Inserts, Announces
<1>8. limited' \subseteq Runs /\ r \notin limited' /\ \A s \in Runs : s # r => (s \in limited' <=> s \in limited)
  BY <1>0
<1>9. LimitOk("idle", c, r \in limited')
  BY <1>3, <1>8, NoneIsNone DEF LimitOk, TokenSteps, Reason
<1>10. "idle" \in Steps /\ "idle" \notin Inserts /\ "idle" \notin {"refresh", "recover", "recover previous", "persist"}
  BY DEF Steps, Inserts
<1>11. TokenTypeOK' /\ TokenInv'
  BY <1>0, <1>3, <1>4, <1>10, PipelineFrame
<1>12. QED BY <1>0, <1>1, <1>3, <1>4, <1>7, <1>8, <1>9, <1>10, <1>11, QuietStep

LEMMA CrashKeeps ==
    ASSUME IInv, NEW r \in Runs, Crash(r), UNCHANGED triggers
    PROVE  IInv'
<1>0. /\ TypeOK /\ TokenInv /\ limited' = limited \ {r} /\ limited \subseteq Runs /\ triggers' \in 0..MaxTriggers
      /\ UNCHANGED <<vendor, issued, live, recoverable, vault, age, objects, bronze, ready, health>>
      /\ held' = [held EXCEPT ![r] = None] /\ Escape(r)
      /\ health' \in [status : {None, "healthy", "stale"}, rate_limit_state : Posture]
  BY DEF IInv, TypeOK, TokenInv, Crash, Drop, grantVars, dataVars
<1>1. Moves(r, "idle", NoContext)
  BY <1>0 DEF Escape, Goto, Moves
<1>2. "idle" \in Steps /\ "idle" \notin Inserts
  BY DEF Steps, Inserts
<1>3. limited' \subseteq Runs /\ r \notin limited' /\ \A s \in Runs : s # r => (s \in limited' <=> s \in limited)
  BY <1>0
<1>4. pc'[r] = "idle" /\ \A s \in Runs : s # r => pc'[s] = pc[s]
  BY <1>0, <1>1, <1>2, NoContextType, MovesPointwise
<1>5. TokenInv'
  BY <1>0, <1>4, DropKeepsChain
<1>6. TokenTypeOK'
  BY <1>0 DEF TypeOK, TokenTypeOK
<1>7. RunOk("idle", NoContext) /\ LimitOk("idle", NoContext, r \in limited')
  BY <1>3, IdleIsOk DEF LimitOk
<1>8. QED BY <1>0, <1>1, <1>2, <1>3, <1>5, <1>6, <1>7, NoContextType, QuietStep

\* The facts the steps that write share.
LEMMA WriterFacts ==
    ASSUME IInv, NEW r \in Runs
    PROVE  /\ RunOk(pc[r], ctx[r]) /\ LimitOk(pc[r], ctx[r], r \in limited)
           /\ ctx[r] \in Context /\ ctx \in [Runs -> Context] /\ pc \in [Runs -> Steps] /\ TypeOK /\ RowsOk /\ Apart
           /\ objects \in [Ids -> Contents \cup {None}] /\ bronze \in [Ids -> BronzeRow \cup {None}] /\ ready \subseteq Ids
           /\ \A i \in Ids : bronze[i] # None => bronze[i] \in BronzeRow /\ objects[i] # None
           /\ \A s \in Runs : pc[s] \in Inserts =>
                ctx[s].row \in Ids /\ bronze[ctx[s].row] = None /\ objects[ctx[s].row] # None
<1>1. /\ RunOk(pc[r], ctx[r]) /\ LimitOk(pc[r], ctx[r], r \in limited)
      /\ ctx[r] \in Context /\ ctx \in [Runs -> Context] /\ pc \in [Runs -> Steps] /\ TypeOK /\ RowsOk /\ Apart
      /\ objects \in [Ids -> Contents \cup {None}] /\ bronze \in [Ids -> BronzeRow \cup {None}] /\ ready \subseteq Ids
  BY RunOkOf DEF TypeOK, RunInv
<1>2. \A i \in Ids : bronze[i] # None => bronze[i] \in BronzeRow /\ objects[i] # None
  BY <1>1, NoneIsNone DEF RowsOk, BronzeRow
<1>3. \A s \in Runs : pc[s] \in Inserts =>
         ctx[s].row \in Ids /\ bronze[ctx[s].row] = None /\ objects[ctx[s].row] # None
  BY NoneIsNone DEF IInv, RunInv, RunOk
<1>4. QED BY <1>1, <1>2, <1>3

LEMMA UploadKeeps ==
    ASSUME IInv, NEW r \in Runs, Upload(r), UNCHANGED triggers
    PROVE  IInv'
<1>0. /\ RunOk(pc[r], ctx[r]) /\ LimitOk(pc[r], ctx[r], r \in limited)
      /\ ctx[r] \in Context /\ ctx \in [Runs -> Context] /\ pc \in [Runs -> Steps] /\ TypeOK /\ RowsOk /\ Apart
      /\ objects \in [Ids -> Contents \cup {None}] /\ bronze \in [Ids -> BronzeRow \cup {None}] /\ ready \subseteq Ids
      /\ \A i \in Ids : bronze[i] # None => bronze[i] \in BronzeRow /\ objects[i] # None
      /\ \A s \in Runs : pc[s] \in Inserts =>
           ctx[s].row \in Ids /\ bronze[ctx[s].row] = None /\ objects[ctx[s].row] # None
  BY WriterFacts
<1>1. /\ pc[r] \in {"upload", "fail upload"} /\ ~Rotates(r)
      /\ UNCHANGED <<tokenVars, bronze, ready, health, limited, triggers>>
  BY DEF Upload, Rotates, Reads
<1>2. PICK i \in Ids :
         /\ objects[i] = None
         /\ objects' = [objects EXCEPT ![i] = ctx[r].content]
         /\ ctx' = [ctx EXCEPT ![r].row = i]
  BY DEF Upload
<1>3. PICK x \in Inserts : pc' = [pc EXCEPT ![r] = x]
  BY DEF Upload, Goto, Inserts
<1>4. x \in Steps /\ x \notin TokenSteps /\ x \notin {"refresh", "recover", "recover previous", "persist"}
      /\ x \notin Announces /\ x \notin {"idle", "report", "mark"}
  BY <1>3 DEF Inserts, Steps, TokenSteps, Announces
<1>5. PICK c : c = [ctx[r] EXCEPT !.row = i]
  OBVIOUS
<1>6. /\ c \in Context /\ c.key = ctx[r].key /\ c.content = ctx[r].content /\ c.throttled = ctx[r].throttled
      /\ c.row = i /\ c.outcome = ctx[r].outcome /\ c.reason = ctx[r].reason
  BY <1>0, <1>5 DEF Context
<1>7. Moves(r, x, c)
  BY <1>0, <1>2, <1>3, <1>5 DEF Moves
<1>8. ctx[r].key \in RunKeys /\ ctx[r].content \in Contents /\ ctx[r].outcome = None
  BY <1>0, <1>1 DEF RunOk, Announces
<1>9. objects'[i] = ctx[r].content /\ \A j \in Ids : j # i => objects'[j] = objects[j]
  BY <1>0, <1>2
<1>10. bronze[i] = None
  BY <1>0, <1>2
<1>11. Grows
  BY <1>1, <1>2, <1>9 DEF Grows
<1>12. RowsOk'
  BY <1>0, <1>1, <1>2, <1>9 DEF RowsOk
<1>13. Apart'
  <2>1. /\ pc'[r] = x /\ ctx'[r] = c /\ \A s \in Runs : s # r => pc'[s] = pc[s] /\ ctx'[s] = ctx[s]
    BY <1>0, <1>4, <1>6, <1>7, MovesPointwise
  <2>2. \A s \in Runs : pc[s] \in Inserts => ctx[s].row # i
    BY <1>0, <1>2
  <2>3. QED BY <1>0, <1>6, <2>1, <2>2 DEF Apart
<1>14. RunOk(x, c)'
  BY <1>1, <1>3, <1>4, <1>6, <1>8, <1>9, <1>10 DEF RunOk
<1>15. LimitOk(x, c, r \in limited)
  BY <1>0, <1>1, <1>4, <1>6 DEF LimitOk
<1>16. objects' \in [Ids -> Contents \cup {None}] /\ bronze' \in [Ids -> BronzeRow \cup {None}] /\ ready' \subseteq Ids
  BY <1>0, <1>1, <1>2, <1>8
<1>17. \A s \in Runs : s # r /\ pc[s] \in Inserts => bronze'[ctx[s].row] = None
  BY <1>0, <1>1
<1>18. QED BY <1>1, <1>4, <1>6, <1>7, <1>11, <1>12, <1>13, <1>14, <1>15, <1>16, <1>17, GrowingStep

\* A run that has inserted no longer stands in another's way.
LEMMA ApartStays ==
    ASSUME TypeOK, Apart, NEW r \in Runs, NEW x \in Steps, NEW c \in Context, Moves(r, x, c), x \notin Inserts
    PROVE  Apart'
<1>1. pc'[r] = x /\ \A s \in Runs : s # r => pc'[s] = pc[s] /\ ctx'[s] = ctx[s]
  BY MovesPointwise
<1>2. QED BY <1>1 DEF Apart

LEMMA InsertsKeep ==
    ASSUME IInv, NEW r \in Runs, Insert(r) \/ InsertFailed(r), UNCHANGED triggers
    PROVE  IInv'
<1>0. /\ RunOk(pc[r], ctx[r]) /\ LimitOk(pc[r], ctx[r], r \in limited)
      /\ ctx[r] \in Context /\ ctx \in [Runs -> Context] /\ pc \in [Runs -> Steps] /\ TypeOK /\ RowsOk /\ Apart
      /\ objects \in [Ids -> Contents \cup {None}] /\ bronze \in [Ids -> BronzeRow \cup {None}] /\ ready \subseteq Ids
      /\ \A i \in Ids : bronze[i] # None => bronze[i] \in BronzeRow /\ objects[i] # None
      /\ \A s \in Runs : pc[s] \in Inserts =>
           ctx[s].row \in Ids /\ bronze[ctx[s].row] = None /\ objects[ctx[s].row] # None
  BY WriterFacts
<1>1. /\ pc[r] \in Inserts /\ ~Rotates(r) /\ pc[r] # "report"
      /\ UNCHANGED <<tokenVars, objects, ready, health, limited, triggers>>
  BY DEF Insert, InsertFailed, Rotates, Reads, Inserts
<1>2. /\ ctx[r].key \in RunKeys /\ ctx[r].content \in Contents /\ ctx[r].outcome = None /\ ctx[r].row \in Ids
      /\ bronze[ctx[r].row] = None /\ objects[ctx[r].row] = ctx[r].content /\ ctx[r].reason = None
  BY <1>0, <1>1 DEF RunOk, LimitOk, Inserts, Announces
<1>3. PICK x \in {"publish", "report"}, status \in {"RECEIVED", "FAILED"}, o \in {"ingested", "preflight_failed"} :
        /\ pc' = [pc EXCEPT ![r] = x]
        /\ bronze' = [bronze EXCEPT ![ctx[r].row] = Row(r, status)]
        /\ ctx' = [ctx EXCEPT ![r] = [ctx[r] EXCEPT !.outcome = o]]
        /\ x = "publish" <=> o = "ingested"
        /\ x = "publish" => status = "RECEIVED"
  <2>1. CASE Insert(r)
    BY <1>0, <2>1 DEF Insert, Goto
  <2>2. CASE InsertFailed(r)
    <3>1. [ctx[r] EXCEPT !.outcome = "preflight_failed", !.reason = None] = [ctx[r] EXCEPT !.outcome = "preflight_failed"]
      BY <1>0, <1>2 DEF Context
    <3>2. ctx' = [ctx EXCEPT ![r] = [ctx[r] EXCEPT !.outcome = "preflight_failed", !.reason = None]]
      BY <1>0, <2>2 DEF InsertFailed, Conclude
    <3>3. QED BY <2>2, <3>1, <3>2 DEF InsertFailed, Conclude, Goto
  <2>3. QED BY <2>1, <2>2
<1>4. x \in Steps /\ x \notin TokenSteps /\ x \notin Inserts /\ x \notin {"refresh", "recover", "recover previous", "persist"}
  BY <1>3 DEF Inserts, Steps, TokenSteps
<1>5. PICK c : c = [ctx[r] EXCEPT !.outcome = o]
  OBVIOUS
<1>6. /\ c \in Context /\ c.key = ctx[r].key /\ c.content = ctx[r].content /\ c.throttled = ctx[r].throttled
      /\ c.row = ctx[r].row /\ c.outcome = o /\ c.reason = None
  BY <1>0, <1>2, <1>3, <1>5 DEF Context, Disposition
<1>7. Moves(r, x, c)
  BY <1>3, <1>5 DEF Moves
<1>8. PICK i \in Ids, b \in BronzeRow :
        /\ i = ctx[r].row /\ bronze' = [bronze EXCEPT ![i] = b] /\ b # None
        /\ b.key = c.key /\ b.sha = c.content /\ b.status = status /\ b.published = FALSE
  <2>1. PICK b : b = Row(r, status)
    OBVIOUS
  <2>2. b = [key |-> ctx[r].key, sha |-> ctx[r].content, status |-> status, published |-> FALSE]
    BY <2>1 DEF Row
  <2>3. b.key = c.key /\ b.sha = c.content /\ b.status = status /\ b.published = FALSE
    BY <1>6, <2>2
  <2>4. b \in BronzeRow
    BY <1>2, <1>3, <2>2 DEF BronzeRow
  <2>5. bronze' = [bronze EXCEPT ![ctx[r].row] = b]
    BY <1>3, <2>1
  <2>6. QED BY <1>2, <2>3, <2>4, <2>5, NoneIsNone
<1>9. bronze'[i] = b /\ \A j \in Ids : j # i => bronze'[j] = bronze[j]
  BY <1>0, <1>8
<1>10. Grows
  BY <1>1, <1>2, <1>8, <1>9 DEF Grows
<1>11. RowsOk'
  BY <1>0, <1>1, <1>2, <1>6, <1>8, <1>9 DEF RowsOk
<1>12. Apart'
  BY <1>0, <1>4, <1>6, <1>7, ApartStays
<1>13. RunOk(x, c)'
  <2>1. x = "publish" => Announced(c.row, c)'
    BY <1>1, <1>2, <1>3, <1>6, <1>8, <1>9 DEF Announced
  <2>2. x = "report" => c.outcome \notin Good
    BY <1>3, <1>6 DEF Good
  <2>3. c.key \in RunKeys /\ c.content \in Contents /\ (x = "publish" => c.outcome = "ingested")
    BY <1>2, <1>3, <1>6
  <2>4. QED BY <1>3, <2>1, <2>2, <2>3 DEF RunOk, Inserts, Announces
<1>14. LimitOk(x, c, r \in limited)
  <2>1. ctx[r].reason = c.reason
    BY <1>2, <1>6
  <2>2. QED BY <1>0, <1>1, <1>4, <1>6, <2>1 DEF LimitOk
<1>15. bronze' \in [Ids -> BronzeRow \cup {None}] /\ objects' \in [Ids -> Contents \cup {None}] /\ ready' \subseteq Ids
  BY <1>0, <1>1, <1>8
<1>16. \A s \in Runs : s # r /\ pc[s] \in Inserts => bronze'[ctx[s].row] = None
  BY <1>0, <1>1, <1>8, <1>9 DEF Apart
<1>17. QED BY <1>1, <1>4, <1>6, <1>7, <1>10, <1>11, <1>12, <1>13, <1>14, <1>15, <1>16, GrowingStep

LEMMA PublishKeeps ==
    ASSUME IInv, NEW r \in Runs, Publish(r), UNCHANGED triggers
    PROVE  IInv'
<1>0. /\ RunOk(pc[r], ctx[r]) /\ LimitOk(pc[r], ctx[r], r \in limited)
      /\ ctx[r] \in Context /\ ctx \in [Runs -> Context] /\ pc \in [Runs -> Steps] /\ TypeOK /\ RowsOk /\ Apart
      /\ objects \in [Ids -> Contents \cup {None}] /\ bronze \in [Ids -> BronzeRow \cup {None}] /\ ready \subseteq Ids
      /\ \A i \in Ids : bronze[i] # None => bronze[i] \in BronzeRow /\ objects[i] # None
      /\ \A s \in Runs : pc[s] \in Inserts =>
           ctx[s].row \in Ids /\ bronze[ctx[s].row] = None /\ objects[ctx[s].row] # None
  BY WriterFacts
<1>1. /\ pc[r] = "publish" /\ ~Rotates(r) /\ ready' = ready \cup {ctx[r].row}
      /\ UNCHANGED <<tokenVars, objects, bronze, health, limited, triggers>>
  BY DEF Publish, Rotates, Reads
<1>2. PICK c \in Context : c = ctx[r]
  BY <1>0
<1>3. Moves(r, "mark", c)
  BY <1>0, <1>2 DEF Publish, Goto, Moves
<1>4. /\ "mark" \in Steps /\ "mark" \notin Inserts /\ "mark" \notin TokenSteps
      /\ "mark" \notin {"refresh", "recover", "recover previous", "persist"}
  BY DEF Inserts, Steps, TokenSteps
<1>5. /\ Announced(c.row, c) /\ c.outcome \in {"ingested", "duplicate_resumed"} /\ c.key \in RunKeys
      /\ c.content \in Contents /\ c.row \in Ids
  BY <1>0, <1>1, <1>2 DEF RunOk, Announces, Announced
<1>6. Grows
  BY <1>1 DEF Grows
<1>7. RowsOk'
  BY <1>0, <1>1 DEF RowsOk
<1>8. Apart'
  BY <1>0, <1>3, <1>4, ApartStays
<1>9. RunOk("mark", c)'
  <2>1. Announced(c.row, c)'
    BY <1>1, <1>5 DEF Announced
  <2>2. c.row \in ready'
    BY <1>1, <1>2
  <2>3. QED BY <1>5, <2>1, <2>2 DEF RunOk, Inserts, Announces
<1>10. LimitOk("mark", c, r \in limited)
  BY <1>0, <1>1, <1>2, <1>4 DEF LimitOk
<1>11. bronze' \in [Ids -> BronzeRow \cup {None}] /\ objects' \in [Ids -> Contents \cup {None}] /\ ready' \subseteq Ids
  BY <1>0, <1>1, <1>2, <1>5
<1>12. \A s \in Runs : s # r /\ pc[s] \in Inserts => bronze'[ctx[s].row] = None
  BY <1>0, <1>1
<1>13. QED BY <1>1, <1>3, <1>4, <1>6, <1>7, <1>8, <1>9, <1>10, <1>11, <1>12, GrowingStep

LEMMA MarkPublishedKeeps ==
    ASSUME IInv, NEW r \in Runs, MarkPublished(r), UNCHANGED triggers
    PROVE  IInv'
<1>0. /\ RunOk(pc[r], ctx[r]) /\ LimitOk(pc[r], ctx[r], r \in limited)
      /\ ctx[r] \in Context /\ ctx \in [Runs -> Context] /\ pc \in [Runs -> Steps] /\ TypeOK /\ RowsOk /\ Apart
      /\ objects \in [Ids -> Contents \cup {None}] /\ bronze \in [Ids -> BronzeRow \cup {None}] /\ ready \subseteq Ids
      /\ \A i \in Ids : bronze[i] # None => bronze[i] \in BronzeRow /\ objects[i] # None
      /\ \A s \in Runs : pc[s] \in Inserts =>
           ctx[s].row \in Ids /\ bronze[ctx[s].row] = None /\ objects[ctx[s].row] # None
  BY WriterFacts
<1>1. /\ pc[r] = "mark" /\ ~Rotates(r) /\ bronze' = [bronze EXCEPT ![ctx[r].row].published = TRUE]
      /\ UNCHANGED <<tokenVars, objects, ready, health, limited, triggers>>
  BY DEF MarkPublished, Rotates, Reads
<1>2. PICK c \in Context : c = ctx[r]
  BY <1>0
<1>3. Moves(r, "report", c)
  BY <1>0, <1>2 DEF MarkPublished, Goto, Moves
<1>4. /\ "report" \in Steps /\ "report" \notin Inserts /\ "report" \notin TokenSteps
      /\ "report" \notin {"refresh", "recover", "recover previous", "persist"}
  BY DEF Inserts, Steps, TokenSteps
<1>5. /\ Announced(c.row, c) /\ c.key \in RunKeys /\ c.row \in Ids /\ c.row \in ready
  BY <1>0, <1>1, <1>2 DEF RunOk, Announces, Announced
<1>6. PICK i \in Ids : i = c.row
  BY <1>5
<1>7. bronze[i] # None /\ bronze[i] \in BronzeRow
  BY <1>0, <1>5, <1>6 DEF Announced
<1>8. PICK b \in BronzeRow : /\ bronze' = [bronze EXCEPT ![i] = b] /\ b # None /\ b.key = bronze[i].key
                             /\ b.sha = bronze[i].sha /\ b.status = bronze[i].status
  <2>1. PICK b : b = [bronze[i] EXCEPT !.published = TRUE]
    OBVIOUS
  <2>2. b \in BronzeRow /\ b.key = bronze[i].key /\ b.sha = bronze[i].sha /\ b.status = bronze[i].status
    BY <1>7, <2>1 DEF BronzeRow
  <2>3. bronze' = [bronze EXCEPT ![i] = b]
    BY <1>0, <1>1, <1>2, <1>6, <2>1
  <2>4. QED BY <2>2, <2>3, NoneIsNone
<1>9. bronze'[i] = b /\ \A j \in Ids : j # i => bronze'[j] = bronze[j]
  BY <1>0, <1>8
<1>10. Grows
  BY <1>1, <1>8, <1>9 DEF Grows
<1>11. RowsOk'
  <2>1. objects[i] = b.sha /\ i \in ready
    BY <1>0, <1>5, <1>6, <1>7, <1>8 DEF RowsOk
  <2>2. ASSUME NEW j \in Ids, bronze'[j] # None
        PROVE  objects'[j] = bronze'[j].sha /\ (bronze'[j].published => j \in ready')
    <3>1. CASE j = i
      BY <1>1, <1>9, <2>1, <3>1
    <3>2. CASE j # i
      <4>1. bronze'[j] = bronze[j]
        BY <1>9, <3>2
      <4>2. QED BY <1>0, <1>1, <2>2, <4>1 DEF RowsOk
    <3>3. QED BY <3>1, <3>2
  <2>3. QED BY <2>2 DEF RowsOk
<1>12. Apart'
  BY <1>0, <1>3, <1>4, ApartStays
<1>13. RunOk("report", c)'
  <2>1. Announced(c.row, c)'
    BY <1>1, <1>5, <1>6, <1>8, <1>9 DEF Announced
  <2>2. Settled(c)'
    BY <1>1, <1>5, <2>1 DEF Settled
  <2>3. QED BY <1>5, <2>2 DEF RunOk, Inserts, Announces
<1>14. LimitOk("report", c, r \in limited)
  BY <1>0, <1>1, <1>2, <1>4 DEF LimitOk
<1>15. bronze' \in [Ids -> BronzeRow \cup {None}] /\ objects' \in [Ids -> Contents \cup {None}] /\ ready' \subseteq Ids
  BY <1>0, <1>1, <1>8
<1>16. \A s \in Runs : s # r /\ pc[s] \in Inserts => bronze'[ctx[s].row] = None
  BY <1>0, <1>5, <1>6, <1>7, <1>9
<1>17. QED BY <1>1, <1>3, <1>4, <1>10, <1>11, <1>12, <1>13, <1>14, <1>15, <1>16, GrowingStep

LEMMA SameRuns ==
    ASSUME RunInv, LimitInv, UNCHANGED <<objects, bronze, ready, pc, ctx, limited>>
    PROVE  RunInv' /\ LimitInv'
<1>1. Apart' /\ RowsOk'
  BY DEF RunInv, Apart, RowsOk
<1>2. LimitInv'
  BY DEF LimitInv, LimitOk
<1>3. ASSUME NEW s \in Runs PROVE RunOk(pc[s], ctx[s])'
  <2>1. PICK x, c : x = pc[s] /\ c = ctx[s]
    OBVIOUS
  <2>2. RunOk(x, c) /\ pc'[s] = x /\ ctx'[s] = c
    BY <2>1 DEF RunInv
  <2>3. RunOk(x, c)'
    BY <2>2, SameRows
  <2>4. QED BY <2>2, <2>3, RunOkHere
<1>4. QED BY <1>1, <1>2, <1>3 DEF RunInv

LEMMA MerchantKeeps ==
    ASSUME IInv, Merchant, UNCHANGED triggers
    PROVE  IInv'
<1>1. TypeOK /\ TokenInv /\ UNCHANGED <<objects, bronze, ready, health, pc, ctx, limited, triggers>>
  BY DEF IInv, TokenInv, Merchant, dataVars, Revoke, RecoveryLapses, AccessTokenFallsDue, RefreshTokenExpires, oauth_complete
<1>2. TokenInv'
  BY <1>1, MerchantKeepsChain DEF Merchant
<1>3. RunInv' /\ LimitInv'
  BY <1>1, SameRuns DEF IInv
<1>4. TokenTypeOK'
  <2>0. issued \in Nat /\ issued <= MaxTokens /\ TokenTypeOK
    BY <1>1, Bounds DEF TypeOK, TokenTypeOK
  <2>1. CASE Revoke
    BY <2>0, <2>1 DEF Revoke, TokenTypeOK
  <2>2. CASE AccessTokenFallsDue
    BY <2>0, <2>2 DEF AccessTokenFallsDue, TokenTypeOK, grantVars
  <2>3. CASE RefreshTokenExpires
    BY <2>0, <2>3 DEF RefreshTokenExpires, TokenTypeOK
  <2>4. CASE oauth_complete
    <3>1. /\ issued < MaxTokens /\ issued' = issued + 1 /\ live' = issued + 1 /\ recoverable' = 0 /\ age' = "fresh"
          /\ vault' = [refresh_token |-> issued + 1, previous_refresh_token |-> 0] /\ UNCHANGED <<vendor, held>>
      BY <2>4 DEF oauth_complete, Issue, vault_write
    <3>2. issued' \in 0..MaxTokens /\ live' \in 0..issued' /\ recoverable' \in 0..issued'
      BY <2>0, <3>1, Bounds
    <3>3. vault' \in TokenSet
      BY <2>0, <3>1, Bounds DEF TokenSet, Tokens
    <3>4. QED BY <2>0, <3>1, <3>2, <3>3 DEF TokenTypeOK
  <2>5. CASE RecoveryLapses
    BY <2>0, <2>5 DEF RecoveryLapses, TokenTypeOK
  <2>6. QED BY <2>1, <2>2, <2>3, <2>4, <2>5 DEF Merchant
<1>5. TypeOK'
  BY <1>1, <1>4 DEF TypeOK
<1>6. QED BY <1>2, <1>3, <1>5 DEF IInv, TokenInv

LEMMA InitHolds == Init => IInv
<1> SUFFICES ASSUME Init PROVE IInv
  OBVIOUS
<1>1. TypeOK
  BY NoContextType, Bounds DEF Init, TokenInit, TypeOK, TokenTypeOK, Posture, Steps
<1>2. \A r \in Runs : pc[r] = "idle" /\ ctx[r] = NoContext /\ held[r] = None /\ r \notin limited
  BY DEF Init, TokenInit
<1>3. vault = None /\ live = 0 /\ recoverable = 0
  BY DEF Init, TokenInit
<1>4. Records = {}
  BY <1>2, <1>3 DEF Records
<1>5. HeldInv
  BY <1>2, <1>3, <1>4 DEF HeldInv, Rotates, Reads
<1>6. SquareInv /\ ChainInv
  BY <1>3, <1>4 DEF SquareInv, ChainInv
<1>7. \A r \in Runs : RunOk(pc[r], ctx[r])
  BY <1>2, IdleIsOk
<1>8. LimitInv
  BY <1>2, IdleIsOk DEF LimitInv, LimitOk
<1>9. Apart /\ RowsOk
  BY <1>2 DEF Apart, RowsOk, Init, Inserts
<1>10. QED BY <1>1, <1>5, <1>6, <1>7, <1>8, <1>9 DEF IInv, RunInv

LEMMA NextKeeps == IInv /\ [Next]_vars => IInv'
<1> SUFFICES ASSUME IInv, [Next]_vars PROVE IInv'
  OBVIOUS
<1>1. CASE \E r \in Runs : RunTrigger(r)
  BY <1>1, RunTriggerKeeps
<1>2. ASSUME NEW r \in Runs, UNCHANGED triggers,
             \/ Authenticate(r) \/ Probe(r) \/ Extract(r) \/ Lookup(r) \/ Preflight(r)
             \/ Upload(r) \/ Insert(r) \/ InsertFailed(r) \/ Publish(r)
             \/ MarkPublished(r) \/ Report(r) \/ Crash(r)
      PROVE  IInv'
  BY <1>2, AuthenticateKeeps, ProbeExtractKeep, LookupKeeps, PreflightKeeps, UploadKeeps, InsertsKeep,
     PublishKeeps, MarkPublishedKeeps, ReportKeeps, CrashKeeps
<1>3. CASE Merchant /\ UNCHANGED triggers
  BY <1>3, MerchantKeeps
<1>4. CASE UNCHANGED vars
  <2>1. /\ UNCHANGED <<vendor, issued, live, recoverable, vault, age, held>>
        /\ UNCHANGED <<objects, bronze, ready, health, pc, ctx, limited, triggers>>
    BY <1>4 DEF vars, tokenVars, grantVars, dataVars
  <2>2. TypeOK'
    BY <2>1 DEF IInv, TypeOK, TokenTypeOK
  <2>3. Records' = Records /\ \A s \in Runs : (Reads(s)' <=> Reads(s)) /\ (Rotates(s)' <=> Rotates(s))
    BY <2>1 DEF Records, Reads, Rotates
  <2>4. HeldInv'
    BY <2>1, <2>3 DEF IInv, HeldInv
  <2>5. SquareInv'
    BY <2>1, <2>3 DEF IInv, SquareInv
  <2>6. ChainInv'
    BY <2>1, <2>3 DEF IInv, ChainInv, Leads, Names
  <2>7. RunInv' /\ LimitInv'
    BY <2>1, SameRuns DEF IInv
  <2>8. QED BY <2>2, <2>4, <2>5, <2>6, <2>7 DEF IInv
<1>5. QED BY <1>1, <1>2, <1>3, <1>4 DEF Next

LEMMA ConnectorInvariant == Spec => []IInv
BY InitHolds, NextKeeps, PTL DEF Spec

-----------------------------------------------------------------------------
(* The theorems. *)

\* The token chain survives every crash, lost response, lost write and overlapping
\* rotation for as long as /recovery accepts a token, whatever the number of runs: the
\* newest record leads back to the grant the vendor still honours (get_session, _recover
\* and carrying_previous).  Nothing is claimed once the recovery window has lapsed.
THEOREM TokensStayRecoverable == Spec => []ChainIsRecoverable
<1>1. IInv => ChainIsRecoverable
  <2> SUFFICES ASSUME IInv, vault # None, live # 0
               PROVE  \/ vault.refresh_token = live
                      \/ recoverable \in {0, vault.refresh_token, vault.previous_refresh_token}
    BY DEF ChainIsRecoverable
  <2>1. vault \in Records
    BY DEF Records
  <2>2. QED BY <2>1 DEF IInv, ChainInv, Leads, Names
<1>2. QED BY <1>1, ConnectorInvariant, PTL

\* A run of ConnectorPipeline.run that returned ingested or duplicate_* has its payload
\* on ingress.ready, or on record as a FAILED row, whatever crashed before it and however
\* runs of one key overlap.
THEOREM FinishedRunsAreAnnounced == Spec => []FinishedRunIsAnnounced
<1>1. IInv => FinishedRunIsAnnounced
  <2> SUFFICES ASSUME IInv PROVE FinishedRunIsAnnounced
    OBVIOUS
  <2>1. TypeOK
    BY DEF IInv
  <2>2. ASSUME NEW r \in Runs, Returned(r), ctx[r].outcome \in Good
        PROVE  \E i \in Priors(r) :
                 \/ bronze[i].status = "RECEIVED" /\ i \in ready /\ objects[i] = ctx[r].content
                 \/ bronze[i].status = "FAILED" /\ ctx[r].outcome = "duplicate_noop"
    <3>1. Settled(ctx[r])
      BY <2>2 DEF IInv, RunInv, RunOk, Returned
    <3>2. QED BY <3>1 DEF Settled, Announced, Priors
  <2>3. QED BY <2>1, <2>2 DEF FinishedRunIsAnnounced, Good
<1>2. QED BY <1>1, ConnectorInvariant, PTL

\* A stored rate-limit posture is cleared only by the emit of a run that ingested and was
\* never answered 429, and set only by one that was (_emit_health_seen, _emit_health_error).
THEOREM PosturesAreEarned == Spec => PostureIsEarned
<1>1. IInv /\ [Next]_vars => PostureStep
  <2> SUFFICES ASSUME IInv, [Next]_vars, NEW r \in Runs, pc[r] = "report", pc'[r] = "idle",
                      health'.rate_limit_state # health.rate_limit_state
               PROVE  IF health'.rate_limit_state = None
                      THEN ctx[r].outcome = "ingested" /\ r \notin limited
                      ELSE r \in limited
    BY DEF PostureStep
  <2>0. /\ TypeOK /\ LimitOk(pc[r], ctx[r], r \in limited) /\ ctx[r] \in Context
        /\ pc \in [Runs -> Steps] /\ ctx[r].throttled \in BOOLEAN
    BY RunOkOf DEF TypeOK, Context
  <2>1. PICK s \in Runs : Report(s)
    BY DEF Next, vars, dataVars, RunTrigger, Authenticate, Probe, Extract, Lookup, Preflight, Upload, Insert,
           InsertFailed, Publish, MarkPublished, Crash, Merchant
  <2>2. s = r
    BY <2>0, <2>1 DEF Report, Goto
  <2>3. health' = Upserted(ctx[r])
    BY <2>1, <2>2 DEF Report
  <2>4. ctx[r].outcome = "ingested" => ctx[r].reason = None
    BY <2>0 DEF LimitOk
  <2>5. health'.rate_limit_state =
            IF ctx[r].outcome = "ingested" THEN (IF ctx[r].throttled THEN "throttled" ELSE None)
            ELSE IF ctx[r].reason = "RATE_LIMITED" THEN "exhausted" ELSE health.rate_limit_state
    BY <2>0, <2>3, <2>4, UpsertedIs
  <2>6. None # "throttled" /\ None # "exhausted" /\ None # "RATE_LIMITED"
    BY NoneIsNone DEF Reason
  <2>7. CASE ctx[r].outcome = "ingested" /\ ctx[r].throttled
    BY <2>0, <2>5, <2>6, <2>7 DEF LimitOk
  <2>8. CASE ctx[r].outcome = "ingested" /\ ~ctx[r].throttled
    BY <2>0, <2>4, <2>5, <2>6, <2>8 DEF LimitOk
  <2>9. CASE ctx[r].outcome # "ingested"
    BY <2>0, <2>5, <2>6, <2>9 DEF LimitOk
  <2>10. QED BY <2>7, <2>8, <2>9
<1>2. QED BY <1>1, ConnectorInvariant, PTL DEF Spec, PostureIsEarned
=============================================================================
