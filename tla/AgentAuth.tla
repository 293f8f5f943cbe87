------------------------------ MODULE AgentAuth -----------------------------
(***************************************************************************)
(* The OIDC credential one caller holds for one Agent connection, shared   *)
(* by the requests of several API processes: it is obtained by a login,    *)
(* verified late when the verifier was away, refreshed under a lease when  *)
(* it is about to expire or the Agent rejects it, and dropped when the     *)
(* connection's security revision moves on.                                *)
(*                                                                         *)
(* A token stands for an access token with the refresh token it came with. *)
(* The identity provider rotates refresh tokens: presenting one retires it *)
(* and presenting a retired one is invalid_grant.  Sealing and opening of  *)
(* payloads is left out: it binds a payload to its row's key, which the    *)
(* model's keys already are.                                               *)
(***************************************************************************)
EXTENDS Naturals, FiniteSets

CONSTANTS
    Api,            \* API processes
    Call,           \* Playground requests of the caller
    Token, NoToken, \* bound: refresh tokens held at a time
    MaxRevision,    \* bound: securityRevision
    MaxSeq,         \* bound: rotationSeq
    MaxLogins,      \* bound: authorization transactions
    MaxMishaps      \* bound: crashes and lapsed leases

ASSUME AgentAuthAssumption ==
    /\ NoToken \notin Token /\ "none" \notin Api
    /\ MaxRevision \in Nat \ {0} /\ MaxSeq \in Nat /\ MaxLogins \in Nat /\ MaxMishaps \in Nat

VARIABLES
    servedBy,       \* the process that serves a request
    revision,       \* agent_connections.securityRevision
    sweeping,       \* deleteStaleAgentAuthCredentials is still to run
    credential,     \* agent_auth_credentials, by security revision
    valid,          \* refresh tokens the provider would honour
    spent,          \* history: tokens retired by a refresh whose answer was not kept
    login,          \* an authorization in progress
    logins,
    latest,         \* history: by revision, the login whose credential was stored last
    call,           \* the requests
    refresh,        \* refreshFlights, by process and revision
    recreated,      \* history: revisions whose row was deleted and inserted again
    torn,           \* history: a lease lapsed under a refresh, or its process died
    mishaps

SecurityRevision == 1..MaxRevision
NoRow == [seq |-> 0, token |-> NoToken, refreshable |-> FALSE, pending |-> FALSE,
          expiring |-> FALSE, login |-> 0, lease |-> "none", by |-> "none"]
NoCall == [at |-> "idle", rev |-> 1, attempt |-> 0, round |-> 0, seq |-> 0,
           token |-> NoToken, purpose |-> "resolve"]
NoFlight == [at |-> "none", seq |-> 0, token |-> NoToken, login |-> 0, refreshable |-> FALSE,
             next |-> NoRow, grant |-> FALSE]
NoLogin == [at |-> "none", rev |-> 1, row |-> NoRow]

connectionVars == <<servedBy, revision, sweeping>>
tokenVars == <<valid, spent>>
loginVars == <<login, logins, latest, recreated>>
authVars == <<connectionVars, credential, tokenVars, loginVars, call, refresh, torn, mishaps>>

Mishap == mishaps < MaxMishaps /\ mishaps' = mishaps + 1
Present(rev) == credential[rev] # NoRow
Answers(c) == call' = [call EXCEPT ![c] = NoCall]

\* Tokens something of the platform still holds.
HeldTokens ==
    {credential[rev].token : rev \in SecurityRevision} \cup {call[c].token : c \in Call}
    \cup {refresh[f].token : f \in Api \X SecurityRevision}
    \cup {refresh[f].next.token : f \in Api \X SecurityRevision} \cup {login.row.token}

FreshToken == CHOOSE t \in Token : t \notin HeldTokens
TokenLeft == \E t \in Token : t \notin HeldTokens

\* What the provider may grant: verified or not yet, with or without a
\* refresh token.  One that arrives about to expire is aged at once, below.
Granted(t, l, p, g) ==
    [NoRow EXCEPT !.token = t, !.login = l, !.pending = p, !.refreshable = g]
GrantedTokens(t, l) == {Granted(t, l, p, g) : p \in BOOLEAN, g \in BOOLEAN}

\* A granted row's refresh token is honoured from now on; retired is what it
\* was granted for.  Tokens nobody holds any more are forgotten.
Grants(row, retired) ==
    /\ valid' = ((valid \cap HeldTokens) \ retired)
                \cup (IF row.refreshable THEN {row.token} ELSE {})
    /\ spent' = spent \cap HeldTokens

AuthInit ==
    /\ servedBy \in [Call -> Api]
    /\ revision = 1 /\ sweeping = FALSE
    /\ credential = [rev \in SecurityRevision |-> NoRow]
    /\ valid = {} /\ spent = {}
    /\ login = NoLogin /\ logins = 0
    /\ latest = [rev \in SecurityRevision |-> 0]
    /\ recreated = {}
    /\ call = [c \in Call |-> NoCall]
    /\ refresh = [f \in Api \X SecurityRevision |-> NoFlight]
    /\ torn = FALSE /\ mishaps = 0

-----------------------------------------------------------------------------
(***************************************************************************)
(* The credential rows                                                     *)
(***************************************************************************)
\* Whatever is written counts the rotation up and ends any refresh lease.
Rotated(rev, row) == [row EXCEPT !.seq = credential[rev].seq + 1, !.lease = "none", !.by = "none"]

\* putAgentAuthCredential: an insert starts at rotation 0.
PutCredential_keepsSeq(rev, row) ==
    credential' = [credential EXCEPT ![rev] =
        [row EXCEPT !.seq = credential[rev].seq, !.lease = credential[rev].lease,
                    !.by = credential[rev].by]]

PutCredential(rev, row) ==
    credential' = [credential EXCEPT ![rev] =
        IF Present(rev) THEN Rotated(rev, row) ELSE [row EXCEPT !.seq = 0]]

\* deleteAgentAuthCredential, replaceAgentAuthCredential: at the rotation read.
AtRotation_any(rev, seq) == Present(rev)

AtRotation(rev, seq) == Present(rev) /\ credential[rev].seq = seq

\* A live lease of this process at the rotation it claimed.
HoldsLease(p, rev, seq) ==
    /\ AtRotation(rev, seq)
    /\ credential[rev].by = p /\ credential[rev].lease = "live"

-----------------------------------------------------------------------------
(***************************************************************************)
(* Login: start, callback                                                  *)
(***************************************************************************)
LoginStarts ==
    /\ login = NoLogin /\ logins < MaxLogins
    /\ logins' = logins + 1
    /\ login' = [NoLogin EXCEPT !.at = "started", !.rev = revision]
    /\ UNCHANGED <<connectionVars, credential, tokenVars, latest, recreated, call, refresh, torn,
                   mishaps>>

\* The transaction is consumed; a connection that has changed ends it.
CallbackExchanges ==
    /\ login.at = "started"
    /\ IF login.rev # revision
       THEN login' = NoLogin /\ UNCHANGED tokenVars
       ELSE /\ TokenLeft
            /\ \E row \in GrantedTokens(FreshToken, logins) :
                  /\ login' = [login EXCEPT !.at = "exchanged", !.row = row]
                  /\ Grants(row, {})
    /\ UNCHANGED <<connectionVars, credential, logins, latest, recreated, call, refresh, torn,
                   mishaps>>

\* The token is rejected, or the connection is not the one that was read.
CallbackFails ==
    /\ login.at = "exchanged"
    /\ login' = NoLogin
    /\ UNCHANGED <<connectionVars, credential, tokenVars, logins, latest, recreated, call, refresh,
                   torn, mishaps>>

CallbackRechecks ==
    /\ login.at = "exchanged" /\ login.rev = revision
    /\ login' = [login EXCEPT !.at = "storing"]
    /\ UNCHANGED <<connectionVars, credential, tokenVars, logins, latest, recreated, call, refresh,
                   torn, mishaps>>

CallbackStores ==
    /\ login.at = "storing"
    /\ PutCredential(login.rev, login.row)
    /\ recreated' = IF ~Present(login.rev) /\ latest[login.rev] # 0
                    THEN recreated \cup {login.rev} ELSE recreated
    /\ latest' = [latest EXCEPT ![login.rev] = login.row.login]
    /\ login' = NoLogin
    /\ UNCHANGED <<connectionVars, tokenVars, logins, call, refresh, torn, mishaps>>

-----------------------------------------------------------------------------
(***************************************************************************)
(* The connection's configuration                                          *)
(***************************************************************************)
\* updateAgentConnection compares and sets the security revision ...
ConnectionChanges ==
    /\ revision < MaxRevision /\ ~sweeping
    /\ revision' = revision + 1
    /\ sweeping' = TRUE
    /\ UNCHANGED <<servedBy, credential, tokenVars, loginVars, call, refresh, torn, mishaps>>

\* ... and then the older credentials are deleted.
StaleCredentialsDeleted ==
    /\ sweeping
    /\ sweeping' = FALSE
    /\ credential' = [rev \in SecurityRevision |->
                          IF rev < revision THEN NoRow ELSE credential[rev]]
    /\ UNCHANGED <<servedBy, revision, tokenVars, loginVars, call, refresh, torn, mishaps>>

\* The access token comes within thirty seconds of its end.
TokenAges(rev) ==
    /\ Present(rev) /\ ~credential[rev].expiring
    /\ credential' = [credential EXCEPT ![rev].expiring = TRUE]
    /\ UNCHANGED <<connectionVars, tokenVars, loginVars, call, refresh, torn, mishaps>>

-----------------------------------------------------------------------------
(***************************************************************************)
(* A request: resolveCredential, the proxy's answer, recoverUnauthorized   *)
(***************************************************************************)
MaxAttempts == 3

CallStarts(c) ==
    /\ call[c].at = "idle"
    /\ call' = [call EXCEPT ![c] = [NoCall EXCEPT !.at = "read", !.rev = revision]]
    /\ UNCHANGED <<connectionVars, credential, tokenVars, loginVars, refresh, torn, mishaps>>

Flight(c) == <<servedBy[c], call[c].rev>>

\* getOrStartRefresh: joins the process's flight for the revision, or starts it.
JoinsRefresh(c, row, purpose) ==
    /\ call' = [call EXCEPT ![c].at = "await", ![c].purpose = purpose, ![c].seq = 0,
                            ![c].token = NoToken]
    /\ refresh' = IF refresh[Flight(c)].at # "none" THEN refresh
                  ELSE [refresh EXCEPT ![Flight(c)] =
                          [NoFlight EXCEPT !.at = "claim", !.seq = row.seq, !.token = row.token,
                                           !.login = row.login,
                                           !.refreshable = row.refreshable]]

\* A verified row is used, refreshed, or answered with a new interaction.
UsesRow(c, row) ==
    CASE ~row.expiring -> /\ call' = [call EXCEPT ![c].at = "send", ![c].seq = row.seq,
                                                  ![c].token = NoToken]
                          /\ UNCHANGED refresh
      [] row.expiring /\ row.refreshable /\ call[c].attempt + 1 < MaxAttempts ->
            JoinsRefresh(c, row, "resolve")
      [] OTHER -> Answers(c) /\ UNCHANGED refresh

ReadsCredential(c) ==
    /\ call[c].at = "read"
    /\ LET row == credential[call[c].rev]
       IN  CASE row = NoRow -> Answers(c) /\ UNCHANGED refresh
             [] row.pending -> /\ call' = [call EXCEPT ![c].at = "verify", ![c].seq = row.seq,
                                                       ![c].token = row.token]
                               /\ UNCHANGED refresh
             [] OTHER -> UsesRow(c, row)
    /\ UNCHANGED <<connectionVars, credential, tokenVars, loginVars, torn, mishaps>>

\* The candidate token is verified and the row replaced at its rotation.
PendingVerified(c) ==
    /\ call[c].at = "verify"
    /\ call' = [call EXCEPT ![c].at = "replace"]
    /\ UNCHANGED <<connectionVars, credential, tokenVars, loginVars, refresh, torn, mishaps>>

ReplacesCredential(c) ==
    /\ call[c].at = "replace"
    /\ LET rev == call[c].rev
           row == credential[rev]
       IN  IF AtRotation(rev, call[c].seq)
           THEN LET active == Rotated(rev, [row EXCEPT !.token = call[c].token,
                                                       !.pending = FALSE])
                IN  credential' = [credential EXCEPT ![rev] = active] /\ UsesRow(c, active)
           ELSE /\ UNCHANGED <<credential, refresh>>
                /\ IF call[c].attempt + 1 < MaxAttempts
                   THEN call' = [call EXCEPT ![c].at = "read", ![c].seq = 0, ![c].token = NoToken,
                                             ![c].attempt = @ + 1]
                   ELSE Answers(c)
    /\ UNCHANGED <<connectionVars, tokenVars, loginVars, torn, mishaps>>

\* The verifier is away, or rejects the token.
VerificationFails(c) ==
    /\ call[c].at = "verify"
    /\ Answers(c)
    /\ UNCHANGED <<connectionVars, credential, tokenVars, loginVars, refresh, torn, mishaps>>

\* The Agent accepts the request, or answers 401.
AgentAnswers(c) ==
    /\ call[c].at = "send"
    /\ \/ Answers(c)
       \/ call' = [call EXCEPT ![c].at = "recover"]
    /\ UNCHANGED <<connectionVars, credential, tokenVars, loginVars, refresh, torn, mishaps>>

\* After a recovery the connection is read again, once.
Retries(c) ==
    [call EXCEPT ![c] = [NoCall EXCEPT !.at = "read", !.rev = revision, !.round = 1]]

\* recoverUnauthorized: a newer rotation is worth one more try, the rejected
\* one is refreshed the first time and deleted the second.
RecoversUnauthorized(c) ==
    /\ call[c].at = "recover"
    /\ LET row == credential[call[c].rev]
       IN  CASE row = NoRow \/ row.seq < call[c].seq -> Answers(c) /\ UNCHANGED refresh
             [] row # NoRow /\ row.seq > call[c].seq ->
                   /\ call' = IF call[c].round = 0 THEN Retries(c)
                              ELSE [call EXCEPT ![c] = NoCall]
                   /\ UNCHANGED refresh
             [] OTHER -> IF call[c].round = 1
                         THEN call' = [call EXCEPT ![c].at = "delete"] /\ UNCHANGED refresh
                         ELSE IF row.refreshable THEN JoinsRefresh(c, row, "recover")
                         ELSE Answers(c) /\ UNCHANGED refresh
    /\ UNCHANGED <<connectionVars, credential, tokenVars, loginVars, torn, mishaps>>

DeletesRejected(c) ==
    /\ call[c].at = "delete"
    /\ credential' = IF AtRotation(call[c].rev, call[c].seq)
                     THEN [credential EXCEPT ![call[c].rev] = NoRow] ELSE credential
    /\ Answers(c)
    /\ UNCHANGED <<connectionVars, tokenVars, loginVars, refresh, torn, mishaps>>

-----------------------------------------------------------------------------
(***************************************************************************)
(* refreshCredential                                                       *)
(***************************************************************************)
\* The flight ends; whoever awaits it goes on, or is answered.
FlightEnds(f, outcome) ==
    /\ refresh' = [refresh EXCEPT ![f] = NoFlight]
    /\ call' = [c \in Call |->
          IF call[c].at = "await" /\ Flight(c) = f
          THEN IF outcome = "failed" THEN NoCall
               ELSE IF call[c].purpose = "recover" THEN Retries(c)[c]
               ELSE [call[c] EXCEPT !.at = "read", !.attempt = @ + 1]
          ELSE call[c]]

\* Somebody else has the lease, or had it.
Waits(f) ==
    refresh' = [refresh EXCEPT ![f] = [NoFlight EXCEPT !.at = "wait", !.seq = refresh[f].seq]]

\* claimAgentAuthCredentialRefresh
MayClaim_ignoresLease(f) == AtRotation(f[2], refresh[f].seq)

MayClaim(f) == AtRotation(f[2], refresh[f].seq) /\ credential[f[2]].lease # "live"

ClaimsRefresh(f) ==
    /\ refresh[f].at = "claim"
    /\ IF MayClaim(f)
       THEN /\ credential' = [credential EXCEPT ![f[2]].lease = "live", ![f[2]].by = f[1]]
            /\ refresh' = [refresh EXCEPT ![f].at = "provider"]
       ELSE Waits(f) /\ UNCHANGED credential
    /\ UNCHANGED <<connectionVars, tokenVars, loginVars, call, torn, mishaps>>

\* protocol.refresh and verifyCandidate.  A provider that does not rotate
\* answers without a refresh token, and the old one is not kept.
ProviderRefreshes(f) ==
    /\ refresh[f].at = "provider" /\ refresh[f].refreshable
    /\ IF refresh[f].token \in valid
       THEN /\ refresh[f].seq < MaxSeq /\ TokenLeft
            /\ \E row \in GrantedTokens(FreshToken, refresh[f].login) :
                  /\ refresh' = [refresh EXCEPT ![f].at = "complete", ![f].next = row]
                  /\ Grants(row, IF row.refreshable THEN {refresh[f].token} ELSE {})
       ELSE /\ refresh' = [refresh EXCEPT ![f].at = "release", ![f].grant = TRUE]
            /\ UNCHANGED tokenVars
    /\ UNCHANGED <<connectionVars, credential, loginVars, call, torn, mishaps>>

\* The provider has rotated, and then its answer is lost or verifyCandidate
\* rejects the token it carries: the lease is released and the row keeps the
\* refresh token just retired.
RefreshDiscarded(f) ==
    /\ refresh[f].at = "provider" /\ refresh[f].refreshable
    /\ refresh[f].token \in valid
    /\ refresh' = [refresh EXCEPT ![f].at = "release"]
    /\ valid' = valid \ {refresh[f].token}
    /\ spent' = spent \cup {refresh[f].token}
    /\ UNCHANGED <<connectionVars, credential, loginVars, call, torn, mishaps>>

\* No refresh token after all, an outage, a rejected candidate without rotation.
ProviderFails(f) ==
    /\ refresh[f].at = "provider"
    /\ refresh' = [refresh EXCEPT ![f].at = "release"]
    /\ UNCHANGED <<connectionVars, credential, tokenVars, loginVars, call, torn, mishaps>>

\* completeAgentAuthCredentialRefresh
CompletesRefresh(f) ==
    /\ refresh[f].at = "complete"
    /\ IF HoldsLease(f[1], f[2], refresh[f].seq)
       THEN /\ credential' = [credential EXCEPT ![f[2]] = Rotated(f[2], refresh[f].next)]
            /\ FlightEnds(f, "refreshed")
       ELSE Waits(f) /\ UNCHANGED <<credential, call>>
    /\ UNCHANGED <<connectionVars, tokenVars, loginVars, torn, mishaps>>

\* releaseAgentAuthCredentialRefresh, and only who still held the lease may
\* go on to delete the credential its provider no longer honours.
ReleasesRefresh(f) ==
    /\ refresh[f].at = "release"
    /\ LET held == HoldsLease(f[1], f[2], refresh[f].seq)
       IN  /\ credential' = IF held THEN [credential EXCEPT ![f[2]].lease = "none",
                                                            ![f[2]].by = "none"]
                            ELSE credential
           /\ IF held /\ refresh[f].grant
              THEN refresh' = [refresh EXCEPT ![f].at = "delete"] /\ UNCHANGED call
              ELSE FlightEnds(f, "failed")
    /\ UNCHANGED <<connectionVars, tokenVars, loginVars, torn, mishaps>>

DeletesUngranted(f) ==
    /\ refresh[f].at = "delete"
    /\ credential' = IF AtRotation(f[2], refresh[f].seq)
                     THEN [credential EXCEPT ![f[2]] = NoRow] ELSE credential
    /\ FlightEnds(f, "failed")
    /\ UNCHANGED <<connectionVars, tokenVars, loginVars, torn, mishaps>>

\* waitForRefreshWinner: until the rotation moved or the lease is over; a
\* missing row or the deadline is a failure.
WaitsForRefreshWinner_forWinnerOnly(f) ==
    /\ refresh[f].at = "wait"
    /\ \/ ~Present(f[2]) /\ FlightEnds(f, "failed")
       \/ Present(f[2]) /\ credential[f[2]].seq > refresh[f].seq /\ FlightEnds(f, "refreshed")
    /\ UNCHANGED <<connectionVars, credential, tokenVars, loginVars, torn, mishaps>>

WaitsForRefreshWinner(f) ==
    /\ refresh[f].at = "wait"
    /\ \/ ~Present(f[2]) /\ FlightEnds(f, "failed")
       \/ /\ Present(f[2])
          /\ credential[f[2]].seq > refresh[f].seq \/ credential[f[2]].lease # "live"
          /\ FlightEnds(f, "refreshed")
       \/ FlightEnds(f, "failed")
    /\ UNCHANGED <<connectionVars, credential, tokenVars, loginVars, torn, mishaps>>

-----------------------------------------------------------------------------
\* refreshLeaseUntil passes; the refresh under it may still be running.
LeaseRunsOut(rev) ==
    /\ credential[rev].lease = "live"
    /\ Mishap
    /\ credential' = [credential EXCEPT ![rev].lease = "lapsed"]
    /\ torn' = TRUE
    /\ UNCHANGED <<connectionVars, tokenVars, loginVars, call, refresh>>

ApiCrashes(p) ==
    /\ Mishap
    /\ refresh' = [f \in Api \X SecurityRevision |-> IF f[1] = p THEN NoFlight ELSE refresh[f]]
    /\ call' = [c \in Call |-> IF servedBy[c] = p THEN NoCall ELSE call[c]]
    /\ login' \in {login, IF login.at = "started" THEN login ELSE NoLogin}
    /\ torn' = TRUE
    /\ UNCHANGED <<connectionVars, credential, tokenVars, logins, latest, recreated>>

\* A lease nobody lives to release runs out by itself.
AbandonedLeaseRunsOut(rev) ==
    /\ credential[rev].lease = "live"
    /\ refresh[<<credential[rev].by, rev>>].at \notin {"provider", "complete", "release"}
    /\ credential' = [credential EXCEPT ![rev].lease = "lapsed"]
    /\ UNCHANGED <<connectionVars, tokenVars, loginVars, call, refresh, torn, mishaps>>

LoginStep ==
    CallbackExchanges \/ CallbackFails \/ CallbackRechecks \/ CallbackStores
CallStep(c) ==
    \/ ReadsCredential(c) \/ PendingVerified(c) \/ VerificationFails(c) \/ ReplacesCredential(c)
    \/ AgentAnswers(c) \/ RecoversUnauthorized(c) \/ DeletesRejected(c)
RefreshStep(f) ==
    \/ ClaimsRefresh(f) \/ ProviderRefreshes(f) \/ CompletesRefresh(f) \/ ReleasesRefresh(f)
    \/ ProviderFails(f) \/ RefreshDiscarded(f)
    \/ DeletesUngranted(f) \/ WaitsForRefreshWinner(f)

AuthNext ==
    \/ LoginStarts \/ LoginStep \/ ConnectionChanges \/ StaleCredentialsDeleted
    \/ \E c \in Call : CallStarts(c) \/ CallStep(c)
    \/ \E f \in Api \X SecurityRevision : RefreshStep(f)
    \/ \E rev \in SecurityRevision :
          TokenAges(rev) \/ LeaseRunsOut(rev) \/ AbandonedLeaseRunsOut(rev)
    \/ \E p \in Api : ApiCrashes(p)

AuthFairness ==
    /\ \A c \in Call : WF_authVars(CallStep(c))
    /\ \A f \in Api \X SecurityRevision : WF_authVars(RefreshStep(f))
    /\ \A rev \in SecurityRevision : WF_authVars(AbandonedLeaseRunsOut(rev))

AuthSpec == AuthInit /\ [][AuthNext]_authVars /\ AuthFairness

-----------------------------------------------------------------------------
(***************************************************************************)
(* Properties                                                              *)
(***************************************************************************)
Rows == [seq : Nat, token : Token,
         refreshable : BOOLEAN, pending : BOOLEAN, expiring : BOOLEAN, login : 1..MaxLogins,
         lease : {"none", "live", "lapsed"}, by : Api \cup {"none"}]

\* Types; an awaiting request has a flight to wait for, and a lease a holder.
AuthTypeOK ==
    /\ credential \in [SecurityRevision -> Rows \cup {NoRow}]
    /\ \A c \in Call : call[c].at = "await" => refresh[Flight(c)].at # "none"
    /\ \A rev \in SecurityRevision : credential[rev].lease = "none" <=> credential[rev].by = "none"

Presenting(f) == refresh[f].at \in {"provider", "complete"}

\* Two processes never present the same refresh token (a provider answers reuse
\* by revoking the grant), unless a lease lapsed or a process died under a
\* refresh.
RefreshExclusive ==
    \A f, g \in Api \X SecurityRevision :
        Presenting(f) /\ Presenting(g) /\ refresh[f].token = refresh[g].token
        => f = g \/ torn \/ f[2] \in recreated

\* The stored refresh token is one the provider still honours, or its successor
\* is on its way into the row: no verification, login or refresh that read the
\* row earlier writes a retired token back over a newer one.  Only a refresh whose
\* answer was not kept leaves a retired token behind, until the next one deletes it.
StoredTokenHonoured ==
    \A rev \in SecurityRevision :
        credential[rev].refreshable
        => \/ credential[rev].token \in valid
           \/ \E p \in Api : Presenting(<<p, rev>>)
                             /\ refresh[<<p, rev>>].token = credential[rev].token
           \/ credential[rev].token \in spent
           \/ torn \/ rev \in recreated

\* A completed login is not undone by what began before it: the row holds a
\* token of the latest login, or none.
LatestLoginKept ==
    \A rev \in SecurityRevision :
        Present(rev) => credential[rev].login = latest[rev] \/ rev \in recreated

\* Every request is answered: it does not wait for a refresh nobody finishes,
\* although the process that won may crash or lose the lease, and the answer of
\* one attempt leads to at most two more (MAX_CREDENTIAL_RESOLUTION_ATTEMPTS).
CallsAnswered == \A c \in Call : call[c].at # "idle" ~> call[c].at = "idle"
=============================================================================
