-------------------------- MODULE AgentAuthProofs --------------------------
(***************************************************************************)
(* What holds of the OIDC credential for any number of API processes,      *)
(* requests, security revisions and tokens.                                *)
(*                                                                         *)
(* A refresh works on a snapshot of the row it read.  The argument is      *)
(* about what the row can have become since: its rotation never falls      *)
(* behind a snapshot's, at the snapshot's rotation it still is the         *)
(* snapshot, and past it its token is another one.  Who claimed the lease  *)
(* at the row's rotation has it until the rotation moves on, so there is   *)
(* one such refresh, and only that one's token may be retired while it is  *)
(* stored.  All of this is of a row that was not deleted and inserted      *)
(* again, which starts its rotations anew.                                 *)
(***************************************************************************)
EXTENDS AgentAuth, TLAPS

Flights == Api \X SecurityRevision

\* A refresh that still works on the row it read.
Active(f) == refresh[f].at \notin {"none", "wait"}
\* One that has claimed the lease and not given it back.
Leased(f) == refresh[f].at \in {"provider", "complete", "release"}
\* A request that read a row to verify; one that used a row as it was.
Verifying(c) == call[c].at \in {"verify", "replace"}
Used(c) == call[c].at \in {"send", "recover", "delete"}

GrantedRows == {row \in Rows : row.lease = "none" /\ row.by = "none"}

CallStates == [at : {"idle", "read", "verify", "replace", "send", "recover", "delete", "await"},
               rev : SecurityRevision, attempt : Nat, round : {0, 1}, seq : Nat,
               token : Token \cup {NoToken}, purpose : {"resolve", "recover"}]
FlightStates == [at : {"none", "claim", "provider", "complete", "release", "delete", "wait"},
                 seq : Nat, token : Token \cup {NoToken}, login : 0..MaxLogins,
                 refreshable : BOOLEAN, next : GrantedRows \cup {NoRow}, grant : BOOLEAN]
LoginStates == [at : {"none", "started", "exchanged", "storing"}, rev : SecurityRevision,
                row : GrantedRows \cup {NoRow}]

Types ==
    /\ servedBy \in [Call -> Api]
    /\ revision \in SecurityRevision
    /\ credential \in [SecurityRevision -> Rows \cup {NoRow}]
    /\ call \in [Call -> CallStates]
    /\ refresh \in [Flights -> FlightStates]
    /\ login \in LoginStates
    /\ logins \in 0..MaxLogins
    /\ latest \in [SecurityRevision -> 0..MaxLogins]

\* What each step of a request, a refresh and a login has in hand.
Shapes ==
    /\ \A c \in Call : Verifying(c) <=> call[c].token # NoToken
    /\ \A c \in Call : call[c].at = "await" => refresh[Flight(c)].at # "none"
    /\ \A f \in Flights : Active(f) <=> refresh[f].token # NoToken
    /\ \A f \in Flights : Active(f) => refresh[f].login # 0
    /\ \A f \in Flights :
          /\ refresh[f].at = "complete" => refresh[f].next # NoRow
          /\ refresh[f].next # NoRow => /\ refresh[f].at = "complete"
                                        /\ refresh[f].next.login = refresh[f].login
    /\ login.row # NoRow <=> login.at \in {"exchanged", "storing"}
    /\ login.at # "none" => logins # 0
    /\ \A rev \in SecurityRevision : credential[rev].lease = "none" <=> credential[rev].by = "none"

\* Where a token came to rest: each is the token of one revision's row and of
\* what read that row, of one refresh's answer, or of the login's.
InRow(rev) == <<"row", "none", rev>>
InNext(f) == <<"next", f[1], f[2]>>
InLogin == <<"login", "none", 0>>

Owned(o) ==
    /\ \A rev \in SecurityRevision :
          Present(rev) => o[credential[rev].token] = InRow(rev)
    /\ \A c \in Call : call[c].token # NoToken => o[call[c].token] = InRow(call[c].rev)
    /\ \A f \in Flights : refresh[f].token # NoToken => o[refresh[f].token] = InRow(f[2])
    /\ \A f \in Flights : refresh[f].next # NoRow => o[refresh[f].next.token] = InNext(f)
    /\ login.row # NoRow => o[login.row.token] = InLogin

Places == {InRow(rev) : rev \in SecurityRevision} \cup {InNext(f) : f \in Flights} \cup {InLogin}

TokensApart == \E o \in [Token -> Places] : Owned(o)

\* Before the first login of a revision is stored nobody has read its row.
Known ==
    \A rev \in SecurityRevision :
        latest[rev] = 0
        => /\ ~Present(rev)
           /\ \A f \in Flights : f[2] = rev => ~Active(f)
           /\ \A c \in Call : call[c].rev = rev => ~Verifying(c) /\ ~Used(c)

\* The row against the snapshot of a refresh.
Snapshots ==
    \A f \in Flights :
        LET row == credential[f[2]]
        IN  Active(f) /\ Present(f[2]) /\ f[2] \notin recreated
            => /\ refresh[f].seq <= row.seq
               /\ row.seq = refresh[f].seq =>
                     /\ row.token = refresh[f].token /\ row.login = refresh[f].login
                     /\ row.refreshable = refresh[f].refreshable /\ ~row.pending
               /\ row.seq # refresh[f].seq => row.token # refresh[f].token

\* Refreshes that read the same token read it at the same rotation.
SameRotation ==
    \A f, g \in Flights :
        /\ Active(f) /\ Active(g) /\ f[2] = g[2] /\ f[2] \notin recreated
        /\ refresh[f].token = refresh[g].token
        => refresh[f].seq = refresh[g].seq

\* The row against what a request read of it.
Readings ==
    \A c \in Call :
        LET row == credential[call[c].rev]
        IN  Present(call[c].rev) /\ call[c].rev \notin recreated
            => /\ Verifying(c) \/ Used(c) => call[c].seq <= row.seq
               /\ Verifying(c) /\ row.seq = call[c].seq =>
                     row.token = call[c].token /\ row.pending
               /\ Used(c) /\ row.seq = call[c].seq => ~row.pending

\* Who claimed the lease at the row's rotation has it, and is alone with it.
LeaseKept ==
    \A f \in Flights :
        LET row == credential[f[2]]
        IN  Leased(f) /\ Present(f[2]) /\ row.seq = refresh[f].seq
            => (row.lease = "live" /\ row.by = f[1]) \/ torn \/ f[2] \in recreated

LeaseAlone ==
    \A f, g \in Flights :
        Leased(f) /\ Leased(g) /\ f[2] = g[2] /\ refresh[f].seq = refresh[g].seq
        => f = g \/ torn \/ f[2] \in recreated

\* What the provider granted last it honours.
Honoured ==
    /\ \A f \in Flights :
          refresh[f].next # NoRow /\ refresh[f].next.refreshable => refresh[f].next.token \in valid
    /\ login.row # NoRow /\ login.row.refreshable => login.row.token \in valid
    /\ \A rev \in SecurityRevision :
          credential[rev].refreshable
          => \/ credential[rev].token \in valid \/ credential[rev].token \in spent
             \/ \E p \in Api : /\ refresh[<<p, rev>>].at = "complete"
                               /\ refresh[<<p, rev>>].seq = credential[rev].seq
             \/ torn \/ rev \in recreated

AuthInv ==
    /\ Types /\ Shapes /\ TokensApart /\ Known /\ Snapshots /\ SameRotation /\ Readings
    /\ LeaseKept /\ LeaseAlone /\ Honoured /\ LatestLoginKept

-----------------------------------------------------------------------------
(***************************************************************************)
(* Rows, requests, refreshes                                               *)
(***************************************************************************)
\* A stored row is told from no row by its token.
LEMMA RowFacts ==
    ASSUME NEW row \in Rows \cup {NoRow}
    PROVE  /\ row # NoRow <=> row \in Rows
           /\ row # NoRow <=> row.token # NoToken
           /\ row # NoRow <=> row.token \in Token
           /\ row # NoRow => row.login \in 1..MaxLogins
           /\ row.seq \in Nat /\ row.refreshable \in BOOLEAN /\ row.pending \in BOOLEAN
           /\ row.lease \in {"none", "live", "lapsed"} /\ row.by \in Api \cup {"none"}
<1>1. CASE row \in Rows
  <2>1. /\ row.token \in Token /\ row.login \in 1..MaxLogins
        /\ row.seq \in Nat /\ row.refreshable \in BOOLEAN /\ row.pending \in BOOLEAN
        /\ row.lease \in {"none", "live", "lapsed"} /\ row.by \in Api \cup {"none"}
        BY <1>1 DEF Rows
  <2>2. NoRow.token \notin Token /\ row.token # NoToken
        BY <2>1, AgentAuthAssumption DEF NoRow
  <2> QED BY <1>1, <2>1, <2>2
<1>2. CASE row = NoRow
  <2>1. /\ row.token = NoToken /\ row.seq = 0 /\ row.refreshable = FALSE /\ row.pending = FALSE
        /\ row.lease = "none" /\ row.by = "none"
        BY <1>2 DEF NoRow
  <2>2. NoToken \notin Token
        BY AgentAuthAssumption
  <2>3. row \notin Rows
    <3>1. \A r \in Rows : r.token \in Token
          BY DEF Rows
    <3>2. NoRow.token \notin Token
          BY AgentAuthAssumption DEF NoRow
    <3> QED BY <1>2, <3>1, <3>2
  <2>a. row.refreshable \in BOOLEAN /\ row.pending \in BOOLEAN
        BY <2>1, Zenon
  <2>b. row.seq \in Nat
        BY <2>1
  <2>c. row.lease \in {"none", "live", "lapsed"} /\ row.by \in Api \cup {"none"}
        BY <2>1
  <2>4. /\ row.seq \in Nat /\ row.refreshable \in BOOLEAN /\ row.pending \in BOOLEAN
        /\ row.lease \in {"none", "live", "lapsed"} /\ row.by \in Api \cup {"none"}
        BY <2>a, <2>b, <2>c, Zenon
  <2>5. row.token \notin Token
        BY <2>1, <2>2
  <2> QED BY <1>2, <2>1, <2>3, <2>4, <2>5
<1> QED BY <1>1, <1>2

LEMMA NoRowFacts ==
    /\ NoRow.seq = 0 /\ NoRow.token = NoToken /\ NoRow.refreshable = FALSE
    /\ NoRow.lease = "none" /\ NoRow.by = "none" /\ NoRow.login = 0
BY DEF NoRow

\* What is granted is a row like any other, without a lease.
LEMMA GrantedFacts ==
    ASSUME NEW t \in Token, NEW l \in 1..MaxLogins, NEW row \in GrantedTokens(t, l)
    PROVE  /\ row \in GrantedRows /\ row \in Rows /\ row # NoRow
           /\ row.token = t /\ row.login = l /\ row.refreshable \in BOOLEAN
<1>1. PICK p \in BOOLEAN, g \in BOOLEAN : row = Granted(t, l, p, g)
      BY DEF GrantedTokens
<1>2. /\ row.token = t /\ row.login = l /\ row.refreshable = g
      /\ row.lease = "none" /\ row.by = "none"
      BY <1>1 DEF NoRow, Granted
<1>3. row \in Rows
      BY <1>1 DEF NoRow, Rows, Granted
<1> QED
    BY <1>2, <1>3, AgentAuthAssumption, NoRowFacts DEF GrantedRows

LEMMA FreshFacts ==
    TokenLeft => FreshToken \in Token /\ FreshToken \notin HeldTokens
BY DEF TokenLeft, FreshToken

\* A row written over one that is there.
LEMMA RotatedFacts ==
    ASSUME NEW rev \in SecurityRevision, NEW row \in Rows, Types
    PROVE  LET new == Rotated(rev, row)
           IN  /\ new \in Rows /\ new # NoRow
               /\ new.seq = credential[rev].seq + 1 /\ new.token = row.token
               /\ new.login = row.login /\ new.refreshable = row.refreshable
               /\ new.pending = row.pending /\ new.lease = "none" /\ new.by = "none"
               /\ new.expiring = row.expiring
<1>1. credential[rev].seq \in Nat
      BY RowFacts DEF Types
<1>2. credential[rev].seq + 1 \in Nat /\ "none" \in {"none", "live", "lapsed"}
      BY <1>1
<1>3. [row EXCEPT !.seq = credential[rev].seq + 1, !.lease = "none", !.by = "none"] \in Rows
      BY <1>2 DEF Rows
<1>4. Rotated(rev, row) \in Rows
      BY <1>3 DEF Rotated
<1>5. Rotated(rev, row) # NoRow
      BY <1>4, RowFacts
<1> QED
    BY <1>4, <1>5 DEF Rotated, Rows

LEMMA AuthInitInv == AuthInit => AuthInv
<1> SUFFICES ASSUME AuthInit PROVE AuthInv
    OBVIOUS
<1> USE DEF AuthInit
<1>0. 1 \in SecurityRevision
      BY AgentAuthAssumption DEF SecurityRevision
<1>1. Types
      BY <1>0, AgentAuthAssumption
      DEF Types, CallStates, FlightStates, LoginStates, NoCall, NoFlight, NoLogin, Flights
<1>2. Shapes
      BY NoRowFacts DEF Shapes, Verifying, Active, NoCall, NoFlight, NoLogin, Flights
<1>3. TokensApart
  <2> DEFINE o == [t \in Token |-> InLogin]
  <2>1. o \in [Token -> Places]
        BY DEF Places
  <2>2. Owned(o)
        BY DEF Owned, Present, NoCall, NoFlight, NoLogin, Flights
  <2> QED BY <2>1, <2>2 DEF TokensApart
<1>4. Known
      BY DEF Known, Present, Active, Verifying, Used, NoCall, NoFlight, Flights
<1>5. Snapshots /\ SameRotation /\ Readings
      BY DEF Snapshots, SameRotation, Readings, Present, Active, Verifying, Used, NoCall,
             NoFlight, Flights
<1>6. LeaseKept /\ LeaseAlone
      BY DEF LeaseKept, LeaseAlone, Leased, NoFlight, Flights
<1>7. Honoured
      BY NoRowFacts DEF Honoured, NoFlight, NoLogin, Flights
<1>8. LatestLoginKept
      BY DEF LatestLoginKept, Present
<1> QED BY <1>1, <1>2, <1>3, <1>4, <1>5, <1>6, <1>7, <1>8 DEF AuthInv

-----------------------------------------------------------------------------
(***************************************************************************)
(* Most steps take nothing new in hand: rows lose or keep what snapshots   *)
(* are compared with, refreshes and requests go on with what they have or  *)
(* drop it.                                                                *)
(***************************************************************************)
CalmRow(rev) ==
    \/ credential'[rev] = NoRow
    \/ /\ credential'[rev] # NoRow /\ credential[rev] # NoRow
       /\ credential'[rev].seq = credential[rev].seq
       /\ credential'[rev].token = credential[rev].token
       /\ credential'[rev].login = credential[rev].login
       /\ credential'[rev].refreshable = credential[rev].refreshable
       /\ credential'[rev].pending = credential[rev].pending

CalmFlight(f) ==
    \/ /\ refresh'[f].at \in {"none", "wait"}
       /\ refresh'[f].token = NoToken /\ refresh'[f].next = NoRow
    \/ /\ refresh[f].at \notin {"none", "wait"} /\ refresh'[f].at \notin {"none", "wait"}
       /\ refresh'[f].seq = refresh[f].seq /\ refresh'[f].token = refresh[f].token
       /\ refresh'[f].login = refresh[f].login
       /\ refresh'[f].refreshable = refresh[f].refreshable
       /\ refresh'[f].next = refresh[f].next
       /\ refresh'[f].at = "complete" <=> refresh[f].at = "complete"

CalmCall(c) ==
    \/ /\ call'[c].token = NoToken
       /\ call'[c].at \notin {"verify", "replace", "send", "recover", "delete"}
    \/ /\ call'[c].rev = call[c].rev /\ call'[c].seq = call[c].seq
       /\ call'[c].token = call[c].token
       /\ \/ call[c].at \in {"verify", "replace"} /\ call'[c].at \in {"verify", "replace"}
          \/ call[c].at \in {"send", "recover", "delete"}
             /\ call'[c].at \in {"send", "recover", "delete"}

Calm ==
    /\ \A rev \in SecurityRevision : CalmRow(rev)
    /\ \A f \in Flights : CalmFlight(f)
    /\ \A c \in Call : CalmCall(c)
    /\ login'.row \in {login.row, NoRow}
    /\ UNCHANGED <<valid, spent, latest, recreated>>
    /\ torn => torn'

\* Only what tears a refresh stops one whose token is retired already.
CalmAnswer(f) ==
    refresh[f].at = "complete" /\ credential'[f[2]] # NoRow
    => torn' \/ f[2] \in recreated \/ refresh'[f].at = "complete"
       \/ credential[f[2]].seq # refresh[f].seq

\* Leases move only as a refresh gives its lease back.
CalmLease ==
    \A f \in Flights :
        /\ Leased(f)' => Leased(f)
        /\ (Leased(f)' /\ credential'[f[2]] # NoRow /\ credential'[f[2]].seq = refresh'[f].seq
            /\ ~torn' /\ f[2] \notin recreated)
           => /\ credential'[f[2]].lease = credential[f[2]].lease
              /\ credential'[f[2]].by = credential[f[2]].by
        /\ CalmAnswer(f)

LEMMA CalmKeepsTokens == TokensApart /\ Calm => TokensApart'
<1> SUFFICES ASSUME TokensApart, Calm PROVE TokensApart'
    OBVIOUS
<1>1. PICK o \in [Token -> Places] : Owned(o)
      BY DEF TokensApart
<1>2. \A rev \in SecurityRevision :
          credential'[rev] # NoRow => o[credential'[rev].token] = InRow(rev)
      BY <1>1 DEF Owned, Calm, CalmRow, Present
<1>3. \A c \in Call : call'[c].token # NoToken => o[call'[c].token] = InRow(call'[c].rev)
      BY <1>1 DEF Owned, Calm, CalmCall
<1>4. \A f \in Flights : refresh'[f].token # NoToken => o[refresh'[f].token] = InRow(f[2])
      BY <1>1 DEF Owned, Calm, CalmFlight
<1>5. \A f \in Flights : refresh'[f].next # NoRow => o[refresh'[f].next.token] = InNext(f)
      BY <1>1 DEF Owned, Calm, CalmFlight
<1>6. login'.row # NoRow => o[login'.row.token] = InLogin
      BY <1>1 DEF Owned, Calm
<1>7. Owned(o)'
      BY <1>2, <1>3, <1>4, <1>5, <1>6 DEF Owned, Present, InRow, InNext, InLogin
<1>8. o \in [Token -> Places]'
      BY <1>1 DEF Places, InRow, InNext, InLogin, Flights, SecurityRevision
<1> QED BY <1>7, <1>8 DEF TokensApart

LEMMA CalmKeeps ==
    ASSUME AuthInv, Types', Calm
    PROVE  Known' /\ Snapshots' /\ SameRotation' /\ Readings' /\ LatestLoginKept'
<1>1. Known'
      BY DEF AuthInv, Known, Calm, CalmRow, CalmFlight, CalmCall, Present, Active, Verifying, Used
<1>2. Snapshots'
      BY DEF AuthInv, Snapshots, Calm, CalmRow, CalmFlight, Present, Active, Flights
<1>3. SameRotation'
      BY DEF AuthInv, SameRotation, Calm, CalmFlight, Active
<1>4. Readings'
      BY DEF AuthInv, Types, CallStates, Readings, Calm, CalmRow, CalmCall, Present, Verifying,
             Used
<1>5. LatestLoginKept'
      BY DEF AuthInv, LatestLoginKept, Calm, CalmRow, Present
<1> QED BY <1>1, <1>2, <1>3, <1>4, <1>5

LEMMA CalmKeepsHonoured ==
    ASSUME AuthInv, Calm, \A f \in Flights : CalmAnswer(f)
    PROVE  Honoured'
<1>1. Honoured'
  <2>1. \A f \in Flights : refresh'[f].next # NoRow /\ refresh'[f].next.refreshable
                           => refresh'[f].next.token \in valid'
        BY DEF AuthInv, Honoured, Calm, CalmFlight
  <2>2. login'.row # NoRow /\ login'.row.refreshable => login'.row.token \in valid'
        BY DEF AuthInv, Honoured, Calm
  <2>3. ASSUME NEW rev \in SecurityRevision, credential'[rev].refreshable, ~torn',
               rev \notin recreated', credential'[rev].token \notin valid',
               credential'[rev].token \notin spent'
        PROVE  \E p \in Api : /\ refresh'[<<p, rev>>].at = "complete"
                              /\ refresh'[<<p, rev>>].seq = credential'[rev].seq
    <3>1. credential'[rev] # NoRow
          BY <2>3, NoRowFacts
    <3>2. /\ credential[rev].refreshable = credential'[rev].refreshable
          /\ credential[rev].token = credential'[rev].token
          /\ credential[rev].seq = credential'[rev].seq
          BY <3>1 DEF Calm, CalmRow
    <3>3. PICK p \in Api : /\ refresh[<<p, rev>>].at = "complete"
                           /\ refresh[<<p, rev>>].seq = credential[rev].seq
          BY <2>3, <3>2 DEF AuthInv, Honoured, Calm
    <3>4. <<p, rev>> \in Flights /\ <<p, rev>>[2] = rev
          BY DEF Flights
    <3>5. refresh'[<<p, rev>>].at = "complete"
          BY <2>3, <3>1, <3>3, <3>4 DEF CalmAnswer, Calm
    <3>6. refresh'[<<p, rev>>].seq = refresh[<<p, rev>>].seq
          BY <3>4, <3>5 DEF Calm, CalmFlight
    <3> QED BY <3>2, <3>3, <3>5, <3>6
  <2> QED BY <2>1, <2>2, <2>3 DEF Honoured
<1> QED BY <1>1

LEMMA CalmLeaseKeeps ==
    ASSUME AuthInv, Types', Calm, CalmLease
    PROVE  LeaseKept' /\ LeaseAlone' /\ Honoured'
<1>1. LeaseKept'
      BY DEF AuthInv, LeaseKept, Calm, CalmRow, CalmFlight, CalmLease, Leased, Present, Flights
<1>2. LeaseAlone'
      BY DEF AuthInv, LeaseAlone, Calm, CalmFlight, CalmLease, Leased
<1>3. \A f \in Flights : CalmAnswer(f)
      BY DEF CalmLease
<1> QED BY <1>1, <1>2, <1>3, CalmKeepsHonoured

LEMMA CalmStep ==
    ASSUME AuthInv, Types', Shapes', Calm, CalmLease
    PROVE  AuthInv'
BY CalmKeepsTokens, CalmKeeps, CalmLeaseKeeps DEF AuthInv

\* What is left alone is calm.
LEMMA SameIsCalm ==
    ASSUME Shapes
    PROVE  /\ \A rev \in SecurityRevision : credential'[rev] = credential[rev] => CalmRow(rev)
           /\ \A f \in Flights : refresh'[f] = refresh[f] => CalmFlight(f)
           /\ \A c \in Call : call'[c] = call[c] => CalmCall(c)
<1>1. \A rev \in SecurityRevision : credential'[rev] = credential[rev] => CalmRow(rev)
      BY DEF CalmRow
<1>2. \A f \in Flights : refresh'[f] = refresh[f] => CalmFlight(f)
      BY DEF CalmFlight, Shapes, Active
<1>3. \A c \in Call : call'[c] = call[c] => CalmCall(c)
      BY DEF CalmCall, Shapes, Verifying
<1> QED BY <1>1, <1>2, <1>3

LEMMA FirstRevision == 1 \in SecurityRevision
BY AgentAuthAssumption DEF SecurityRevision

LEMMA NoCallFacts ==
    /\ NoCall \in CallStates /\ NoCall.at = "idle" /\ NoCall.token = NoToken
    /\ \A rev \in SecurityRevision, n \in {0, 1} :
          LET new == [NoCall EXCEPT !.at = "read", !.rev = rev, !.round = n]
          IN  new \in CallStates /\ new.at = "read" /\ new.token = NoToken /\ new.rev = rev
    /\ \A rev \in SecurityRevision :
          LET new == [NoCall EXCEPT !.at = "read", !.rev = rev]
          IN  new \in CallStates /\ new.at = "read" /\ new.token = NoToken /\ new.rev = rev
<1> USE FirstRevision
<1>1. NoCall \in CallStates /\ NoCall.at = "idle" /\ NoCall.token = NoToken
      BY DEF NoCall, CallStates
<1>2. ASSUME NEW rev \in SecurityRevision, NEW n \in {0, 1}
      PROVE  [NoCall EXCEPT !.at = "read", !.rev = rev, !.round = n] \in CallStates
      BY <1>1 DEF CallStates
<1>3. ASSUME NEW rev \in SecurityRevision
      PROVE  [NoCall EXCEPT !.at = "read", !.rev = rev] \in CallStates
      BY <1>1 DEF CallStates
<1> QED BY <1>1, <1>2, <1>3 DEF NoCall

LEMMA NoFlightFacts ==
    /\ NoFlight \in FlightStates /\ NoFlight.at = "none" /\ NoFlight.token = NoToken
    /\ NoFlight.next = NoRow
    /\ \A n \in Nat : LET new == [NoFlight EXCEPT !.at = "wait", !.seq = n]
                      IN  /\ new \in FlightStates /\ new.at = "wait" /\ new.token = NoToken
                          /\ new.next = NoRow
<1>1. /\ NoFlight \in FlightStates /\ NoFlight.at = "none" /\ NoFlight.token = NoToken
      /\ NoFlight.next = NoRow
      BY AgentAuthAssumption DEF NoFlight, FlightStates
<1>2. ASSUME NEW n \in Nat
      PROVE  [NoFlight EXCEPT !.at = "wait", !.seq = n] \in FlightStates
      BY <1>1 DEF FlightStates
<1> QED BY <1>1, <1>2 DEF NoFlight

LEMMA NoLoginFacts ==
    /\ NoLogin \in LoginStates /\ NoLogin.at = "none" /\ NoLogin.row = NoRow
BY FirstRevision DEF NoLogin, LoginStates

\* One request moves on without anything in hand.
LEMMA CallSteps ==
    ASSUME Types, Shapes, NEW c \in Call, NEW new \in CallStates, new.at \in {"idle", "read"},
           new.token = NoToken, call' = [call EXCEPT ![c] = new]
    PROVE  /\ call' \in [Call -> CallStates]
           /\ call'[c] = new /\ \A d \in Call : d # c => call'[d] = call[d]
           /\ \A d \in Call : CalmCall(d)
<1>1. /\ call' \in [Call -> CallStates]
      /\ call'[c] = new /\ \A d \in Call : d # c => call'[d] = call[d]
      BY DEF Types
<1>2. CalmCall(c)
      BY <1>1 DEF CalmCall
<1> QED BY <1>1, <1>2, SameIsCalm

LEMMA WaitsFacts ==
    ASSUME Types, Shapes, NEW f \in Flights, Waits(f)
    PROVE  /\ refresh' \in [Flights -> FlightStates]
           /\ refresh'[f].at = "wait" /\ refresh'[f].token = NoToken /\ refresh'[f].next = NoRow
           /\ \A g \in Flights : g # f => refresh'[g] = refresh[g]
           /\ \A g \in Flights : CalmFlight(g)
<1>1. refresh[f].seq \in Nat
      BY DEF Types, FlightStates
<1> DEFINE new == [NoFlight EXCEPT !.at = "wait", !.seq = refresh[f].seq]
<1>2. /\ new \in FlightStates /\ new.at = "wait" /\ new.token = NoToken
      /\ new.next = NoRow
      BY <1>1, NoFlightFacts
<1>3. refresh' = [refresh EXCEPT ![f] = new]
      BY DEF Waits
<1> HIDE DEF new
<1>4. /\ refresh' \in [Flights -> FlightStates] /\ refresh'[f] = new
      /\ \A g \in Flights : g # f => refresh'[g] = refresh[g]
      BY <1>2, <1>3 DEF Types
<1>5. CalmFlight(f)
      BY <1>2, <1>4 DEF CalmFlight
<1> QED BY <1>2, <1>4, <1>5, SameIsCalm

LEMMA FlightEndsFacts ==
    ASSUME Types, Shapes, NEW f \in Flights, NEW outcome, FlightEnds(f, outcome)
    PROVE  /\ refresh' \in [Flights -> FlightStates] /\ call' \in [Call -> CallStates]
           /\ refresh'[f].at = "none" /\ refresh'[f].token = NoToken /\ refresh'[f].next = NoRow
           /\ \A g \in Flights : g # f => refresh'[g] = refresh[g]
           /\ \A g \in Flights : CalmFlight(g)
           /\ \A c \in Call : CalmCall(c)
           /\ \A c \in Call :
                 call'[c].at = "await" => call'[c] = call[c] /\ Flight(c) # f
           /\ \A c \in Call : call'[c].token # NoToken => call'[c] = call[c]
           /\ \A c \in Call : call'[c] = call[c] \/ call'[c].at \in {"idle", "read"}
<1>1. refresh' = [refresh EXCEPT ![f] = NoFlight]
      BY DEF FlightEnds
<1>2. /\ refresh' \in [Flights -> FlightStates] /\ refresh'[f] = NoFlight
      /\ \A g \in Flights : g # f => refresh'[g] = refresh[g]
      BY <1>1, NoFlightFacts DEF Types
<1>3. CalmFlight(f)
      BY <1>2, NoFlightFacts DEF CalmFlight
<1>4. ASSUME NEW c \in Call
      PROVE  /\ call'[c] \in CallStates
             /\ call[c].at = "await" /\ Flight(c) = f =>
                   call'[c].at \in {"idle", "read"} /\ call'[c].token = NoToken
             /\ ~(call[c].at = "await" /\ Flight(c) = f) => call'[c] = call[c]
  <2>1. call[c] \in CallStates
        BY DEF Types
  <2>2. CASE ~(call[c].at = "await" /\ Flight(c) = f)
        BY <2>1, <2>2 DEF FlightEnds
  <2>3. CASE call[c].at = "await" /\ Flight(c) = f
    <3>1. call[c].token = NoToken
          BY <2>3 DEF Shapes, Verifying
    <3>2. CASE outcome = "failed"
          BY <2>3, <3>2, NoCallFacts DEF FlightEnds
    <3>3. CASE outcome # "failed" /\ call[c].purpose = "recover"
      <4>1. Retries(c)[c] = [NoCall EXCEPT !.at = "read", !.rev = revision, !.round = 1]
            BY DEF Retries, Types
      <4>2. call'[c] = [NoCall EXCEPT !.at = "read", !.rev = revision, !.round = 1]
            BY <2>3, <3>3, <4>1 DEF FlightEnds
      <4>3. revision \in SecurityRevision /\ 1 \in {0, 1}
            BY DEF Types
      <4> DEFINE new == [NoCall EXCEPT !.at = "read", !.rev = revision, !.round = 1]
      <4>4. new \in CallStates /\ new.at = "read" /\ new.token = NoToken
            BY <4>3, NoCallFacts
      <4>5. call'[c] = new
            BY <4>2
      <4> HIDE DEF new
      <4> QED BY <4>4, <4>5, <2>3
    <3>4. CASE outcome # "failed" /\ call[c].purpose # "recover"
      <4>1. call'[c] = [call[c] EXCEPT !.at = "read", !.attempt = @ + 1]
            BY <2>3, <3>4 DEF FlightEnds
      <4>2. call[c].attempt + 1 \in Nat
            BY <2>1 DEF CallStates
      <4>3. [call[c] EXCEPT !.at = "read", !.attempt = call[c].attempt + 1] \in CallStates
            BY <2>1, <4>2 DEF CallStates
      <4>4. call'[c] \in CallStates
            BY <4>1, <4>3
      <4>5. call'[c].at = "read" /\ call'[c].token = call[c].token
            BY <2>1, <4>1 DEF CallStates
      <4> QED BY <2>3, <3>1, <4>4, <4>5
    <3> QED BY <3>2, <3>3, <3>4
  <2> QED BY <2>2, <2>3
<1>5. call' \in [Call -> CallStates]
  <2>1. call' = [c \in Call |-> call'[c]]
        BY DEF FlightEnds
  <2> QED BY <2>1, <1>4
<1>6. ASSUME NEW c \in Call PROVE CalmCall(c)
  <2>1. CASE call[c].at = "await" /\ Flight(c) = f
        BY <2>1, <1>4 DEF CalmCall
  <2>2. CASE ~(call[c].at = "await" /\ Flight(c) = f)
        BY <2>2, <1>4, SameIsCalm
  <2> QED BY <2>1, <2>2
<1> QED BY <1>2, <1>3, <1>4, <1>5, <1>6, SameIsCalm, NoFlightFacts

-----------------------------------------------------------------------------
(***************************************************************************)
(* The calm steps                                                          *)
(***************************************************************************)
\* A login starts, fails or goes on, or the connection's revision moves: no
\* row, request or refresh changes.
LEMMA NoRowMoves ==
    ASSUME AuthInv, UNCHANGED <<servedBy, credential, call, refresh, valid, spent, latest,
                                recreated, torn>>,
           revision' \in SecurityRevision, login' \in LoginStates, logins' \in 0..MaxLogins,
           login'.row \in {login.row, NoRow},
           login'.row # NoRow <=> login'.at \in {"exchanged", "storing"},
           login'.at # "none" => logins' # 0
    PROVE  AuthInv'
<1>1. Types'
      BY DEF AuthInv, Types
<1>2. Shapes'
      BY DEF AuthInv, Shapes, Verifying, Active, Flight
<1>3. Calm
      BY SameIsCalm DEF AuthInv, Calm
<1>4. CalmLease
      BY DEF CalmLease, CalmAnswer, Leased
<1> QED BY <1>1, <1>2, <1>3, <1>4, CalmStep

LEMMA LoginStartsInv ==
    ASSUME AuthInv, LoginStarts
    PROVE  AuthInv'
<1>1. /\ login' = [NoLogin EXCEPT !.at = "started", !.rev = revision]
      /\ revision \in SecurityRevision
      BY DEF LoginStarts, AuthInv, Types
<1>2. login' \in LoginStates
      BY <1>1, NoLoginFacts DEF LoginStates
<1>3. login'.row = NoRow /\ login'.at = "started"
      BY <1>1 DEF NoLogin
<1>4. logins' \in 0..MaxLogins /\ logins' # 0
      BY AgentAuthAssumption DEF LoginStarts, AuthInv, Types
<1> QED BY <1>2, <1>3, <1>4, NoRowMoves
        DEF LoginStarts, connectionVars, tokenVars, AuthInv, Types

LEMMA CallbackFailsInv ==
    ASSUME AuthInv, CallbackFails
    PROVE  AuthInv'
BY NoLoginFacts, NoRowMoves DEF CallbackFails, connectionVars, tokenVars, AuthInv, Types

LEMMA CallbackRechecksInv ==
    ASSUME AuthInv, CallbackRechecks
    PROVE  AuthInv'
<1>1. login \in LoginStates /\ login' = [login EXCEPT !.at = "storing"]
      BY DEF AuthInv, Types, CallbackRechecks
<1>2. login' \in LoginStates
      BY <1>1 DEF LoginStates
<1>3. login'.row = login.row /\ login'.at = "storing"
      BY <1>1 DEF LoginStates
<1> QED BY <1>2, <1>3, NoRowMoves
        DEF CallbackRechecks, connectionVars, tokenVars, AuthInv, Types, Shapes

LEMMA ConnectionChangesInv ==
    ASSUME AuthInv, ConnectionChanges
    PROVE  AuthInv'
<1>1. revision' \in SecurityRevision
      BY AgentAuthAssumption DEF AuthInv, Types, ConnectionChanges, SecurityRevision
<1> QED BY <1>1, NoRowMoves DEF ConnectionChanges, loginVars, tokenVars, AuthInv, Types, Shapes

\* Rows are deleted, or change in what no snapshot holds: their age, their lease.
LEMMA OnlyRowsMove ==
    ASSUME AuthInv, UNCHANGED <<servedBy, revision, login, logins, call, refresh, valid, spent,
                                latest, recreated>>,
           credential' \in [SecurityRevision -> Rows \cup {NoRow}],
           \A rev \in SecurityRevision : CalmRow(rev),
           \A rev \in SecurityRevision :
              credential'[rev].lease = "none" <=> credential'[rev].by = "none",
           torn => torn',
           \A f \in Flights : Leased(f) /\ credential'[f[2]] # NoRow /\ ~torn'
                              /\ f[2] \notin recreated
                              /\ credential[f[2]].seq = refresh[f].seq
              => /\ credential'[f[2]].lease = credential[f[2]].lease
                 /\ credential'[f[2]].by = credential[f[2]].by
    PROVE  AuthInv'
<1>1. Types'
      BY DEF AuthInv, Types
<1>2. Shapes'
      BY DEF AuthInv, Shapes, Verifying, Active, Flight
<1>3. Calm
      BY SameIsCalm DEF AuthInv, Calm
<1>4. CalmLease
      BY DEF CalmLease, CalmAnswer, Leased, CalmRow, Flights
<1> QED BY <1>1, <1>2, <1>3, <1>4, CalmStep

LEMMA StaleCredentialsDeletedInv ==
    ASSUME AuthInv, StaleCredentialsDeleted
    PROVE  AuthInv'
<1>1. \A rev \in SecurityRevision : credential'[rev] \in {NoRow, credential[rev]}
      BY DEF StaleCredentialsDeleted
<1>2. credential' \in [SecurityRevision -> Rows \cup {NoRow}]
      BY DEF StaleCredentialsDeleted, AuthInv, Types
<1>3. \A rev \in SecurityRevision : CalmRow(rev)
      BY <1>1 DEF CalmRow
<1>4. \A rev \in SecurityRevision :
          credential'[rev].lease = "none" <=> credential'[rev].by = "none"
      BY <1>1, NoRowFacts DEF AuthInv, Shapes
<1>5. \A f \in Flights : credential'[f[2]] # NoRow => credential'[f[2]] = credential[f[2]]
      BY <1>1 DEF Flights
<1> QED BY <1>2, <1>3, <1>4, <1>5, OnlyRowsMove
        DEF StaleCredentialsDeleted, loginVars, tokenVars

LEMMA TokenAgesInv ==
    ASSUME AuthInv, NEW rev \in SecurityRevision, TokenAges(rev)
    PROVE  AuthInv'
<1>1. credential[rev] \in Rows
      BY RowFacts DEF AuthInv, Types, TokenAges, Present
<1> DEFINE new == [credential[rev] EXCEPT !.expiring = TRUE]
<1>2. new \in Rows
      BY <1>1 DEF Rows
<1>3. /\ new.seq = credential[rev].seq /\ new.token = credential[rev].token
      /\ new.login = credential[rev].login /\ new.refreshable = credential[rev].refreshable
      /\ new.pending = credential[rev].pending /\ new.lease = credential[rev].lease
      /\ new.by = credential[rev].by
      BY <1>1 DEF Rows
<1>4. credential' = [credential EXCEPT ![rev] = new]
      BY DEF TokenAges
<1>5. new # NoRow /\ credential[rev] # NoRow
      BY <1>1, <1>2, RowFacts
<1> HIDE DEF new
<1>6. /\ credential' \in [SecurityRevision -> Rows \cup {NoRow}] /\ credential'[rev] = new
      /\ \A r \in SecurityRevision : r # rev => credential'[r] = credential[r]
      BY <1>2, <1>4 DEF AuthInv, Types
<1>7. \A r \in SecurityRevision : CalmRow(r)
      BY <1>3, <1>5, <1>6 DEF CalmRow
<1>8. \A r \in SecurityRevision :
          /\ credential'[r].lease = credential[r].lease
          /\ credential'[r].by = credential[r].by
      BY <1>3, <1>6
<1> QED BY <1>6, <1>7, <1>8, OnlyRowsMove
        DEF TokenAges, connectionVars, loginVars, tokenVars, AuthInv, Shapes, Flights

\* A lease lapses in one row.
LEMMA LapseFacts ==
    ASSUME AuthInv, NEW rev \in SecurityRevision, credential[rev].lease = "live",
           credential' = [credential EXCEPT ![rev].lease = "lapsed"]
    PROVE  /\ credential' \in [SecurityRevision -> Rows \cup {NoRow}]
           /\ \A r \in SecurityRevision : CalmRow(r)
           /\ \A r \in SecurityRevision :
                 credential'[r].lease = "none" <=> credential'[r].by = "none"
           /\ \A r \in SecurityRevision : r # rev => credential'[r] = credential[r]
<1>1. credential[rev] \in Rows /\ credential[rev].by # "none"
      BY RowFacts, NoRowFacts DEF AuthInv, Types, Shapes
<1> DEFINE new == [credential[rev] EXCEPT !.lease = "lapsed"]
<1>2. new \in Rows
      BY <1>1 DEF Rows
<1>3. /\ new.seq = credential[rev].seq /\ new.token = credential[rev].token
      /\ new.login = credential[rev].login /\ new.refreshable = credential[rev].refreshable
      /\ new.pending = credential[rev].pending /\ new.lease = "lapsed"
      /\ new.by = credential[rev].by
      BY <1>1 DEF Rows
<1>4. credential' = [credential EXCEPT ![rev] = new]
      OBVIOUS
<1>5. new # NoRow /\ credential[rev] # NoRow
      BY <1>1, <1>2, RowFacts
<1> HIDE DEF new
<1>6. /\ credential' \in [SecurityRevision -> Rows \cup {NoRow}] /\ credential'[rev] = new
      /\ \A r \in SecurityRevision : r # rev => credential'[r] = credential[r]
      BY <1>2, <1>4 DEF AuthInv, Types
<1>7. \A r \in SecurityRevision : CalmRow(r)
      BY <1>3, <1>5, <1>6 DEF CalmRow
<1> QED BY <1>1, <1>3, <1>6, <1>7 DEF AuthInv, Shapes

LEMMA LeaseRunsOutInv ==
    ASSUME AuthInv, NEW rev \in SecurityRevision, LeaseRunsOut(rev)
    PROVE  AuthInv'
<1>1. torn' /\ credential[rev].lease = "live"
      /\ credential' = [credential EXCEPT ![rev].lease = "lapsed"]
      BY DEF LeaseRunsOut
<1> QED BY <1>1, LapseFacts, OnlyRowsMove
        DEF LeaseRunsOut, connectionVars, loginVars, tokenVars

\* Who holds the lease by its name has not finished: an abandoned one is of
\* nobody whose refresh still counts on it.
LEMMA AbandonedLeaseRunsOutInv ==
    ASSUME AuthInv, NEW rev \in SecurityRevision, AbandonedLeaseRunsOut(rev)
    PROVE  AuthInv'
<1>1. /\ credential[rev].lease = "live"
      /\ credential' = [credential EXCEPT ![rev].lease = "lapsed"]
      /\ refresh[<<credential[rev].by, rev>>].at \notin {"provider", "complete", "release"}
      BY DEF AbandonedLeaseRunsOut
<1>2. credential[rev] # NoRow
      BY <1>1, NoRowFacts
<1>3. ASSUME NEW f \in Flights, Leased(f), ~torn, f[2] \notin recreated,
             credential[f[2]].seq = refresh[f].seq
      PROVE  f[2] # rev
  <2>1. SUFFICES ASSUME f[2] = rev PROVE FALSE
        OBVIOUS
  <2>2. credential[rev].by = f[1]
        BY <1>2, <1>3, <2>1 DEF AuthInv, LeaseKept, Present
  <2>3. f = <<credential[rev].by, rev>>
        BY <2>1, <2>2 DEF Flights
  <2> QED BY <1>1, <1>3, <2>3 DEF Leased
<1>4. \A f \in Flights : f[2] \in SecurityRevision
      BY DEF Flights
<1> QED BY <1>1, <1>3, <1>4, LapseFacts, OnlyRowsMove
        DEF AbandonedLeaseRunsOut, connectionVars, loginVars, tokenVars

\* One request moves, and no row or refresh does.
LEMMA OnlyCallMoves ==
    ASSUME AuthInv, UNCHANGED <<servedBy, revision, credential, login, logins, refresh, valid,
                                spent, latest, recreated, torn>>,
           call' \in [Call -> CallStates],
           \A c \in Call : CalmCall(c),
           \A c \in Call : Verifying(c)' <=> call'[c].token # NoToken,
           \A c \in Call : call'[c].at = "await" => call'[c] = call[c]
    PROVE  AuthInv'
<1>1. Types'
      BY DEF AuthInv, Types
<1>2. Shapes'
      BY DEF AuthInv, Shapes, Active, Flight, Verifying
<1>3. Calm
      BY SameIsCalm DEF AuthInv, Calm
<1>4. CalmLease
      BY DEF CalmLease, CalmAnswer, Leased
<1> QED BY <1>1, <1>2, <1>3, <1>4, CalmStep

LEMMA CallEnds ==
    ASSUME AuthInv, NEW c \in Call, NEW new \in CallStates, new.at \in {"idle", "read"},
           new.token = NoToken, call' = [call EXCEPT ![c] = new],
           UNCHANGED <<servedBy, revision, credential, login, logins, refresh, valid,
                       spent, latest, recreated, torn>>
    PROVE  AuthInv'
<1>1. /\ call' \in [Call -> CallStates]
      /\ call'[c] = new /\ \A d \in Call : d # c => call'[d] = call[d]
      /\ \A d \in Call : CalmCall(d)
      BY CallSteps DEF AuthInv
<1>2. \A d \in Call : Verifying(d)' <=> call'[d].token # NoToken
      BY <1>1 DEF AuthInv, Shapes, Verifying
<1> QED BY <1>1, <1>2, OnlyCallMoves

LEMMA CallStartsInv ==
    ASSUME AuthInv, NEW c \in Call, CallStarts(c)
    PROVE  AuthInv'
<1> DEFINE new == [NoCall EXCEPT !.at = "read", !.rev = revision]
<1>1. new \in CallStates /\ new.at = "read" /\ new.token = NoToken
      BY NoCallFacts DEF AuthInv, Types
<1>2. call' = [call EXCEPT ![c] = new]
      BY DEF CallStarts
<1> HIDE DEF new
<1> QED BY <1>1, <1>2, CallEnds DEF CallStarts, connectionVars, loginVars, tokenVars

LEMMA VerificationFailsInv ==
    ASSUME AuthInv, NEW c \in Call, VerificationFails(c)
    PROVE  AuthInv'
BY NoCallFacts, CallEnds DEF VerificationFails, Answers, connectionVars, loginVars, tokenVars

\* A request goes on with what it holds.
LEMMA CallGoesOn ==
    ASSUME AuthInv, NEW c \in Call, NEW s,
           \/ call[c].at = "verify" /\ s = "replace"
           \/ call[c].at = "send" /\ s = "recover"
           \/ call[c].at = "recover" /\ s = "delete",
           call' = [call EXCEPT ![c].at = s],
           UNCHANGED <<servedBy, revision, credential, login, logins, refresh, valid,
                       spent, latest, recreated, torn>>
    PROVE  AuthInv'
<1>1. call[c] \in CallStates
      BY DEF AuthInv, Types
<1> DEFINE new == [call[c] EXCEPT !.at = s]
<1>2. s \in {"idle", "read", "verify", "replace", "send", "recover", "delete", "await"}
      OBVIOUS
<1>3. new \in CallStates
      BY <1>1, <1>2 DEF CallStates
<1>4. /\ new.at = s /\ new.rev = call[c].rev /\ new.seq = call[c].seq
      /\ new.token = call[c].token
      BY <1>1 DEF CallStates
<1>5. call' = [call EXCEPT ![c] = new]
      OBVIOUS
<1> HIDE DEF new
<1>6. /\ call' \in [Call -> CallStates] /\ call'[c] = new
      /\ \A d \in Call : d # c => call'[d] = call[d]
      BY <1>3, <1>5 DEF AuthInv, Types
<1>7. CalmCall(c)
      BY <1>4, <1>6 DEF CalmCall
<1>8. \A d \in Call : CalmCall(d)
      BY <1>6, <1>7, SameIsCalm DEF AuthInv
<1>9. \A d \in Call : Verifying(d)' <=> call'[d].token # NoToken
      BY <1>4, <1>6 DEF AuthInv, Shapes, Verifying
<1> QED BY <1>4, <1>6, <1>8, <1>9, OnlyCallMoves

LEMMA PendingVerifiedInv ==
    ASSUME AuthInv, NEW c \in Call, PendingVerified(c)
    PROVE  AuthInv'
BY CallGoesOn DEF PendingVerified, connectionVars, loginVars, tokenVars

LEMMA AgentAnswersInv ==
    ASSUME AuthInv, NEW c \in Call, AgentAnswers(c)
    PROVE  AuthInv'
<1>1. CASE Answers(c)
      BY <1>1, NoCallFacts, CallEnds
      DEF AgentAnswers, Answers, connectionVars, loginVars, tokenVars
<1>2. CASE call' = [call EXCEPT ![c].at = "recover"]
      BY <1>2, CallGoesOn DEF AgentAnswers, connectionVars, loginVars, tokenVars
<1> QED BY <1>1, <1>2 DEF AgentAnswers

\* One row is deleted.
LEMMA DeleteFacts ==
    ASSUME AuthInv, NEW rev \in SecurityRevision,
           \/ credential' = [credential EXCEPT ![rev] = NoRow]
           \/ credential' = credential
    PROVE  /\ credential' \in [SecurityRevision -> Rows \cup {NoRow}]
           /\ \A r \in SecurityRevision : CalmRow(r)
           /\ \A r \in SecurityRevision :
                 credential'[r].lease = "none" <=> credential'[r].by = "none"
           /\ \A r \in SecurityRevision : credential'[r] \in {NoRow, credential[r]}
<1>1. credential' \in [SecurityRevision -> Rows \cup {NoRow}]
      BY DEF AuthInv, Types
<1>2. \A r \in SecurityRevision : credential'[r] \in {NoRow, credential[r]}
      BY DEF AuthInv, Types
<1>3. \A r \in SecurityRevision : CalmRow(r)
      BY <1>2 DEF CalmRow
<1> QED BY <1>1, <1>2, <1>3, NoRowFacts DEF AuthInv, Shapes

LEMMA DeletesRejectedInv ==
    ASSUME AuthInv, NEW c \in Call, DeletesRejected(c)
    PROVE  AuthInv'
<1> USE DEF connectionVars, loginVars, tokenVars
<1>1. call[c].rev \in SecurityRevision
      BY DEF AuthInv, Types, CallStates
<1>2. /\ credential' \in [SecurityRevision -> Rows \cup {NoRow}]
      /\ \A r \in SecurityRevision : CalmRow(r)
      /\ \A r \in SecurityRevision :
            credential'[r].lease = "none" <=> credential'[r].by = "none"
      /\ \A r \in SecurityRevision : credential'[r] \in {NoRow, credential[r]}
      BY <1>1, DeleteFacts DEF DeletesRejected
<1>3. /\ call' \in [Call -> CallStates]
      /\ call'[c] = NoCall /\ \A d \in Call : d # c => call'[d] = call[d]
      /\ \A d \in Call : CalmCall(d)
      BY NoCallFacts, CallSteps DEF AuthInv, DeletesRejected, Answers
<1>4. Types'
      BY <1>2, <1>3 DEF AuthInv, Types, DeletesRejected
<1>u. UNCHANGED <<servedBy, login, logins, refresh>>
      BY DEF DeletesRejected
<1>c. call'[c].at = "idle" /\ call'[c].token = NoToken
      BY <1>3, NoCallFacts
<1>a. \A d \in Call : Verifying(d)' <=> call'[d].token # NoToken
      BY <1>3, <1>c DEF AuthInv, Shapes, Verifying
<1>b. \A d \in Call : call'[d].at = "await" => call'[d] = call[d]
      BY <1>3, <1>c
<1>5. Shapes'
      BY <1>2, <1>a, <1>b, <1>u DEF AuthInv, Shapes, Active, Flight
<1>6. Calm
      BY <1>2, <1>3, SameIsCalm DEF AuthInv, Calm, DeletesRejected
<1>7. CalmLease
      BY <1>2 DEF CalmLease, CalmAnswer, Leased, DeletesRejected, Flights
<1> QED BY <1>4, <1>5, <1>6, <1>7, CalmStep

-----------------------------------------------------------------------------
\* A refresh ends, and with it its row may be deleted or its lease returned.
LEMMA RefreshEnds ==
    ASSUME AuthInv, NEW f \in Flights, NEW outcome, FlightEnds(f, outcome),
           UNCHANGED <<servedBy, revision, login, logins, valid, spent, latest, recreated, torn>>,
           refresh[f].at # "complete",
           credential' \in [SecurityRevision -> Rows \cup {NoRow}],
           \A rev \in SecurityRevision : CalmRow(rev),
           \A rev \in SecurityRevision :
              credential'[rev].lease = "none" <=> credential'[rev].by = "none",
           \A g \in Flights :
              Leased(g) /\ g # f /\ credential'[g[2]] # NoRow /\ ~torn /\ g[2] \notin recreated
              /\ credential[g[2]].seq = refresh[g].seq
              => /\ credential'[g[2]].lease = credential[g[2]].lease
                 /\ credential'[g[2]].by = credential[g[2]].by
    PROVE  AuthInv'
<1>1. /\ refresh' \in [Flights -> FlightStates] /\ call' \in [Call -> CallStates]
      /\ refresh'[f].at = "none" /\ refresh'[f].token = NoToken /\ refresh'[f].next = NoRow
      /\ \A g \in Flights : g # f => refresh'[g] = refresh[g]
      /\ \A g \in Flights : CalmFlight(g)
      /\ \A c \in Call : CalmCall(c)
      /\ \A c \in Call : call'[c].at = "await" => call'[c] = call[c] /\ Flight(c) # f
      /\ \A c \in Call : call'[c].token # NoToken => call'[c] = call[c]
      /\ \A c \in Call : call'[c] = call[c] \/ call'[c].at \in {"idle", "read"}
      BY FlightEndsFacts DEF AuthInv
<1>2. Types'
      BY <1>1 DEF AuthInv, Types
<1>3. Shapes'
  <2>1. \A c \in Call : Verifying(c)' <=> call'[c].token # NoToken
        BY <1>1 DEF AuthInv, Shapes, Verifying
  <2>2. \A c \in Call : call'[c].at = "await"
                        => refresh'[<<servedBy'[c], call'[c].rev>>].at # "none"
    <3> SUFFICES ASSUME NEW c \in Call, call'[c].at = "await"
                 PROVE  refresh'[<<servedBy'[c], call'[c].rev>>].at # "none"
        OBVIOUS
    <3>1. call'[c] = call[c] /\ Flight(c) # f
          BY <1>1
    <3>2. Flight(c) \in Flights /\ Flight(c) = <<servedBy'[c], call'[c].rev>>
          BY <3>1 DEF Flight, Flights, AuthInv, Types, CallStates
    <3> QED BY <1>1, <3>1, <3>2 DEF AuthInv, Shapes
  <2>3. \A g \in Flights : /\ Active(g)' <=> refresh'[g].token # NoToken
                           /\ Active(g)' => refresh'[g].login # 0
        BY <1>1 DEF AuthInv, Shapes, Active
  <2>4. \A g \in Flights :
          /\ refresh'[g].at = "complete" => refresh'[g].next # NoRow
          /\ refresh'[g].next # NoRow => /\ refresh'[g].at = "complete"
                                         /\ refresh'[g].next.login = refresh'[g].login
        BY <1>1 DEF AuthInv, Shapes
  <2> QED BY <2>1, <2>2, <2>3, <2>4 DEF AuthInv, Shapes, Flight
<1>4. Calm
      BY <1>1 DEF AuthInv, Calm
<1>5. CalmLease
      BY <1>1 DEF CalmLease, CalmAnswer, Leased, CalmRow, Flights
<1> QED BY <1>2, <1>3, <1>4, <1>5, CalmStep

LEMMA WaitsForRefreshWinnerInv ==
    ASSUME AuthInv, NEW f \in Flights, WaitsForRefreshWinner(f)
    PROVE  AuthInv'
<1>1. PICK outcome \in {"failed", "refreshed"} : FlightEnds(f, outcome)
      BY DEF WaitsForRefreshWinner
<1>2. refresh[f].at = "wait"
      /\ UNCHANGED <<servedBy, revision, credential, login, logins, valid, spent, latest,
                     recreated, torn>>
      BY DEF WaitsForRefreshWinner, connectionVars, loginVars, tokenVars
<1>3. \A rev \in SecurityRevision : CalmRow(rev)
      BY <1>2, SameIsCalm DEF AuthInv
<1> QED BY <1>1, <1>2, <1>3, RefreshEnds DEF AuthInv, Types, Shapes

LEMMA DeletesUngrantedInv ==
    ASSUME AuthInv, NEW f \in Flights, DeletesUngranted(f)
    PROVE  AuthInv'
<1>1. FlightEnds(f, "failed") /\ refresh[f].at = "delete"
      /\ UNCHANGED <<servedBy, revision, login, logins, valid, spent, latest, recreated, torn>>
      BY DEF DeletesUngranted, connectionVars, loginVars, tokenVars
<1>2. f[2] \in SecurityRevision
      BY DEF Flights
<1>3. /\ credential' \in [SecurityRevision -> Rows \cup {NoRow}]
      /\ \A r \in SecurityRevision : CalmRow(r)
      /\ \A r \in SecurityRevision :
            credential'[r].lease = "none" <=> credential'[r].by = "none"
      /\ \A r \in SecurityRevision : credential'[r] \in {NoRow, credential[r]}
      BY <1>2, DeleteFacts DEF DeletesUngranted
<1>4. \A g \in Flights : credential'[g[2]] # NoRow => credential'[g[2]] = credential[g[2]]
      BY <1>3 DEF Flights
<1> QED BY <1>1, <1>3, <1>4, RefreshEnds

\* A refresh goes on with what it has read.
LEMMA FlightGoesOn ==
    ASSUME AuthInv, NEW f \in Flights, NEW s \in {"provider", "release", "delete"},
           NEW new \in FlightStates, Active(f), refresh[f].at # "complete",
           refresh' = [refresh EXCEPT ![f] = new],
           new.at = s, new.seq = refresh[f].seq, new.token = refresh[f].token,
           new.login = refresh[f].login, new.refreshable = refresh[f].refreshable,
           new.next = refresh[f].next
    PROVE  /\ refresh' \in [Flights -> FlightStates]
           /\ refresh'[f] = new /\ \A g \in Flights : g # f => refresh'[g] = refresh[g]
           /\ \A g \in Flights : CalmFlight(g)
           /\ \A g \in Flights :
                 /\ Active(g)' <=> refresh'[g].token # NoToken
                 /\ Active(g)' => refresh'[g].login # 0
                 /\ refresh'[g].at = "complete" => refresh'[g].next # NoRow
                 /\ refresh'[g].next # NoRow => /\ refresh'[g].at = "complete"
                                                /\ refresh'[g].next.login = refresh'[g].login
                 /\ refresh[g].at # "none" => refresh'[g].at # "none"
<1>1. /\ refresh' \in [Flights -> FlightStates]
      /\ refresh'[f] = new /\ \A g \in Flights : g # f => refresh'[g] = refresh[g]
      BY DEF AuthInv, Types
<1>2. CalmFlight(f)
      BY <1>1 DEF CalmFlight, Active
<1>3. \A g \in Flights : CalmFlight(g)
      BY <1>1, <1>2, SameIsCalm DEF AuthInv
<1>4. \A g \in Flights : g # f =>
                 /\ Active(g)' <=> refresh'[g].token # NoToken
                 /\ Active(g)' => refresh'[g].login # 0
                 /\ refresh'[g].at = "complete" => refresh'[g].next # NoRow
                 /\ refresh'[g].next # NoRow => /\ refresh'[g].at = "complete"
                                                /\ refresh'[g].next.login = refresh'[g].login
                 /\ refresh[g].at # "none" => refresh'[g].at # "none"
      BY <1>1 DEF AuthInv, Shapes, Active
<1>5. /\ Active(f)' /\ refresh'[f].token # NoToken /\ refresh'[f].login # 0
      /\ refresh'[f].at # "complete" /\ refresh'[f].next = NoRow /\ refresh'[f].at # "none"
      BY <1>1 DEF AuthInv, Shapes, Active
<1> QED BY <1>1, <1>3, <1>4, <1>5

\* Requests that wait keep their refresh.
LEMMA AwaitKept ==
    ASSUME AuthInv, UNCHANGED <<servedBy, call>>,
           \A g \in Flights : refresh[g].at # "none" => refresh'[g].at # "none"
    PROVE  \A c \in Call : call'[c].at = "await"
                           => refresh'[<<servedBy'[c], call'[c].rev>>].at # "none"
<1> SUFFICES ASSUME NEW c \in Call, call[c].at = "await"
             PROVE  refresh'[<<servedBy[c], call[c].rev>>].at # "none"
    OBVIOUS
<1>1. <<servedBy[c], call[c].rev>> \in Flights
      BY DEF AuthInv, Types, CallStates, Flights
<1> QED BY <1>1 DEF AuthInv, Shapes, Flight

\* A refresh goes on, or stops and waits for another's: only it moves.
LEMMA OnlyFlightMoves ==
    ASSUME AuthInv, UNCHANGED <<servedBy, revision, credential, login, logins, call, valid, spent,
                                latest, recreated, torn>>,
           refresh' \in [Flights -> FlightStates],
           \A g \in Flights : CalmFlight(g),
           \A g \in Flights :
              /\ Active(g)' <=> refresh'[g].token # NoToken
              /\ Active(g)' => refresh'[g].login # 0
              /\ refresh'[g].at = "complete" => refresh'[g].next # NoRow
              /\ refresh'[g].next # NoRow => /\ refresh'[g].at = "complete"
                                             /\ refresh'[g].next.login = refresh'[g].login
              /\ refresh[g].at # "none" => refresh'[g].at # "none"
              /\ Leased(g)' => Leased(g)
              /\ refresh[g].at = "complete" /\ refresh'[g].at # "complete"
                 => torn \/ g[2] \in recreated \/ credential[g[2]] = NoRow
                    \/ credential[g[2]].seq # refresh[g].seq
    PROVE  AuthInv'
<1>1. Types'
      BY DEF AuthInv, Types
<1>2. Shapes'
  <2>1. \A c \in Call : call'[c].at = "await"
                        => refresh'[<<servedBy'[c], call'[c].rev>>].at # "none"
        BY AwaitKept
  <2> QED BY <2>1 DEF AuthInv, Shapes, Verifying, Flight
<1>3. Calm
      BY SameIsCalm DEF AuthInv, Calm
<1>4. CalmLease
      BY DEF CalmLease, CalmAnswer, CalmFlight
<1> QED BY <1>1, <1>2, <1>3, <1>4, CalmStep

LEMMA FlightWaits ==
    ASSUME AuthInv, NEW f \in Flights, Waits(f), Active(f),
           UNCHANGED <<servedBy, revision, credential, login, logins, call, valid, spent,
                       latest, recreated, torn>>,
           refresh[f].at = "complete" => torn \/ f[2] \in recreated \/ credential[f[2]] = NoRow
                                         \/ credential[f[2]].seq # refresh[f].seq
    PROVE  AuthInv'
<1>1. /\ refresh' \in [Flights -> FlightStates]
      /\ refresh'[f].at = "wait" /\ refresh'[f].token = NoToken /\ refresh'[f].next = NoRow
      /\ \A g \in Flights : g # f => refresh'[g] = refresh[g]
      /\ \A g \in Flights : CalmFlight(g)
      BY WaitsFacts DEF AuthInv
<1>2. \A g \in Flights : g # f =>
              /\ Active(g)' <=> refresh'[g].token # NoToken
              /\ Active(g)' => refresh'[g].login # 0
              /\ refresh'[g].at = "complete" => refresh'[g].next # NoRow
              /\ refresh'[g].next # NoRow => /\ refresh'[g].at = "complete"
                                             /\ refresh'[g].next.login = refresh'[g].login
      BY <1>1 DEF AuthInv, Shapes, Active
<1>3. ~Active(f)' /\ ~Leased(f)' /\ refresh'[f].at \notin {"none", "complete"}
      BY <1>1 DEF Active, Leased
<1>4. \A g \in Flights : Leased(g)' => Leased(g)
      BY <1>1, <1>3 DEF Leased
<1>5. \A g \in Flights :
              /\ Active(g)' <=> refresh'[g].token # NoToken
              /\ Active(g)' => refresh'[g].login # 0
              /\ refresh'[g].at = "complete" => refresh'[g].next # NoRow
              /\ refresh'[g].next # NoRow => /\ refresh'[g].at = "complete"
                                             /\ refresh'[g].next.login = refresh'[g].login
              /\ refresh[g].at # "none" => refresh'[g].at # "none"
              /\ refresh[g].at = "complete" /\ refresh'[g].at # "complete"
                 => torn \/ g[2] \in recreated \/ credential[g[2]] = NoRow
                    \/ credential[g[2]].seq # refresh[g].seq
      BY <1>1, <1>2, <1>3
<1> QED BY <1>1, <1>4, <1>5, OnlyFlightMoves

LEMMA ProviderFailsInv ==
    ASSUME AuthInv, NEW f \in Flights,
           \E b \in BOOLEAN :
              refresh' = [refresh EXCEPT ![f] = [refresh[f] EXCEPT !.at = "release", !.grant = b]],
           refresh[f].at = "provider",
           UNCHANGED <<servedBy, revision, credential, login, logins, call, valid, spent,
                       latest, recreated, torn>>
    PROVE  AuthInv'
<1>1. PICK b \in BOOLEAN :
          refresh' = [refresh EXCEPT ![f] = [refresh[f] EXCEPT !.at = "release", !.grant = b]]
      OBVIOUS
<1>2. refresh[f] \in FlightStates
      BY DEF AuthInv, Types
<1> DEFINE new == [refresh[f] EXCEPT !.at = "release", !.grant = b]
<1>3. new \in FlightStates
      BY <1>2 DEF FlightStates
<1>4. /\ new.at = "release" /\ new.seq = refresh[f].seq /\ new.token = refresh[f].token
      /\ new.login = refresh[f].login /\ new.refreshable = refresh[f].refreshable
      /\ new.next = refresh[f].next
      BY <1>2 DEF FlightStates
<1>5. refresh' = [refresh EXCEPT ![f] = new] /\ Active(f)
      BY <1>1 DEF Active
<1> HIDE DEF new
<1>6. /\ refresh' \in [Flights -> FlightStates]
      /\ refresh'[f] = new /\ \A g \in Flights : g # f => refresh'[g] = refresh[g]
      /\ \A g \in Flights : CalmFlight(g)
      /\ \A g \in Flights :
            /\ Active(g)' <=> refresh'[g].token # NoToken
            /\ Active(g)' => refresh'[g].login # 0
            /\ refresh'[g].at = "complete" => refresh'[g].next # NoRow
            /\ refresh'[g].next # NoRow => /\ refresh'[g].at = "complete"
                                           /\ refresh'[g].next.login = refresh'[g].login
            /\ refresh[g].at # "none" => refresh'[g].at # "none"
      BY <1>3, <1>4, <1>5, FlightGoesOn
<1>7. \A g \in Flights : /\ Leased(g)' => Leased(g)
                         /\ refresh[g].at = "complete" => refresh'[g].at = "complete"
      BY <1>6 DEF Leased
<1> QED BY <1>6, <1>7, OnlyFlightMoves

\* A process dies with its refreshes and requests: a torn refresh.
LEMMA ApiCrashesInv ==
    ASSUME AuthInv, NEW p \in Api, ApiCrashes(p)
    PROVE  AuthInv'
<1>1. /\ torn' /\ UNCHANGED <<servedBy, revision, credential, valid, spent, logins, latest,
                              recreated>>
      BY DEF ApiCrashes, connectionVars, tokenVars
<1>2. \A f \in Flights : /\ f[1] = p => refresh'[f] = NoFlight
                         /\ f[1] # p => refresh'[f] = refresh[f]
      BY DEF ApiCrashes, Flights
<1>3. \A c \in Call : /\ servedBy[c] = p => call'[c] = NoCall
                      /\ servedBy[c] # p => call'[c] = call[c]
      BY DEF ApiCrashes
<1>4. refresh' \in [Flights -> FlightStates]
  <2>1. refresh' = [f \in Flights |-> IF f[1] = p THEN NoFlight ELSE refresh[f]]
        BY DEF ApiCrashes, Flights
  <2>2. \A f \in Flights : refresh[f] \in FlightStates /\ NoFlight \in FlightStates
        BY NoFlightFacts DEF AuthInv, Types
  <2> QED BY <2>1, <2>2
<1>5. call' \in [Call -> CallStates]
  <2>1. call' = [c \in Call |-> IF servedBy[c] = p THEN NoCall ELSE call[c]]
        BY DEF ApiCrashes
  <2>2. \A c \in Call : call[c] \in CallStates /\ NoCall \in CallStates
        BY NoCallFacts DEF AuthInv, Types
  <2> QED BY <2>1, <2>2
<1>6. login' \in {login, NoLogin}
      BY DEF ApiCrashes
<1>7. /\ NoFlight.at = "none" /\ NoFlight.token = NoToken /\ NoFlight.next = NoRow
      /\ NoCall.at = "idle" /\ NoCall.token = NoToken
      /\ NoLogin.at = "none" /\ NoLogin.row = NoRow /\ NoLogin \in LoginStates
      BY NoFlightFacts, NoCallFacts, NoLoginFacts
<1>8. Types'
      BY <1>1, <1>4, <1>5, <1>6, <1>7 DEF AuthInv, Types
<1>9. Shapes'
  <2>1. \A c \in Call : Verifying(c)' <=> call'[c].token # NoToken
        BY <1>3, <1>7 DEF AuthInv, Shapes, Verifying
  <2>2. ASSUME NEW c \in Call, call'[c].at = "await"
        PROVE  refresh'[<<servedBy'[c], call'[c].rev>>].at # "none"
    <3>1. servedBy[c] # p /\ call'[c] = call[c]
          BY <1>3, <1>7, <2>2
    <3>2. <<servedBy[c], call[c].rev>> \in Flights
          BY DEF AuthInv, Types, CallStates, Flights
    <3> QED BY <1>1, <1>2, <2>2, <3>1, <3>2 DEF AuthInv, Shapes, Flight
  <2>3. \A f \in Flights :
          /\ Active(f)' <=> refresh'[f].token # NoToken
          /\ Active(f)' => refresh'[f].login # 0
          /\ refresh'[f].at = "complete" => refresh'[f].next # NoRow
          /\ refresh'[f].next # NoRow => /\ refresh'[f].at = "complete"
                                         /\ refresh'[f].next.login = refresh'[f].login
        BY <1>2, <1>7 DEF AuthInv, Shapes, Active
  <2> QED BY <1>1, <1>6, <1>7, <2>1, <2>2, <2>3 DEF AuthInv, Shapes, Flight
<1>10. Calm
  <2>1. \A f \in Flights : CalmFlight(f)
        BY <1>2, <1>7, SameIsCalm DEF CalmFlight, AuthInv
  <2>2. \A c \in Call : CalmCall(c)
        BY <1>3, <1>7, SameIsCalm DEF CalmCall, AuthInv
  <2> QED BY <1>1, <1>6, <1>7, <2>1, <2>2, SameIsCalm DEF Calm, AuthInv
<1>11. CalmLease
      BY <1>1, <1>2, <1>7 DEF CalmLease, CalmAnswer, Leased
<1> QED BY <1>8, <1>9, <1>10, <1>11, CalmStep

\* A lease is given back: nobody else counts on it.
LEMMA ReturnFacts ==
    ASSUME AuthInv, NEW f \in Flights, HoldsLease(f[1], f[2], refresh[f].seq),
           credential' = [credential EXCEPT ![f[2]].lease = "none", ![f[2]].by = "none"]
    PROVE  /\ credential' \in [SecurityRevision -> Rows \cup {NoRow}]
           /\ \A r \in SecurityRevision : CalmRow(r)
           /\ \A r \in SecurityRevision :
                 credential'[r].lease = "none" <=> credential'[r].by = "none"
           /\ \A r \in SecurityRevision : r # f[2] => credential'[r] = credential[r]
<1>1. credential[f[2]] \in Rows /\ f[2] \in SecurityRevision
      BY RowFacts DEF AuthInv, Types, HoldsLease, AtRotation, Present, Flights
<1> DEFINE new == [credential[f[2]] EXCEPT !.lease = "none", !.by = "none"]
<1>2. new \in Rows
      BY <1>1 DEF Rows
<1>3. /\ new.seq = credential[f[2]].seq /\ new.token = credential[f[2]].token
      /\ new.login = credential[f[2]].login /\ new.refreshable = credential[f[2]].refreshable
      /\ new.pending = credential[f[2]].pending /\ new.lease = "none" /\ new.by = "none"
      BY <1>1 DEF Rows
<1>4. credential' = [credential EXCEPT ![f[2]] = new]
      OBVIOUS
<1>5. new # NoRow /\ credential[f[2]] # NoRow
      BY <1>1, <1>2, RowFacts
<1> HIDE DEF new
<1>6. /\ credential' \in [SecurityRevision -> Rows \cup {NoRow}] /\ credential'[f[2]] = new
      /\ \A r \in SecurityRevision : r # f[2] => credential'[r] = credential[r]
      BY <1>1, <1>2, <1>4 DEF AuthInv, Types
<1>7. \A r \in SecurityRevision : CalmRow(r)
      BY <1>3, <1>5, <1>6 DEF CalmRow
<1> QED BY <1>1, <1>3, <1>6, <1>7 DEF AuthInv, Shapes

LEMMA ReleasesRefreshInv ==
    ASSUME AuthInv, NEW f \in Flights, ReleasesRefresh(f)
    PROVE  AuthInv'
<1> USE DEF connectionVars, loginVars, tokenVars
<1> DEFINE held == HoldsLease(f[1], f[2], refresh[f].seq)
<1>1. refresh[f].at = "release" /\ Leased(f)
      /\ UNCHANGED <<servedBy, revision, login, logins, valid, spent, latest, recreated, torn>>
      BY DEF ReleasesRefresh, Leased
<1>2. /\ credential' \in [SecurityRevision -> Rows \cup {NoRow}]
      /\ \A r \in SecurityRevision : CalmRow(r)
      /\ \A r \in SecurityRevision :
            credential'[r].lease = "none" <=> credential'[r].by = "none"
      /\ \A r \in SecurityRevision : r # f[2] => credential'[r] = credential[r]
      /\ ~held => credential' = credential
  <2>1. CASE held
        BY <2>1, ReturnFacts DEF ReleasesRefresh
  <2>2. CASE ~held
    <3>1. credential' = credential
          BY <2>2 DEF ReleasesRefresh
    <3> QED BY <2>2, <3>1, SameIsCalm DEF AuthInv, Types, Shapes
  <2> QED BY <2>1, <2>2
<1>3. ASSUME NEW g \in Flights, Leased(g), g # f, ~torn, g[2] \notin recreated,
             credential[g[2]].seq = refresh[g].seq
      PROVE  /\ credential'[g[2]].lease = credential[g[2]].lease
             /\ credential'[g[2]].by = credential[g[2]].by
  <2>1. CASE g[2] # f[2]
        BY <1>2, <2>1 DEF Flights
  <2>2. CASE g[2] = f[2]
    <3>1. refresh[f].seq # refresh[g].seq
          BY <1>1, <1>3, <2>2 DEF AuthInv, LeaseAlone
    <3>2. ~held
          BY <1>3, <2>2, <3>1 DEF HoldsLease, AtRotation
    <3> QED BY <1>2, <3>2
  <2> QED BY <2>1, <2>2
<1>4. CASE ~(held /\ refresh[f].grant)
  <2>1. FlightEnds(f, "failed")
        BY <1>4 DEF ReleasesRefresh
  <2> HIDE DEF held
  <2> QED BY <1>1, <1>2, <1>3, <2>1, RefreshEnds
<1>5. CASE held /\ refresh[f].grant
  <2>1. refresh[f] \in FlightStates
        BY DEF AuthInv, Types
  <2> DEFINE new == [refresh[f] EXCEPT !.at = "delete"]
  <2>2. new \in FlightStates
        BY <2>1 DEF FlightStates
  <2>3. /\ new.at = "delete" /\ new.seq = refresh[f].seq /\ new.token = refresh[f].token
        /\ new.login = refresh[f].login /\ new.refreshable = refresh[f].refreshable
        /\ new.next = refresh[f].next
        BY <2>1 DEF FlightStates
  <2>4. refresh' = [refresh EXCEPT ![f] = new] /\ UNCHANGED call
        BY <1>5 DEF ReleasesRefresh
  <2>a. Active(f) /\ refresh[f].at # "complete"
        BY <1>1 DEF Active
  <2> HIDE DEF new
  <2>5. /\ refresh' \in [Flights -> FlightStates]
        /\ refresh'[f] = new /\ \A g \in Flights : g # f => refresh'[g] = refresh[g]
        /\ \A g \in Flights : CalmFlight(g)
        /\ \A g \in Flights :
              /\ Active(g)' <=> refresh'[g].token # NoToken
              /\ Active(g)' => refresh'[g].login # 0
              /\ refresh'[g].at = "complete" => refresh'[g].next # NoRow
              /\ refresh'[g].next # NoRow => /\ refresh'[g].at = "complete"
                                             /\ refresh'[g].next.login = refresh'[g].login
              /\ refresh[g].at # "none" => refresh'[g].at # "none"
        BY <2>2, <2>3, <2>4, <2>a, FlightGoesOn
  <2>6. Types'
        BY <1>1, <1>2, <2>4, <2>5 DEF AuthInv, Types
  <2>7. Shapes'
    <3>1. \A c \in Call :
             call'[c].at = "await" => refresh'[<<servedBy'[c], call'[c].rev>>].at # "none"
          BY <1>1, <2>4, <2>5, AwaitKept
    <3> QED BY <1>1, <1>2, <2>4, <2>5, <3>1 DEF AuthInv, Shapes, Verifying, Flight
  <2>8. Calm
        BY <1>1, <1>2, <2>4, <2>5, SameIsCalm DEF AuthInv, Calm
  <2>9. CalmLease
    <3>1. ~Leased(f)'
          BY <2>3, <2>5 DEF Leased
    <3>2. ASSUME NEW g \in Flights, g # f PROVE refresh'[g] = refresh[g]
          BY <2>5, <3>2
    <3>3. refresh[f].at # "complete"
          BY <1>1
    <3>4. ASSUME NEW g \in Flights, Leased(g)' PROVE Leased(g) /\ g # f
          BY <3>1, <3>2, <3>4 DEF Leased
    <3>5. ASSUME NEW g \in Flights, Leased(g)', credential'[g[2]] # NoRow, ~torn',
                 credential'[g[2]].seq = refresh'[g].seq, g[2] \notin recreated
          PROVE  /\ credential'[g[2]].lease = credential[g[2]].lease
                 /\ credential'[g[2]].by = credential[g[2]].by
      <4>1. credential[g[2]].seq = refresh[g].seq
            BY <1>2, <3>2, <3>4, <3>5 DEF CalmRow, Flights
      <4> QED BY <1>1, <1>3, <3>4, <3>5, <4>1
    <3> QED BY <1>1, <3>2, <3>3, <3>4, <3>5 DEF CalmLease, CalmAnswer
  <2> QED BY <2>6, <2>7, <2>8, <2>9, CalmStep
<1> QED BY <1>4, <1>5

-----------------------------------------------------------------------------
(***************************************************************************)
(* The steps that take something new in hand                               *)
(***************************************************************************)
\* A granted claim finds no live lease, so nobody else counts on one at this
\* rotation.
LEMMA ClaimsRefreshInv ==
    ASSUME AuthInv, NEW f \in Flights, ClaimsRefresh(f)
    PROVE  AuthInv'
<1> USE DEF connectionVars, loginVars, tokenVars
<1>1. refresh[f].at = "claim" /\ Active(f)
      /\ UNCHANGED <<servedBy, revision, login, logins, call, valid, spent, latest, recreated,
                     torn>>
      BY DEF ClaimsRefresh, Active
<1>2. CASE ~MayClaim(f)
  <2>1. Waits(f) /\ UNCHANGED credential
        BY <1>2 DEF ClaimsRefresh
  <2> QED BY <1>1, <2>1, FlightWaits
<1>3. CASE MayClaim(f)
  <2>1. /\ credential' = [credential EXCEPT ![f[2]].lease = "live", ![f[2]].by = f[1]]
        /\ refresh' = [refresh EXCEPT ![f].at = "provider"]
        BY <1>3 DEF ClaimsRefresh
  <2>2. /\ credential[f[2]] # NoRow /\ credential[f[2]].seq = refresh[f].seq
        /\ credential[f[2]].lease # "live"
        BY <1>3 DEF MayClaim, AtRotation, Present
  <2>3. credential[f[2]] \in Rows /\ f[2] \in SecurityRevision /\ f[1] \in Api
        BY <2>2, RowFacts DEF AuthInv, Types, Flights
  <2> DEFINE row == [credential[f[2]] EXCEPT !.lease = "live", !.by = f[1]]
  <2>4. row \in Rows
        BY <2>3 DEF Rows
  <2>5. /\ row.seq = credential[f[2]].seq /\ row.token = credential[f[2]].token
        /\ row.login = credential[f[2]].login /\ row.refreshable = credential[f[2]].refreshable
        /\ row.pending = credential[f[2]].pending /\ row.lease = "live" /\ row.by = f[1]
        BY <2>3 DEF Rows
  <2>6. credential' = [credential EXCEPT ![f[2]] = row]
        BY <2>1
  <2>7. row # NoRow
        BY <2>4, RowFacts
  <2> HIDE DEF row
  <2>8. /\ credential' \in [SecurityRevision -> Rows \cup {NoRow}] /\ credential'[f[2]] = row
        /\ \A r \in SecurityRevision : r # f[2] => credential'[r] = credential[r]
        BY <2>3, <2>4, <2>6 DEF AuthInv, Types
  <2>9. \A r \in SecurityRevision : CalmRow(r)
        BY <2>2, <2>5, <2>7, <2>8 DEF CalmRow
  <2>10. \A r \in SecurityRevision :
            credential'[r].lease = "none" <=> credential'[r].by = "none"
    <3>1. f[1] # "none"
          BY <2>3, AgentAuthAssumption
    <3> QED BY <2>5, <2>8, <3>1 DEF AuthInv, Shapes
  <2>11. refresh[f] \in FlightStates
        BY DEF AuthInv, Types
  <2> DEFINE new == [refresh[f] EXCEPT !.at = "provider"]
  <2>12. new \in FlightStates
        BY <2>11 DEF FlightStates
  <2>13. /\ new.at = "provider" /\ new.seq = refresh[f].seq /\ new.token = refresh[f].token
         /\ new.login = refresh[f].login /\ new.refreshable = refresh[f].refreshable
         /\ new.next = refresh[f].next
        BY <2>11 DEF FlightStates
  <2>14. refresh' = [refresh EXCEPT ![f] = new]
        BY <2>1
  <2> HIDE DEF new
  <2>15. /\ refresh' \in [Flights -> FlightStates]
         /\ refresh'[f] = new /\ \A g \in Flights : g # f => refresh'[g] = refresh[g]
         /\ \A g \in Flights : CalmFlight(g)
         /\ \A g \in Flights :
              /\ Active(g)' <=> refresh'[g].token # NoToken
              /\ Active(g)' => refresh'[g].login # 0
              /\ refresh'[g].at = "complete" => refresh'[g].next # NoRow
              /\ refresh'[g].next # NoRow => /\ refresh'[g].at = "complete"
                                             /\ refresh'[g].next.login = refresh'[g].login
              /\ refresh[g].at # "none" => refresh'[g].at # "none"
        BY <1>1, <2>12, <2>13, <2>14, FlightGoesOn
  <2>16. Types'
        BY <1>1, <2>8, <2>15 DEF AuthInv, Types
  <2>17. Shapes'
    <3>1. \A c \in Call :
             call'[c].at = "await" => refresh'[<<servedBy'[c], call'[c].rev>>].at # "none"
          BY <1>1, <2>15, AwaitKept
    <3> QED BY <1>1, <2>10, <2>15, <3>1 DEF AuthInv, Shapes, Verifying, Flight
  <2>18. Calm
        BY <1>1, <2>9, <2>15, SameIsCalm DEF AuthInv, Calm
  <2>19. \A g \in Flights : CalmAnswer(g)
        BY <1>1, <2>15 DEF CalmAnswer
  <2>20. ASSUME NEW g \in Flights, g # f, Leased(g), g[2] = f[2],
                refresh[g].seq = refresh[f].seq
         PROVE  torn \/ f[2] \in recreated
        BY <2>2, <2>20 DEF AuthInv, LeaseKept, Present
  <2>21. \A g \in Flights : g # f => (Leased(g)' <=> Leased(g))
        BY <2>15 DEF Leased
  <2>22. LeaseAlone'
    <3> SUFFICES ASSUME NEW g \in Flights, NEW h \in Flights, Leased(g)', Leased(h)', g[2] = h[2],
                        refresh'[g].seq = refresh'[h].seq, g # h
                 PROVE  torn' \/ g[2] \in recreated'
        BY DEF LeaseAlone
    <3>1. CASE g # f /\ h # f
          BY <1>1, <2>15, <2>21, <3>1 DEF AuthInv, LeaseAlone
    <3>2. CASE g = f
          BY <1>1, <2>13, <2>15, <2>20, <2>21, <3>2
    <3>3. CASE h = f
          BY <1>1, <2>13, <2>15, <2>20, <2>21, <3>3
    <3> QED BY <3>1, <3>2, <3>3
  <2>23. LeaseKept'
    <3> SUFFICES ASSUME NEW g \in Flights, Leased(g)', credential'[g[2]] # NoRow,
                        credential'[g[2]].seq = refresh'[g].seq, ~torn', g[2] \notin recreated'
                 PROVE  credential'[g[2]].lease = "live" /\ credential'[g[2]].by = g[1]
        BY DEF LeaseKept, Present
    <3>1. CASE g = f
          BY <2>5, <2>8, <3>1
    <3>2. CASE g # f /\ g[2] = f[2]
          BY <1>1, <2>2, <2>5, <2>8, <2>15, <2>20, <2>21, <3>2
    <3>3. CASE g # f /\ g[2] # f[2]
      <4>1. credential'[g[2]] = credential[g[2]] /\ refresh'[g] = refresh[g] /\ Leased(g)
            BY <2>8, <2>15, <2>21, <3>3 DEF Flights
      <4> QED BY <1>1, <4>1 DEF AuthInv, LeaseKept, Present
    <3> QED BY <3>1, <3>2, <3>3
  <2> QED BY <2>16, <2>17, <2>18, <2>19, <2>22, <2>23, CalmKeepsTokens, CalmKeeps,
             CalmKeepsHonoured DEF AuthInv
<1> QED BY <1>2, <1>3

\* The provider answers a refresh: the snapshot stays what it was.
LEMMA SnapshotsStay ==
    ASSUME AuthInv,
           UNCHANGED <<credential, call, latest, recreated, torn>>,
           \A g \in Flights :
              /\ refresh'[g].seq = refresh[g].seq /\ refresh'[g].token = refresh[g].token
              /\ refresh'[g].login = refresh[g].login
              /\ refresh'[g].refreshable = refresh[g].refreshable
              /\ Active(g)' <=> Active(g)
              /\ Leased(g)' <=> Leased(g)
    PROVE  /\ Known' /\ Snapshots' /\ SameRotation' /\ Readings' /\ LeaseKept' /\ LeaseAlone'
           /\ LatestLoginKept'
<1>1. Known'
      BY DEF AuthInv, Known, Present, Verifying, Used
<1>2. Snapshots'
      BY DEF AuthInv, Snapshots, Present
<1>3. SameRotation'
      BY DEF AuthInv, SameRotation
<1>4. Readings'
      BY DEF AuthInv, Readings, Present, Verifying, Used
<1>5. LeaseKept'
      BY DEF AuthInv, LeaseKept, Present
<1>6. LeaseAlone'
      BY DEF AuthInv, LeaseAlone
<1>7. LatestLoginKept'
      BY DEF AuthInv, LatestLoginKept, Present
<1> QED BY <1>1, <1>2, <1>3, <1>4, <1>5, <1>6, <1>7

\* A stored token that a refresh presents is of the row it read, at the
\* rotation it read.
LEMMA PresentedIsStored ==
    ASSUME AuthInv, NEW f \in Flights, Active(f), NEW rev \in SecurityRevision, Present(rev),
           credential[rev].token = refresh[f].token
    PROVE  /\ rev = f[2]
           /\ rev \notin recreated => credential[rev].seq = refresh[f].seq
<1>1. PICK o \in [Token -> Places] : Owned(o)
      BY DEF AuthInv, TokensApart
<1>2. refresh[f].token # NoToken
      BY DEF AuthInv, Shapes
<1>3. InRow(rev) = InRow(f[2])
      BY <1>1, <1>2 DEF Owned
<1>4. rev = f[2]
      BY <1>3 DEF InRow
<1>5. rev \notin recreated => credential[rev].seq = refresh[f].seq
      BY <1>4 DEF AuthInv, Snapshots
<1> QED BY <1>4, <1>5

\* What is in hand of a login or an answer is in nobody else's hands.
LEMMA AnswersApart ==
    ASSUME AuthInv, NEW f \in Flights, Active(f)
    PROVE  /\ \A g \in Flights :
                 refresh[g].next # NoRow => refresh[g].next.token # refresh[f].token
           /\ login.row # NoRow => login.row.token # refresh[f].token
<1>1. PICK o \in [Token -> Places] : Owned(o)
      BY DEF AuthInv, TokensApart
<1>2. refresh[f].token # NoToken /\ o[refresh[f].token] = InRow(f[2])
      BY <1>1 DEF AuthInv, Shapes, Owned
<1>3. \A g \in Flights : InNext(g) # InRow(f[2])
      BY DEF InNext, InRow
<1>4. InLogin # InRow(f[2])
      BY DEF InLogin, InRow
<1> QED BY <1>1, <1>2, <1>3, <1>4 DEF Owned

LEMMA HeldFacts ==
    ASSUME Types, Shapes
    PROVE  /\ \A rev \in SecurityRevision : credential[rev].token \in HeldTokens
           /\ \A c \in Call : call[c].token \in HeldTokens
           /\ \A f \in Flights : refresh[f].token \in HeldTokens
           /\ \A f \in Flights : refresh[f].next.token \in HeldTokens
           /\ login.row.token \in HeldTokens
BY DEF HeldTokens, Flights

\* The provider retires the presented token of a refresh and the refresh goes
\* on: a row that stores it is the one read, at the rotation read.
LEMMA RowsHonoured ==
    ASSUME AuthInv, NEW f \in Flights, Active(f), NEW rev \in SecurityRevision,
           credential[rev].refreshable, ~torn, rev \notin recreated,
           credential[rev].token # refresh[f].token
    PROVE  \/ credential[rev].token \in valid \/ credential[rev].token \in spent
           \/ \E p \in Api : /\ refresh[<<p, rev>>].at = "complete"
                             /\ refresh[<<p, rev>>].seq = credential[rev].seq
BY DEF AuthInv, Honoured

LEMMA RefreshDiscardedInv ==
    ASSUME AuthInv, NEW f \in Flights, RefreshDiscarded(f)
    PROVE  AuthInv'
<1> USE DEF connectionVars, loginVars
<1>1. /\ refresh[f].at = "provider" /\ Active(f)
      /\ refresh' = [refresh EXCEPT ![f].at = "release"]
      /\ valid' = valid \ {refresh[f].token} /\ spent' = spent \cup {refresh[f].token}
      /\ UNCHANGED <<servedBy, revision, credential, login, logins, call, latest, recreated, torn>>
      BY DEF RefreshDiscarded, Active
<1>2. refresh[f] \in FlightStates
      BY DEF AuthInv, Types
<1> DEFINE new == [refresh[f] EXCEPT !.at = "release"]
<1>3. new \in FlightStates
      BY <1>2 DEF FlightStates
<1>4. /\ new.at = "release" /\ new.seq = refresh[f].seq /\ new.token = refresh[f].token
      /\ new.login = refresh[f].login /\ new.refreshable = refresh[f].refreshable
      /\ new.next = refresh[f].next
      BY <1>2 DEF FlightStates
<1>5. refresh' = [refresh EXCEPT ![f] = new]
      BY <1>1
<1> HIDE DEF new
<1>6. /\ refresh' \in [Flights -> FlightStates]
      /\ refresh'[f] = new /\ \A g \in Flights : g # f => refresh'[g] = refresh[g]
      /\ \A g \in Flights : CalmFlight(g)
      /\ \A g \in Flights :
            /\ Active(g)' <=> refresh'[g].token # NoToken
            /\ Active(g)' => refresh'[g].login # 0
            /\ refresh'[g].at = "complete" => refresh'[g].next # NoRow
            /\ refresh'[g].next # NoRow => /\ refresh'[g].at = "complete"
                                           /\ refresh'[g].next.login = refresh'[g].login
            /\ refresh[g].at # "none" => refresh'[g].at # "none"
      BY <1>1, <1>3, <1>4, <1>5, FlightGoesOn
<1>7. Types'
      BY <1>1, <1>6 DEF AuthInv, Types
<1>8. Shapes'
  <2>1. \A c \in Call :
           call'[c].at = "await" => refresh'[<<servedBy'[c], call'[c].rev>>].at # "none"
        BY <1>1, <1>6, AwaitKept
  <2> QED BY <1>1, <1>6, <2>1 DEF AuthInv, Shapes, Verifying, Flight
<1>9. \A g \in Flights :
         /\ refresh'[g].seq = refresh[g].seq /\ refresh'[g].token = refresh[g].token
         /\ refresh'[g].login = refresh[g].login
         /\ refresh'[g].refreshable = refresh[g].refreshable
         /\ refresh'[g].next = refresh[g].next
         /\ Active(g)' <=> Active(g)
         /\ Leased(g)' <=> Leased(g)
         /\ refresh'[g].at = "complete" <=> refresh[g].at = "complete"
      BY <1>1, <1>4, <1>6 DEF Active, Leased
<1>10. TokensApart'
  <2>1. PICK o \in [Token -> Places] : Owned(o)
        BY DEF AuthInv, TokensApart
  <2>2. Owned(o)'
        BY <1>1, <1>9, <2>1 DEF Owned, Present, InRow, InNext, InLogin
  <2>3. o \in [Token -> Places]'
        BY <2>1 DEF Places, InRow, InNext, InLogin, Flights, SecurityRevision
  <2> QED BY <2>2, <2>3 DEF TokensApart
<1>11. Honoured'
  <2>1. \A g \in Flights : refresh'[g].next # NoRow /\ refresh'[g].next.refreshable
                           => refresh'[g].next.token \in valid'
        BY <1>1, <1>9, AnswersApart DEF AuthInv, Honoured
  <2>2. login'.row # NoRow /\ login'.row.refreshable => login'.row.token \in valid'
        BY <1>1, AnswersApart DEF AuthInv, Honoured
  <2>3. ASSUME NEW rev \in SecurityRevision, credential'[rev].refreshable, ~torn',
               rev \notin recreated', credential'[rev].token \notin valid',
               credential'[rev].token \notin spent'
        PROVE  \E p \in Api : /\ refresh'[<<p, rev>>].at = "complete"
                              /\ refresh'[<<p, rev>>].seq = credential'[rev].seq
    <3>1. credential[rev].token # refresh[f].token
          BY <1>1, <2>3
    <3>2. credential[rev].token \notin valid /\ credential[rev].token \notin spent
          BY <1>1, <2>3, <3>1
    <3>3. PICK p \in Api : /\ refresh[<<p, rev>>].at = "complete"
                           /\ refresh[<<p, rev>>].seq = credential[rev].seq
          BY <1>1, <2>3, <3>2 DEF AuthInv, Honoured
    <3>4. <<p, rev>> \in Flights
          BY DEF Flights
    <3> QED BY <1>1, <1>9, <3>3, <3>4
  <2> QED BY <2>1, <2>2, <2>3 DEF Honoured
<1> QED BY <1>1, <1>7, <1>8, <1>9, <1>10, <1>11, SnapshotsStay DEF AuthInv

\* The provider grants a successor: it is new, and the token it retires may
\* still be stored only in the row this refresh will write.
LEMMA ProviderGrants ==
    ASSUME AuthInv, NEW f \in Flights, ProviderRefreshes(f), refresh[f].token \in valid
    PROVE  AuthInv'
<1> USE DEF connectionVars, loginVars
<1>1. /\ refresh[f].at = "provider" /\ Active(f) /\ TokenLeft
      /\ UNCHANGED <<servedBy, revision, credential, login, logins, call, latest, recreated, torn>>
      BY DEF ProviderRefreshes, Active
<1>2. PICK row \in GrantedTokens(FreshToken, refresh[f].login) :
         /\ refresh' = [refresh EXCEPT ![f].at = "complete", ![f].next = row]
         /\ Grants(row, IF row.refreshable THEN {refresh[f].token} ELSE {})
      BY DEF ProviderRefreshes
<1>3. FreshToken \in Token /\ FreshToken \notin HeldTokens
      BY <1>1, FreshFacts
<1>4. refresh[f] \in FlightStates
      BY DEF AuthInv, Types
<1>5. refresh[f].login \in 1..MaxLogins
      BY <1>1, <1>4, AgentAuthAssumption DEF AuthInv, Shapes, FlightStates
<1>6. /\ row \in GrantedRows /\ row \in Rows /\ row # NoRow
      /\ row.token = FreshToken /\ row.login = refresh[f].login /\ row.refreshable \in BOOLEAN
      BY <1>3, <1>5, GrantedFacts
<1> DEFINE new == [refresh[f] EXCEPT !.at = "complete", !.next = row]
<1>7. new \in FlightStates
      BY <1>4, <1>6 DEF FlightStates
<1>8. /\ new.at = "complete" /\ new.seq = refresh[f].seq /\ new.token = refresh[f].token
      /\ new.login = refresh[f].login /\ new.refreshable = refresh[f].refreshable
      /\ new.next = row
      BY <1>4 DEF FlightStates
<1>9. refresh' = [refresh EXCEPT ![f] = new]
      BY <1>2
<1> HIDE DEF new
<1>10. /\ refresh' \in [Flights -> FlightStates]
       /\ refresh'[f] = new /\ \A g \in Flights : g # f => refresh'[g] = refresh[g]
      BY <1>7, <1>9 DEF AuthInv, Types
<1>11. Types'
      BY <1>1, <1>10 DEF AuthInv, Types
<1>12. \A g \in Flights :
         /\ refresh'[g].seq = refresh[g].seq /\ refresh'[g].token = refresh[g].token
         /\ refresh'[g].login = refresh[g].login
         /\ refresh'[g].refreshable = refresh[g].refreshable
         /\ Active(g)' <=> Active(g)
         /\ Leased(g)' <=> Leased(g)
         /\ refresh[g].at # "none" => refresh'[g].at # "none"
         /\ refresh[g].at = "complete" => refresh'[g].at = "complete"
      BY <1>1, <1>8, <1>10 DEF Active, Leased
<1>13. Shapes'
  <2>1. \A c \in Call :
           call'[c].at = "await" => refresh'[<<servedBy'[c], call'[c].rev>>].at # "none"
        BY <1>1, <1>12, AwaitKept
  <2>2. \A g \in Flights :
          /\ refresh'[g].at = "complete" => refresh'[g].next # NoRow
          /\ refresh'[g].next # NoRow => /\ refresh'[g].at = "complete"
                                         /\ refresh'[g].next.login = refresh'[g].login
        BY <1>6, <1>8, <1>10 DEF AuthInv, Shapes
  <2>3. \A g \in Flights : /\ Active(g)' <=> refresh'[g].token # NoToken
                           /\ Active(g)' => refresh'[g].login # 0
        BY <1>12 DEF AuthInv, Shapes
  <2> QED BY <1>1, <2>1, <2>2, <2>3 DEF AuthInv, Shapes, Verifying, Flight
<1>14. TokensApart'
  <2>1. PICK o \in [Token -> Places] : Owned(o)
        BY DEF AuthInv, TokensApart
  <2>3. PICK q \in [Token -> Places] :
           q[FreshToken] = InNext(f) /\ \A t \in Token : t # FreshToken => q[t] = o[t]
    <3>1. InNext(f) \in Places
          BY DEF Places
    <3> DEFINE r == [o EXCEPT ![FreshToken] = InNext(f)]
    <3>2. /\ r \in [Token -> Places] /\ r[FreshToken] = InNext(f)
          /\ \A t \in Token : t # FreshToken => r[t] = o[t]
          BY <1>3, <3>1
    <3> QED BY <3>2
  <2>2. \A t \in Token : t \in HeldTokens => q[t] = o[t]
        BY <1>3, <2>3
  <2>4. \A rev \in SecurityRevision :
          credential'[rev] # NoRow => q[credential'[rev].token] = InRow(rev)
        BY <1>1, <2>1, <2>2, HeldFacts, RowFacts DEF AuthInv, Types, Owned, Present
  <2>5. \A c \in Call : call'[c].token # NoToken => q[call'[c].token] = InRow(call'[c].rev)
        BY <1>1, <2>1, <2>2, HeldFacts DEF AuthInv, Types, CallStates, Owned
  <2>6. \A g \in Flights : refresh'[g].token # NoToken => q[refresh'[g].token] = InRow(g[2])
        BY <1>12, <2>1, <2>2, HeldFacts DEF AuthInv, Types, FlightStates, Owned
  <2>7. \A g \in Flights : refresh'[g].next # NoRow => q[refresh'[g].next.token] = InNext(g)
    <3> SUFFICES ASSUME NEW g \in Flights, refresh'[g].next # NoRow
                 PROVE  q[refresh'[g].next.token] = InNext(g)
        OBVIOUS
    <3>1. CASE g = f
          BY <1>6, <1>8, <1>10, <2>3, <3>1
    <3>2. CASE g # f
      <4>1. refresh'[g] = refresh[g]
            BY <1>10, <3>2
      <4>2. refresh[g].next.token \in Token
            BY <4>1, RowFacts DEF AuthInv, Types, FlightStates, GrantedRows
      <4> QED BY <2>1, <2>2, <4>1, <4>2, HeldFacts DEF AuthInv, Owned
    <3> QED BY <3>1, <3>2
  <2>8. login'.row # NoRow => q[login'.row.token] = InLogin
    <3>1. login.row # NoRow => login.row.token \in Token
          BY RowFacts DEF AuthInv, Types, LoginStates, GrantedRows
    <3> QED BY <1>1, <2>1, <2>2, <3>1, HeldFacts DEF AuthInv, Owned
  <2>9. Owned(q)'
        BY <2>4, <2>5, <2>6, <2>7, <2>8 DEF Owned, Present, InRow, InNext, InLogin
  <2>10. q \in [Token -> Places]'
        BY <2>3 DEF Places, InRow, InNext, InLogin, Flights, SecurityRevision
  <2> QED BY <2>9, <2>10 DEF TokensApart
<1>15. Honoured'
  <2> DEFINE retired == IF row.refreshable THEN {refresh[f].token} ELSE {}
  <2>0. /\ valid' = ((valid \cap HeldTokens) \ retired)
                    \cup (IF row.refreshable THEN {row.token} ELSE {})
        /\ spent' = spent \cap HeldTokens
        BY <1>2 DEF Grants
  <2>1. ASSUME NEW g \in Flights, refresh'[g].next # NoRow, refresh'[g].next.refreshable
        PROVE  refresh'[g].next.token \in valid'
    <3>1. CASE g = f
          BY <1>8, <1>10, <2>0, <2>1, <3>1
    <3>2. CASE g # f
      <4>1. refresh'[g] = refresh[g]
            BY <1>10, <3>2
      <4>2. refresh[g].next.token \in valid /\ refresh[g].next.token \in HeldTokens
            BY <2>1, <4>1, HeldFacts DEF AuthInv, Honoured
      <4>3. refresh[g].next.token # refresh[f].token
            BY <1>1, <2>1, <4>1, AnswersApart
      <4> QED BY <2>0, <4>1, <4>2, <4>3
    <3> QED BY <3>1, <3>2
  <2>2. ASSUME login'.row # NoRow, login'.row.refreshable PROVE login'.row.token \in valid'
    <3>1. login.row.token \in valid /\ login.row.token \in HeldTokens
          BY <1>1, <2>2, HeldFacts DEF AuthInv, Honoured
    <3>2. login.row.token # refresh[f].token
          BY <1>1, <2>2, AnswersApart
    <3> QED BY <1>1, <2>0, <3>1, <3>2
  <2>3. ASSUME NEW rev \in SecurityRevision, credential'[rev].refreshable, ~torn',
               rev \notin recreated', credential'[rev].token \notin valid',
               credential'[rev].token \notin spent'
        PROVE  \E p \in Api : /\ refresh'[<<p, rev>>].at = "complete"
                              /\ refresh'[<<p, rev>>].seq = credential'[rev].seq
    <3>1. CASE credential[rev].token = refresh[f].token
      <4>1. Present(rev)
            BY <1>1, <2>3, NoRowFacts DEF Present
      <4>2. rev = f[2] /\ credential[rev].seq = refresh[f].seq
            BY <1>1, <2>3, <3>1, <4>1, PresentedIsStored
      <4>3. f = <<f[1], rev>> /\ f[1] \in Api
            BY <4>2 DEF Flights
      <4>4. refresh'[f].at = "complete" /\ refresh'[f].seq = credential'[rev].seq
            BY <1>1, <1>8, <1>10, <4>2
      <4>5. refresh'[<<f[1], rev>>].at = "complete"
            /\ refresh'[<<f[1], rev>>].seq = credential'[rev].seq
            BY <4>3, <4>4
      <4> QED BY <4>3, <4>5
    <3>2. CASE credential[rev].token # refresh[f].token
      <4>1. credential[rev].token \in HeldTokens
            BY HeldFacts DEF AuthInv
      <4>2. credential[rev].token \notin valid /\ credential[rev].token \notin spent
            BY <1>1, <2>0, <2>3, <3>2, <4>1
      <4>3. PICK p \in Api : /\ refresh[<<p, rev>>].at = "complete"
                             /\ refresh[<<p, rev>>].seq = credential[rev].seq
            BY <1>1, <2>3, <4>2 DEF AuthInv, Honoured
      <4>4. <<p, rev>> \in Flights
            BY DEF Flights
      <4> QED BY <1>1, <1>12, <4>3, <4>4
    <3> QED BY <3>1, <3>2
  <2> QED BY <2>1, <2>2, <2>3 DEF Honoured
<1> QED BY <1>1, <1>11, <1>12, <1>13, <1>14, <1>15, SnapshotsStay DEF AuthInv

LEMMA ProviderRefreshesInv ==
    ASSUME AuthInv, NEW f \in Flights, ProviderRefreshes(f)
    PROVE  AuthInv'
<1>1. CASE refresh[f].token \in valid
      BY <1>1, ProviderGrants
<1>2. CASE refresh[f].token \notin valid
  <2>1. refresh' = [refresh EXCEPT ![f].at = "release", ![f].grant = TRUE]
        BY <1>2 DEF ProviderRefreshes
  <2>2. refresh' = [refresh EXCEPT ![f] = [refresh[f] EXCEPT !.at = "release", !.grant = TRUE]]
        BY <2>1
  <2>3. \E b \in BOOLEAN :
           refresh' = [refresh EXCEPT ![f] = [refresh[f] EXCEPT !.at = "release", !.grant = b]]
        BY <2>2
  <2> QED BY <1>2, <2>3, ProviderFailsInv
          DEF ProviderRefreshes, connectionVars, loginVars, tokenVars
<1> QED BY <1>1, <1>2

LEMMA ProviderFailsStepInv ==
    ASSUME AuthInv, NEW f \in Flights, ProviderFails(f)
    PROVE  AuthInv'
<1>1. refresh' = [refresh EXCEPT ![f].at = "release"]
      BY DEF ProviderFails
<1>2. refresh[f] \in FlightStates
      BY DEF AuthInv, Types
<1>3. refresh' = [refresh EXCEPT ![f] =
                    [refresh[f] EXCEPT !.at = "release", !.grant = refresh[f].grant]]
      BY <1>1, <1>2 DEF FlightStates
<1>4. refresh[f].grant \in BOOLEAN
      BY <1>2 DEF FlightStates
<1> QED BY <1>3, <1>4, ProviderFailsInv
        DEF ProviderFails, connectionVars, loginVars, tokenVars

-----------------------------------------------------------------------------
\* A row is written over: who read it before is behind it now, with another
\* token in hand.
LEMMA RowWritten ==
    ASSUME AuthInv, NEW rev \in SecurityRevision,
           credential' \in [SecurityRevision -> Rows \cup {NoRow}],
           \A r \in SecurityRevision : r # rev => credential'[r] = credential[r],
           \A g \in Flights : CalmFlight(g) /\ (Leased(g)' => Leased(g)),
           \A c \in Call : CalmCall(c),
           recreated \subseteq recreated', torn' = torn,
           rev \notin recreated' =>
              /\ \A g \in Flights : Active(g)' /\ g[2] = rev =>
                    /\ refresh'[g].seq \in Nat /\ refresh'[g].seq < credential'[rev].seq
                    /\ refresh'[g].token # credential'[rev].token
              /\ \A c \in Call : (Verifying(c)' \/ Used(c)') /\ call'[c].rev = rev =>
                    call'[c].seq \in Nat /\ call'[c].seq < credential'[rev].seq
    PROVE  Snapshots' /\ SameRotation' /\ Readings' /\ LeaseKept' /\ LeaseAlone'
<1>0. credential'[rev].seq \in Nat
      BY RowFacts
<1>1. Snapshots'
  <2> SUFFICES ASSUME NEW f \in Flights, Active(f)', credential'[f[2]] # NoRow,
                      f[2] \notin recreated'
               PROVE  /\ refresh'[f].seq <= credential'[f[2]].seq
                      /\ credential'[f[2]].seq = refresh'[f].seq =>
                            /\ credential'[f[2]].token = refresh'[f].token
                            /\ credential'[f[2]].login = refresh'[f].login
                            /\ credential'[f[2]].refreshable = refresh'[f].refreshable
                            /\ ~credential'[f[2]].pending
                      /\ credential'[f[2]].seq # refresh'[f].seq =>
                            credential'[f[2]].token # refresh'[f].token
      BY DEF Snapshots, Present
  <2>1. CASE f[2] = rev
        BY <1>0, <2>1
  <2>2. CASE f[2] # rev
    <3>1. credential'[f[2]] = credential[f[2]]
          BY <2>2 DEF Flights
    <3>2. Active(f) /\ refresh'[f].seq = refresh[f].seq /\ refresh'[f].token = refresh[f].token
          /\ refresh'[f].login = refresh[f].login
          /\ refresh'[f].refreshable = refresh[f].refreshable
          BY DEF CalmFlight, Active
    <3> QED BY <3>1, <3>2 DEF AuthInv, Snapshots, Present
  <2> QED BY <2>1, <2>2
<1>2. SameRotation'
      BY DEF AuthInv, SameRotation, CalmFlight, Active
<1>3. Readings'
  <2> SUFFICES ASSUME NEW c \in Call, credential'[call'[c].rev] # NoRow,
                      call'[c].rev \notin recreated', Verifying(c)' \/ Used(c)'
               PROVE  /\ call'[c].seq <= credential'[call'[c].rev].seq
                      /\ Verifying(c)' /\ credential'[call'[c].rev].seq = call'[c].seq =>
                            /\ credential'[call'[c].rev].token = call'[c].token
                            /\ credential'[call'[c].rev].pending
                      /\ Used(c)' /\ credential'[call'[c].rev].seq = call'[c].seq =>
                            ~credential'[call'[c].rev].pending
      BY DEF Readings, Present
  <2>1. CASE call'[c].rev = rev
        BY <1>0, <2>1
  <2>2. CASE call'[c].rev # rev
    <3>1. /\ call'[c].rev = call[c].rev /\ call'[c].seq = call[c].seq
          /\ call'[c].token = call[c].token
          /\ Verifying(c)' <=> Verifying(c)
          /\ Used(c)' <=> Used(c)
          BY DEF CalmCall, Verifying, Used
    <3>2. credential'[call'[c].rev] = credential[call[c].rev]
          BY <2>2, <3>1 DEF AuthInv, Types, CallStates
    <3> QED BY <3>1, <3>2 DEF AuthInv, Readings, Present
  <2> QED BY <2>1, <2>2
<1>4. LeaseKept'
  <2> SUFFICES ASSUME NEW f \in Flights, Leased(f)', credential'[f[2]] # NoRow, ~torn,
                      f[2] \notin recreated', credential'[f[2]].seq = refresh'[f].seq
               PROVE  credential'[f[2]].lease = "live" /\ credential'[f[2]].by = f[1]
      BY DEF LeaseKept, Present
  <2>1. Active(f)'
        BY DEF Active, Leased
  <2>2. f[2] # rev
        BY <1>0, <2>1
  <2>3. credential'[f[2]] = credential[f[2]]
        BY <2>2 DEF Flights
  <2>4. Leased(f) /\ refresh'[f].seq = refresh[f].seq
        BY <2>1 DEF CalmFlight, Active
  <2> QED BY <2>3, <2>4 DEF AuthInv, LeaseKept, Present
<1>5. LeaseAlone'
  <2>1. \A f \in Flights : Leased(f)' => Leased(f) /\ refresh'[f].seq = refresh[f].seq
        BY DEF Leased, CalmFlight
  <2> QED BY <2>1 DEF AuthInv, LeaseAlone
<1> QED BY <1>1, <1>2, <1>3, <1>4, <1>5

\* The answer goes into the row: it is of the login the row is of.
LEMMA RefreshStored ==
    ASSUME AuthInv, NEW f \in Flights, CompletesRefresh(f),
           HoldsLease(f[1], f[2], refresh[f].seq)
    PROVE  AuthInv'
<1> USE DEF connectionVars, loginVars, tokenVars
<1>1. /\ refresh[f].at = "complete" /\ Active(f) /\ refresh[f].next # NoRow
      /\ credential' = [credential EXCEPT ![f[2]] = Rotated(f[2], refresh[f].next)]
      /\ FlightEnds(f, "refreshed")
      /\ UNCHANGED <<servedBy, revision, login, logins, valid, spent, latest, recreated, torn>>
      BY DEF CompletesRefresh, Active, AuthInv, Shapes
<1>2. Present(f[2]) /\ credential[f[2]].seq = refresh[f].seq /\ f[2] \in SecurityRevision
      BY DEF HoldsLease, AtRotation, Flights
<1>3. refresh[f].next \in Rows /\ refresh[f].next.token \in Token
      /\ refresh[f].next.login = refresh[f].login
      BY <1>1, RowFacts DEF AuthInv, Types, FlightStates, GrantedRows, Shapes
<1> DEFINE new == Rotated(f[2], refresh[f].next)
<1>4. /\ new \in Rows /\ new # NoRow
      /\ new.seq = credential[f[2]].seq + 1 /\ new.token = refresh[f].next.token
      /\ new.login = refresh[f].next.login
      /\ new.refreshable = refresh[f].next.refreshable
      /\ new.lease = "none" /\ new.by = "none"
      BY <1>2, <1>3, RotatedFacts DEF AuthInv
<1> HIDE DEF new
<1>5. /\ credential' \in [SecurityRevision -> Rows \cup {NoRow}] /\ credential'[f[2]] = new
      /\ \A r \in SecurityRevision : r # f[2] => credential'[r] = credential[r]
      BY <1>1, <1>2, <1>4 DEF AuthInv, Types, new
<1>6. /\ refresh' \in [Flights -> FlightStates] /\ call' \in [Call -> CallStates]
      /\ refresh'[f].at = "none" /\ refresh'[f].token = NoToken /\ refresh'[f].next = NoRow
      /\ \A g \in Flights : g # f => refresh'[g] = refresh[g]
      /\ \A g \in Flights : CalmFlight(g)
      /\ \A c \in Call : CalmCall(c)
      /\ \A c \in Call : call'[c].at = "await" => call'[c] = call[c] /\ Flight(c) # f
      /\ \A c \in Call : call'[c].token # NoToken => call'[c] = call[c]
      /\ \A c \in Call : call'[c] = call[c] \/ call'[c].at \in {"idle", "read"}
      BY <1>1, FlightEndsFacts DEF AuthInv
<1>7. Types'
      BY <1>1, <1>5, <1>6 DEF AuthInv, Types
<1>8. Shapes'
  <2>1. \A c \in Call : Verifying(c)' <=> call'[c].token # NoToken
        BY <1>6 DEF AuthInv, Shapes, Verifying
  <2>2. ASSUME NEW c \in Call, call'[c].at = "await"
        PROVE  refresh'[<<servedBy'[c], call'[c].rev>>].at # "none"
    <3>1. call'[c] = call[c] /\ Flight(c) # f
          BY <1>6, <2>2
    <3>2. Flight(c) \in Flights /\ Flight(c) = <<servedBy'[c], call'[c].rev>>
          BY <1>1, <3>1 DEF Flight, Flights, AuthInv, Types, CallStates
    <3> QED BY <1>6, <2>2, <3>1, <3>2 DEF AuthInv, Shapes
  <2>3. \A g \in Flights : /\ Active(g)' <=> refresh'[g].token # NoToken
                           /\ Active(g)' => refresh'[g].login # 0
        BY <1>6 DEF AuthInv, Shapes, Active
  <2>4. \A g \in Flights :
          /\ refresh'[g].at = "complete" => refresh'[g].next # NoRow
          /\ refresh'[g].next # NoRow => /\ refresh'[g].at = "complete"
                                         /\ refresh'[g].next.login = refresh'[g].login
        BY <1>6 DEF AuthInv, Shapes
  <2>5. \A r \in SecurityRevision : credential'[r].lease = "none" <=> credential'[r].by = "none"
        BY <1>4, <1>5 DEF AuthInv, Shapes
  <2> QED BY <1>1, <2>1, <2>2, <2>3, <2>4, <2>5 DEF AuthInv, Shapes, Flight
<1>9. PICK o \in [Token -> Places] : Owned(o)
      BY DEF AuthInv, TokensApart
<1>10. o[new.token] = InNext(f)
      BY <1>1, <1>4, <1>9 DEF Owned
<1>11. /\ \A r \in SecurityRevision : InRow(r) # InNext(f)
       /\ \A g \in Flights : InRow(g[2]) # InNext(f)
       /\ \A g \in Flights : g # f => InNext(g) # InNext(f)
       /\ InLogin # InNext(f)
      BY DEF InRow, InNext, InLogin, Flights
<1>12. TokensApart'
  <2>1. PICK q \in [Token -> Places] :
           q[new.token] = InRow(f[2]) /\ \A t \in Token : t # new.token => q[t] = o[t]
    <3>1. InRow(f[2]) \in Places
          BY <1>2 DEF Places
    <3>2. new.token \in Token
          BY <1>3, <1>4
    <3> DEFINE r == [o EXCEPT ![new.token] = InRow(f[2])]
    <3>3. /\ r \in [Token -> Places] /\ r[new.token] = InRow(f[2])
          /\ \A t \in Token : t # new.token => r[t] = o[t]
          BY <3>1, <3>2
    <3> QED BY <3>3
  <2>2. \A t \in Token : o[t] # InNext(f) => q[t] = o[t]
        BY <1>10, <2>1
  <2>3. \A r \in SecurityRevision :
          credential'[r] # NoRow => q[credential'[r].token] = InRow(r)
    <3> SUFFICES ASSUME NEW r \in SecurityRevision, credential'[r] # NoRow, r # f[2]
                 PROVE  q[credential'[r].token] = InRow(r)
        BY <1>5, <2>1
    <3>1. credential'[r] = credential[r] /\ credential[r].token \in Token
          BY <1>5, RowFacts
    <3> QED BY <1>9, <1>11, <2>2, <3>1 DEF Owned, Present
  <2>4. ASSUME NEW c \in Call, call'[c].token # NoToken
        PROVE  q[call'[c].token] = InRow(call'[c].rev)
    <3>1. call'[c] = call[c] /\ call[c].token \in Token /\ call[c].rev \in SecurityRevision
          BY <1>6, <2>4 DEF AuthInv, Types, CallStates
    <3> QED BY <1>9, <1>11, <2>2, <2>4, <3>1 DEF Owned
  <2>5. ASSUME NEW g \in Flights, refresh'[g].token # NoToken
        PROVE  q[refresh'[g].token] = InRow(g[2])
    <3>1. refresh'[g] = refresh[g] /\ refresh[g].token \in Token
          BY <1>6, <2>5 DEF AuthInv, Types, FlightStates
    <3> QED BY <1>9, <1>11, <2>2, <2>5, <3>1 DEF Owned
  <2>6. ASSUME NEW g \in Flights, refresh'[g].next # NoRow
        PROVE  q[refresh'[g].next.token] = InNext(g)
    <3>1. g # f /\ refresh'[g] = refresh[g]
          BY <1>6, <2>6
    <3>2. refresh[g].next.token \in Token
          BY <2>6, <3>1, RowFacts DEF AuthInv, Types, FlightStates, GrantedRows
    <3> QED BY <1>9, <1>11, <2>2, <2>6, <3>1, <3>2 DEF Owned
  <2>7. login'.row # NoRow => q[login'.row.token] = InLogin
    <3>1. login.row # NoRow => login.row.token \in Token
          BY RowFacts DEF AuthInv, Types, LoginStates, GrantedRows
    <3> QED BY <1>1, <1>9, <1>11, <2>2, <3>1 DEF Owned
  <2>8. Owned(q)'
        BY <2>3, <2>4, <2>5, <2>6, <2>7 DEF Owned, Present, InRow, InNext, InLogin
  <2>9. q \in [Token -> Places]'
        BY <2>1 DEF Places, InRow, InNext, InLogin, Flights, SecurityRevision
  <2> QED BY <2>8, <2>9 DEF TokensApart
<1>13. Known'
  <2>1. latest[f[2]] # 0
        BY <1>2 DEF AuthInv, Known
  <2>2. \A g \in Flights : Active(g)' => Active(g)
        BY <1>6 DEF CalmFlight, Active
  <2>3. \A c \in Call : Verifying(c)' \/ Used(c)' => call'[c].rev = call[c].rev
                                                     /\ (Verifying(c) \/ Used(c))
        BY <1>6 DEF CalmCall, Verifying, Used
  <2> QED BY <1>1, <1>5, <2>1, <2>2, <2>3 DEF AuthInv, Known, Present
<1>14. Snapshots' /\ SameRotation' /\ Readings' /\ LeaseKept' /\ LeaseAlone'
  <2>1. \A g \in Flights : Leased(g)' => Leased(g)
        BY <1>6 DEF Leased
  <2>2. ASSUME NEW g \in Flights, Active(g)', g[2] = f[2], f[2] \notin recreated
        PROVE  /\ refresh'[g].seq \in Nat /\ refresh'[g].seq < credential'[f[2]].seq
               /\ refresh'[g].token # credential'[f[2]].token
    <3>1. g # f /\ refresh'[g] = refresh[g] /\ Active(g)
          BY <1>6, <2>2 DEF Active
    <3>2. refresh[g].seq \in Nat /\ credential[f[2]].seq \in Nat
          BY <1>2, RowFacts DEF AuthInv, Types, FlightStates
    <3>3. refresh[g].seq <= credential[f[2]].seq
          BY <1>2, <2>2, <3>1 DEF AuthInv, Snapshots
    <3>4. o[refresh[g].token] = InRow(g[2])
          BY <1>9, <3>1 DEF AuthInv, Shapes, Owned
    <3> QED BY <1>4, <1>5, <1>10, <1>11, <3>1, <3>2, <3>3, <3>4
  <2>3. ASSUME NEW c \in Call, Verifying(c)' \/ Used(c)', call'[c].rev = f[2],
               f[2] \notin recreated
        PROVE  call'[c].seq \in Nat /\ call'[c].seq < credential'[f[2]].seq
    <3>1. /\ call'[c].rev = call[c].rev /\ call'[c].seq = call[c].seq
          /\ Verifying(c) \/ Used(c)
          BY <1>6, <2>3 DEF CalmCall, Verifying, Used
    <3>2. call[c].seq \in Nat /\ credential[f[2]].seq \in Nat
          BY <1>2, RowFacts DEF AuthInv, Types, CallStates
    <3>3. call[c].seq <= credential[f[2]].seq
          BY <1>2, <2>3, <3>1 DEF AuthInv, Readings
    <3> QED BY <1>4, <1>5, <3>1, <3>2, <3>3
  <2> QED BY <1>1, <1>2, <1>5, <1>6, <2>1, <2>2, <2>3, RowWritten
<1>15. Honoured'
  <2>1. \A g \in Flights : refresh'[g].next # NoRow /\ refresh'[g].next.refreshable
                           => refresh'[g].next.token \in valid'
        BY <1>1, <1>6 DEF AuthInv, Honoured
  <2>2. login'.row # NoRow /\ login'.row.refreshable => login'.row.token \in valid'
        BY <1>1 DEF AuthInv, Honoured
  <2>3. ASSUME NEW rev \in SecurityRevision, credential'[rev].refreshable, ~torn',
               rev \notin recreated', credential'[rev].token \notin valid',
               credential'[rev].token \notin spent'
        PROVE  \E p \in Api : /\ refresh'[<<p, rev>>].at = "complete"
                              /\ refresh'[<<p, rev>>].seq = credential'[rev].seq
    <3>1. rev # f[2]
          BY <1>1, <1>4, <1>5, <2>3 DEF AuthInv, Honoured
    <3>2. credential'[rev] = credential[rev]
          BY <1>5, <3>1
    <3>3. PICK p \in Api : /\ refresh[<<p, rev>>].at = "complete"
                           /\ refresh[<<p, rev>>].seq = credential[rev].seq
          BY <1>1, <2>3, <3>2 DEF AuthInv, Honoured
    <3>4. <<p, rev>> \in Flights /\ <<p, rev>> # f
          BY <3>1 DEF Flights
    <3> QED BY <1>6, <3>2, <3>3, <3>4
  <2> QED BY <2>1, <2>2, <2>3 DEF Honoured
<1>16. LatestLoginKept'
  <2>1. f[2] \notin recreated => credential[f[2]].login = refresh[f].login
        BY <1>1, <1>2 DEF AuthInv, Snapshots
  <2>2. f[2] \notin recreated => new.login = latest[f[2]]
        BY <1>2, <1>3, <1>4, <2>1 DEF AuthInv, LatestLoginKept
  <2> QED BY <1>1, <1>5, <2>2 DEF AuthInv, LatestLoginKept, Present
<1> QED BY <1>7, <1>8, <1>12, <1>13, <1>14, <1>15, <1>16 DEF AuthInv

LEMMA CompletesRefreshInv ==
    ASSUME AuthInv, NEW f \in Flights, CompletesRefresh(f)
    PROVE  AuthInv'
<1>1. CASE HoldsLease(f[1], f[2], refresh[f].seq)
      BY <1>1, RefreshStored
<1>2. CASE ~HoldsLease(f[1], f[2], refresh[f].seq)
  <2>1. /\ Waits(f) /\ refresh[f].at = "complete" /\ Active(f) /\ Leased(f)
        /\ UNCHANGED <<servedBy, revision, credential, login, logins, call, valid, spent,
                       latest, recreated, torn>>
        BY <1>2 DEF CompletesRefresh, Active, Leased, connectionVars, loginVars, tokenVars
  <2>2. torn \/ f[2] \in recreated \/ credential[f[2]] = NoRow
        \/ credential[f[2]].seq # refresh[f].seq
        BY <1>2, <2>1 DEF HoldsLease, AtRotation, Present, AuthInv, LeaseKept
  <2> QED BY <2>1, <2>2, FlightWaits
<1> QED BY <1>1, <1>2

-----------------------------------------------------------------------------
\* A login obtains a token nobody holds.
LEMMA CallbackExchangesInv ==
    ASSUME AuthInv, CallbackExchanges
    PROVE  AuthInv'
<1> USE DEF connectionVars
<1>0. /\ login.at = "started"
      /\ UNCHANGED <<servedBy, revision, credential, logins, call, refresh, latest, recreated,
                     torn>>
      BY DEF CallbackExchanges
<1>1. CASE login.rev # revision
  <2>1. login' = NoLogin /\ UNCHANGED <<valid, spent>>
        BY <1>1 DEF CallbackExchanges, tokenVars
  <2> QED BY <1>0, <2>1, NoLoginFacts, NoRowMoves DEF AuthInv, Types
<1>2. CASE login.rev = revision
  <2>1. PICK row \in GrantedTokens(FreshToken, logins) :
           /\ login' = [login EXCEPT !.at = "exchanged", !.row = row]
           /\ Grants(row, {})
        BY <1>2 DEF CallbackExchanges
  <2>2. FreshToken \in Token /\ FreshToken \notin HeldTokens
        BY <1>2, FreshFacts DEF CallbackExchanges
  <2>3. logins \in 1..MaxLogins
        BY <1>0, AgentAuthAssumption DEF AuthInv, Types, Shapes
  <2>4. /\ row \in GrantedRows /\ row \in Rows /\ row # NoRow
        /\ row.token = FreshToken /\ row.login = logins /\ row.refreshable \in BOOLEAN
        BY <2>2, <2>3, GrantedFacts
  <2>5. login \in LoginStates
        BY DEF AuthInv, Types
  <2>6. login' \in LoginStates
        BY <2>1, <2>4, <2>5 DEF LoginStates
  <2>7. login'.row = row /\ login'.at = "exchanged"
        BY <2>1, <2>5 DEF LoginStates
  <2>8. Types'
        BY <1>0, <2>6 DEF AuthInv, Types
  <2>9. Shapes'
        BY <1>0, <2>3, <2>4, <2>7 DEF AuthInv, Shapes, Verifying, Active, Flight
  <2>10. TokensApart'
    <3>1. PICK o \in [Token -> Places] : Owned(o)
          BY DEF AuthInv, TokensApart
    <3>2. PICK q \in [Token -> Places] :
             q[FreshToken] = InLogin /\ \A t \in Token : t # FreshToken => q[t] = o[t]
      <4>1. InLogin \in Places
            BY DEF Places
      <4> DEFINE r == [o EXCEPT ![FreshToken] = InLogin]
      <4>2. /\ r \in [Token -> Places] /\ r[FreshToken] = InLogin
            /\ \A t \in Token : t # FreshToken => r[t] = o[t]
            BY <2>2, <4>1
      <4> QED BY <4>2
    <3>3. \A t \in Token : t \in HeldTokens => q[t] = o[t]
          BY <2>2, <3>2
    <3>4. \A rev \in SecurityRevision :
            credential'[rev] # NoRow => q[credential'[rev].token] = InRow(rev)
          BY <1>0, <3>1, <3>3, HeldFacts, RowFacts DEF AuthInv, Types, Owned, Present
    <3>5. \A c \in Call : call'[c].token # NoToken => q[call'[c].token] = InRow(call'[c].rev)
          BY <1>0, <3>1, <3>3, HeldFacts DEF AuthInv, Types, CallStates, Owned
    <3>6. \A g \in Flights : refresh'[g].token # NoToken => q[refresh'[g].token] = InRow(g[2])
          BY <1>0, <3>1, <3>3, HeldFacts DEF AuthInv, Types, FlightStates, Owned
    <3>7. \A g \in Flights : refresh'[g].next # NoRow => q[refresh'[g].next.token] = InNext(g)
      <4> SUFFICES ASSUME NEW g \in Flights, refresh[g].next # NoRow
                   PROVE  q[refresh[g].next.token] = InNext(g)
          BY <1>0
      <4>1. refresh[g].next.token \in Token
            BY RowFacts DEF AuthInv, Types, FlightStates, GrantedRows
      <4> QED BY <3>1, <3>3, <4>1, HeldFacts DEF AuthInv, Owned
    <3>8. q[login'.row.token] = InLogin
          BY <2>4, <2>7, <3>2
    <3>9. Owned(q)'
          BY <3>4, <3>5, <3>6, <3>7, <3>8 DEF Owned, Present, InRow, InNext, InLogin
    <3>10. q \in [Token -> Places]'
          BY <3>2 DEF Places, InRow, InNext, InLogin, Flights, SecurityRevision
    <3> QED BY <3>9, <3>10 DEF TokensApart
  <2>11. Honoured'
    <3>0. /\ valid' = (valid \cap HeldTokens) \cup (IF row.refreshable THEN {row.token} ELSE {})
          /\ spent' = spent \cap HeldTokens
          BY <2>1 DEF Grants
    <3>1. \A g \in Flights : refresh'[g].next # NoRow /\ refresh'[g].next.refreshable
                             => refresh'[g].next.token \in valid'
          BY <1>0, <3>0, HeldFacts DEF AuthInv, Honoured
    <3>2. login'.row.refreshable => login'.row.token \in valid'
          BY <2>7, <3>0
    <3>3. ASSUME NEW rev \in SecurityRevision, credential'[rev].refreshable, ~torn',
                 rev \notin recreated', credential'[rev].token \notin valid',
                 credential'[rev].token \notin spent'
          PROVE  \E p \in Api : /\ refresh'[<<p, rev>>].at = "complete"
                                /\ refresh'[<<p, rev>>].seq = credential'[rev].seq
      <4>1. credential[rev].token \in HeldTokens
            BY HeldFacts DEF AuthInv
      <4>2. credential[rev].token \notin valid /\ credential[rev].token \notin spent
            BY <1>0, <3>0, <3>3, <4>1
      <4> QED BY <1>0, <3>3, <4>2 DEF AuthInv, Honoured
    <3> QED BY <3>1, <3>2, <3>3 DEF Honoured
  <2>12. \A g \in Flights : (Active(g)' <=> Active(g)) /\ (Leased(g)' <=> Leased(g))
        BY <1>0 DEF Active, Leased
  <2> QED BY <1>0, <2>8, <2>9, <2>10, <2>11, <2>12, SnapshotsStay DEF AuthInv
<1> QED BY <1>1, <1>2

\* A login's row is stored over the old one, or as the first of its revision,
\* or in place of one that was deleted.
LEMMA CallbackStoresInv ==
    ASSUME AuthInv, CallbackStores
    PROVE  AuthInv'
<1> USE DEF connectionVars, tokenVars
<1> DEFINE rev == login.rev
<1>1. /\ login.at = "storing" /\ login' = NoLogin /\ PutCredential(rev, login.row)
      /\ latest' = [latest EXCEPT ![rev] = login.row.login]
      /\ recreated' = IF ~Present(rev) /\ latest[rev] # 0 THEN recreated \cup {rev}
                      ELSE recreated
      /\ UNCHANGED <<servedBy, revision, valid, spent, logins, call, refresh, torn>>
      BY DEF CallbackStores
<1>2. rev \in SecurityRevision /\ login.row # NoRow
      BY <1>1 DEF AuthInv, Types, LoginStates, Shapes
<1>3. /\ login.row \in Rows /\ login.row.token \in Token /\ login.row.login \in 1..MaxLogins
      /\ login.row.lease = "none" /\ login.row.by = "none"
      BY <1>2, RowFacts DEF AuthInv, Types, LoginStates, GrantedRows
<1>4. PICK new \in Rows :
        /\ credential' = [credential EXCEPT ![rev] = new]
        /\ new # NoRow /\ new.token = login.row.token /\ new.login = login.row.login
        /\ new.refreshable = login.row.refreshable /\ new.lease = "none" /\ new.by = "none"
        /\ Present(rev) => new.seq = credential[rev].seq + 1
  <2>1. CASE Present(rev)
    <3> DEFINE r == Rotated(rev, login.row)
    <3>1. /\ r \in Rows /\ r # NoRow
          /\ r.seq = credential[rev].seq + 1 /\ r.token = login.row.token
          /\ r.login = login.row.login /\ r.refreshable = login.row.refreshable
          /\ r.lease = "none" /\ r.by = "none"
          BY <1>2, <1>3, RotatedFacts DEF AuthInv
    <3>2. credential' = [credential EXCEPT ![rev] = r]
          BY <1>1, <2>1 DEF PutCredential
    <3> HIDE DEF r
    <3> QED BY <3>1, <3>2
  <2>2. CASE ~Present(rev)
    <3> DEFINE r == [login.row EXCEPT !.seq = 0]
    <3>1. r \in Rows
          BY <1>3 DEF Rows
    <3>2. /\ r.token = login.row.token /\ r.login = login.row.login
          /\ r.refreshable = login.row.refreshable /\ r.lease = "none" /\ r.by = "none"
          BY <1>3 DEF Rows
    <3>3. credential' = [credential EXCEPT ![rev] = r]
          BY <1>1, <2>2 DEF PutCredential
    <3>4. r # NoRow
          BY <3>1, RowFacts
    <3> HIDE DEF r
    <3> QED BY <2>2, <3>1, <3>2, <3>3, <3>4
  <2> QED BY <2>1, <2>2
<1>5. /\ credential' \in [SecurityRevision -> Rows \cup {NoRow}] /\ credential'[rev] = new
      /\ \A r \in SecurityRevision : r # rev => credential'[r] = credential[r]
      BY <1>2, <1>4 DEF AuthInv, Types
<1>6. /\ latest' \in [SecurityRevision -> 0..MaxLogins] /\ latest'[rev] = login.row.login
      /\ \A r \in SecurityRevision : r # rev => latest'[r] = latest[r]
      BY <1>1, <1>2, <1>3, AgentAuthAssumption DEF AuthInv, Types
<1>7. Types'
      BY <1>1, <1>5, <1>6, NoLoginFacts DEF AuthInv, Types
<1>8. Shapes'
  <2>1. \A r \in SecurityRevision : credential'[r].lease = "none" <=> credential'[r].by = "none"
        BY <1>4, <1>5 DEF AuthInv, Shapes
  <2> QED BY <1>1, <2>1, NoLoginFacts DEF AuthInv, Shapes, Verifying, Active, Flight
<1>9. PICK o \in [Token -> Places] : Owned(o)
      BY DEF AuthInv, TokensApart
<1>10. o[new.token] = InLogin
      BY <1>2, <1>4, <1>9 DEF Owned
<1>11. /\ \A r \in SecurityRevision : InRow(r) # InLogin
       /\ \A g \in Flights : InRow(g[2]) # InLogin
       /\ \A g \in Flights : InNext(g) # InLogin
      BY DEF InRow, InNext, InLogin
<1>12. TokensApart'
  <2>1. PICK q \in [Token -> Places] :
           q[new.token] = InRow(rev) /\ \A t \in Token : t # new.token => q[t] = o[t]
    <3>1. InRow(rev) \in Places
          BY <1>2 DEF Places
    <3>2. new.token \in Token
          BY <1>3, <1>4
    <3> DEFINE r == [o EXCEPT ![new.token] = InRow(rev)]
    <3>3. /\ r \in [Token -> Places] /\ r[new.token] = InRow(rev)
          /\ \A t \in Token : t # new.token => r[t] = o[t]
          BY <3>1, <3>2
    <3> QED BY <3>3
  <2>2. \A t \in Token : o[t] # InLogin => q[t] = o[t]
        BY <1>10, <2>1
  <2>3. \A r \in SecurityRevision :
          credential'[r] # NoRow => q[credential'[r].token] = InRow(r)
    <3> SUFFICES ASSUME NEW r \in SecurityRevision, credential'[r] # NoRow, r # rev
                 PROVE  q[credential'[r].token] = InRow(r)
        BY <1>5, <2>1
    <3>1. credential'[r] = credential[r] /\ credential[r].token \in Token
          BY <1>5, RowFacts
    <3> QED BY <1>9, <1>11, <2>2, <3>1 DEF Owned, Present
  <2>4. ASSUME NEW c \in Call, call'[c].token # NoToken
        PROVE  q[call'[c].token] = InRow(call'[c].rev)
    <3>1. call'[c] = call[c] /\ call[c].token \in Token /\ call[c].rev \in SecurityRevision
          BY <1>1, <2>4 DEF AuthInv, Types, CallStates
    <3> QED BY <1>9, <1>11, <2>2, <2>4, <3>1 DEF Owned
  <2>5. ASSUME NEW g \in Flights, refresh'[g].token # NoToken
        PROVE  q[refresh'[g].token] = InRow(g[2])
    <3>1. refresh'[g] = refresh[g] /\ refresh[g].token \in Token
          BY <1>1, <2>5 DEF AuthInv, Types, FlightStates
    <3> QED BY <1>9, <1>11, <2>2, <2>5, <3>1 DEF Owned
  <2>6. ASSUME NEW g \in Flights, refresh'[g].next # NoRow
        PROVE  q[refresh'[g].next.token] = InNext(g)
    <3>1. refresh'[g] = refresh[g]
          BY <1>1
    <3>2. refresh[g].next.token \in Token
          BY <2>6, <3>1, RowFacts DEF AuthInv, Types, FlightStates, GrantedRows
    <3> QED BY <1>9, <1>11, <2>2, <2>6, <3>1, <3>2 DEF Owned
  <2>7. login'.row = NoRow
        BY <1>1, NoLoginFacts
  <2>8. Owned(q)'
        BY <2>3, <2>4, <2>5, <2>6, <2>7 DEF Owned, Present, InRow, InNext, InLogin
  <2>9. q \in [Token -> Places]'
        BY <2>1 DEF Places, InRow, InNext, InLogin, Flights, SecurityRevision
  <2> QED BY <2>8, <2>9 DEF TokensApart
<1>13. Known'
  <2>1. latest'[rev] # 0
        BY <1>3, <1>6, AgentAuthAssumption
  <2> QED BY <1>1, <1>5, <1>6, <2>1
          DEF AuthInv, Known, Present, Active, Verifying, Used
<1>14. Snapshots' /\ SameRotation' /\ Readings' /\ LeaseKept' /\ LeaseAlone'
  <2>1. \A g \in Flights : CalmFlight(g) /\ (Leased(g)' => Leased(g))
        BY <1>1, SameIsCalm DEF AuthInv, Leased
  <2>2. \A c \in Call : CalmCall(c)
        BY <1>1, SameIsCalm DEF AuthInv
  <2>3. ASSUME NEW g \in Flights, Active(g)', g[2] = rev, rev \notin recreated'
        PROVE  /\ refresh'[g].seq \in Nat /\ refresh'[g].seq < credential'[rev].seq
               /\ refresh'[g].token # credential'[rev].token
    <3>1. Active(g) /\ refresh'[g] = refresh[g] /\ rev \notin recreated
          BY <1>1, <2>3 DEF Active
    <3>2. Present(rev)
          BY <1>1, <1>2, <2>3, <3>1 DEF AuthInv, Known
    <3>3. refresh[g].seq \in Nat /\ credential[rev].seq \in Nat
          BY <1>2, RowFacts DEF AuthInv, Types, FlightStates
    <3>4. refresh[g].seq <= credential[rev].seq
          BY <2>3, <3>1, <3>2 DEF AuthInv, Snapshots
    <3>5. o[refresh[g].token] = InRow(g[2])
          BY <1>9, <3>1 DEF AuthInv, Shapes, Owned
    <3> QED BY <1>4, <1>5, <1>10, <1>11, <3>1, <3>2, <3>3, <3>4, <3>5
  <2>4. ASSUME NEW c \in Call, Verifying(c)' \/ Used(c)', call'[c].rev = rev,
               rev \notin recreated'
        PROVE  call'[c].seq \in Nat /\ call'[c].seq < credential'[rev].seq
    <3>1. /\ call'[c] = call[c] /\ rev \notin recreated
          /\ Verifying(c) \/ Used(c)
          BY <1>1, <2>4 DEF Verifying, Used
    <3>2. Present(rev)
          BY <1>1, <1>2, <2>4, <3>1 DEF AuthInv, Known
    <3>3. call[c].seq \in Nat /\ credential[rev].seq \in Nat
          BY <1>2, RowFacts DEF AuthInv, Types, CallStates
    <3>4. call[c].seq <= credential[rev].seq
          BY <2>4, <3>1, <3>2 DEF AuthInv, Readings
    <3> QED BY <1>4, <1>5, <3>1, <3>2, <3>3, <3>4
  <2>5. recreated \subseteq recreated' /\ torn' = torn
        BY <1>1
  <2> HIDE DEF rev
  <2> QED BY <1>2, <1>5, <2>1, <2>2, <2>3, <2>4, <2>5, RowWritten
<1>15. Honoured'
  <2>1. \A g \in Flights : refresh'[g].next # NoRow /\ refresh'[g].next.refreshable
                           => refresh'[g].next.token \in valid'
        BY <1>1 DEF AuthInv, Honoured
  <2>2. login'.row = NoRow
        BY <1>1, NoLoginFacts
  <2>3. ASSUME NEW r \in SecurityRevision, credential'[r].refreshable, ~torn',
               r \notin recreated', credential'[r].token \notin valid',
               credential'[r].token \notin spent'
        PROVE  \E p \in Api : /\ refresh'[<<p, r>>].at = "complete"
                              /\ refresh'[<<p, r>>].seq = credential'[r].seq
    <3>1. r # rev
          BY <1>1, <1>2, <1>4, <1>5, <2>3 DEF AuthInv, Honoured
    <3>2. credential'[r] = credential[r] /\ r \notin recreated
          BY <1>1, <1>5, <2>3, <3>1
    <3> QED BY <1>1, <2>3, <3>2 DEF AuthInv, Honoured
  <2> QED BY <2>1, <2>2, <2>3 DEF Honoured
<1>16. LatestLoginKept'
  <2>1. \A r \in recreated : r \in recreated'
        BY <1>1
  <2> QED BY <1>4, <1>5, <1>6, <2>1 DEF AuthInv, LatestLoginKept, Present
<1> QED BY <1>7, <1>8, <1>12, <1>13, <1>14, <1>15, <1>16 DEF AuthInv

-----------------------------------------------------------------------------
(***************************************************************************)
(* A request takes its reading of a row, which it may just have written    *)
(***************************************************************************)
\* A row against a snapshot, and against a reading.
Fits(flight, row) ==
    /\ flight.seq <= row.seq
    /\ row.seq = flight.seq => /\ row.token = flight.token /\ row.login = flight.login
                               /\ row.refreshable = flight.refreshable /\ ~row.pending
    /\ row.seq # flight.seq => row.token # flight.token

FitsCall(d, row) ==
    /\ Verifying(d) \/ Used(d) => call[d].seq <= row.seq
    /\ Verifying(d) /\ row.seq = call[d].seq => row.token = call[d].token /\ row.pending
    /\ Used(d) /\ row.seq = call[d].seq => ~row.pending

\* A refresh that starts has the row as its snapshot.
Started(f, row) ==
    /\ refresh[f].at = "none"
    /\ refresh'[f].at = "claim" /\ refresh'[f].seq = row.seq /\ refresh'[f].token = row.token
    /\ refresh'[f].login = row.login /\ refresh'[f].refreshable = row.refreshable
    /\ refresh'[f].next = NoRow

\* What becomes of the request.
Reads(c, row) ==
    \/ /\ call'[c].at = "verify" /\ call'[c].rev = call[c].rev /\ call'[c].seq = row.seq
       /\ call'[c].token = row.token /\ row.pending
    \/ /\ call'[c].at = "send" /\ call'[c].rev = call[c].rev /\ call'[c].seq = row.seq
       /\ call'[c].token = NoToken /\ ~row.pending
    \/ /\ call'[c].at = "await" /\ call'[c].rev = call[c].rev /\ call'[c].token = NoToken
       /\ refresh'[Flight(c)].at # "none"
    \/ call'[c].at = "idle" /\ call'[c].token = NoToken

LEMMA TakesReading ==
    ASSUME AuthInv, NEW c \in Call, NEW rev \in SecurityRevision, call[c].rev = rev, Present(rev),
           UNCHANGED <<servedBy, revision, login, logins, valid, spent, latest, recreated, torn>>,
           credential' \in [SecurityRevision -> Rows \cup {NoRow}], credential'[rev] # NoRow,
           \A r \in SecurityRevision : r # rev => credential'[r] = credential[r],
           credential'[rev].lease = "none" <=> credential'[rev].by = "none",
           \A o \in [Token -> Places] : Owned(o) => o[credential'[rev].token] = InRow(rev),
           credential'[rev].login = credential[rev].login,
           rev \notin recreated =>
              /\ \A g \in Flights : Active(g) /\ g[2] = rev => Fits(refresh[g], credential'[rev])
              /\ \A d \in Call : d # c /\ call[d].rev = rev => FitsCall(d, credential'[rev]),
           \A g \in Flights :
              Leased(g) /\ g[2] = rev /\ credential'[rev].seq = refresh[g].seq
              => \/ credential'[rev].lease = "live" /\ credential'[rev].by = g[1]
                 \/ torn \/ rev \in recreated,
           credential'[rev].refreshable =>
              \/ credential'[rev].token \in valid \/ credential'[rev].token \in spent
              \/ \E p \in Api : /\ refresh[<<p, rev>>].at = "complete"
                                /\ refresh[<<p, rev>>].seq = credential'[rev].seq
              \/ torn \/ rev \in recreated,
           call' \in [Call -> CallStates], \A d \in Call : d # c => call'[d] = call[d],
           refresh' \in [Flights -> FlightStates],
           \A g \in Flights :
              \/ refresh'[g] = refresh[g]
              \/ /\ g = Flight(c) /\ Started(g, credential'[rev])
                 /\ credential'[rev].pending => rev \in recreated,
           Reads(c, credential'[rev])
    PROVE  AuthInv'
<1> DEFINE row == credential'[rev]
<1>0. /\ row \in Rows /\ row.token \in Token /\ row.token # NoToken /\ row.login # 0
      /\ row.seq \in Nat /\ row.login \in 1..MaxLogins
      BY RowFacts, AgentAuthAssumption
<1>a. Flight(c) \in Flights /\ Flight(c)[2] = rev
      BY DEF AuthInv, Types, Flights, Flight
<1>1. Types'
      BY DEF AuthInv, Types
<1>2. \A g \in Flights :
         Active(g)' => \/ refresh'[g] = refresh[g] /\ Active(g)
                       \/ /\ Started(g, row) /\ g = Flight(c)
                          /\ row.pending => rev \in recreated
  <2>1. \A g \in Flights : Active(g)' /\ refresh'[g] = refresh[g] => Active(g)
        BY DEF Active
  <2> QED BY <2>1
<1>3. \A g \in Flights : Leased(g)' => refresh'[g] = refresh[g] /\ Leased(g)
      BY DEF Leased, Started
<1>4. Shapes'
  <2>1. \A d \in Call : Verifying(d)' <=> call'[d].token # NoToken
    <3>1. Verifying(c)' <=> call'[c].token # NoToken
          BY <1>0 DEF Reads, Verifying
    <3>2. \A d \in Call : d # c => (Verifying(d)' <=> call'[d].token # NoToken)
          BY DEF AuthInv, Shapes, Verifying
    <3> QED BY <3>1, <3>2
  <2>2. ASSUME NEW d \in Call, call'[d].at = "await"
        PROVE  refresh'[<<servedBy'[d], call'[d].rev>>].at # "none"
    <3>1. CASE d = c
          BY <2>2, <3>1 DEF Reads, Flight
    <3>2. CASE d # c
      <4>1. call'[d] = call[d] /\ <<servedBy[d], call[d].rev>> \in Flights
            BY <3>2 DEF AuthInv, Types, CallStates, Flights
      <4>2. refresh[<<servedBy[d], call[d].rev>>].at # "none"
            BY <2>2, <4>1 DEF AuthInv, Shapes, Flight
      <4> QED BY <4>1, <4>2 DEF Started
    <3> QED BY <3>1, <3>2
  <2>3. \A g \in Flights :
          /\ Active(g)' <=> refresh'[g].token # NoToken
          /\ Active(g)' => refresh'[g].login # 0
          /\ refresh'[g].at = "complete" => refresh'[g].next # NoRow
          /\ refresh'[g].next # NoRow => /\ refresh'[g].at = "complete"
                                         /\ refresh'[g].next.login = refresh'[g].login
    <3> SUFFICES ASSUME NEW g \in Flights
                 PROVE  /\ Active(g)' <=> refresh'[g].token # NoToken
                        /\ Active(g)' => refresh'[g].login # 0
                        /\ refresh'[g].at = "complete" => refresh'[g].next # NoRow
                        /\ refresh'[g].next # NoRow =>
                              /\ refresh'[g].at = "complete"
                              /\ refresh'[g].next.login = refresh'[g].login
        OBVIOUS
    <3>1. CASE refresh'[g] = refresh[g]
          BY <3>1 DEF AuthInv, Shapes, Active
    <3>2. CASE Started(g, row)
          BY <1>0, <3>2 DEF Started, Active
    <3> QED BY <3>1, <3>2
  <2>4. \A r \in SecurityRevision : credential'[r].lease = "none" <=> credential'[r].by = "none"
        BY DEF AuthInv, Shapes
  <2> QED BY <2>1, <2>2, <2>3, <2>4 DEF AuthInv, Shapes, Flight
<1>5. TokensApart'
  <2>1. PICK o \in [Token -> Places] : Owned(o)
        BY DEF AuthInv, TokensApart
  <2>2. o[row.token] = InRow(rev)
        BY <2>1 DEF Owned
  <2>3. \A r \in SecurityRevision :
          credential'[r] # NoRow => o[credential'[r].token] = InRow(r)
        BY <2>1, <2>2 DEF Owned, Present
  <2>4. \A d \in Call : call'[d].token # NoToken => o[call'[d].token] = InRow(call'[d].rev)
        BY <2>1, <2>2 DEF Owned, Reads
  <2>5. \A g \in Flights : refresh'[g].token # NoToken => o[refresh'[g].token] = InRow(g[2])
        BY <1>a, <2>1, <2>2 DEF Owned, Started
  <2>6. \A g \in Flights : refresh'[g].next # NoRow => o[refresh'[g].next.token] = InNext(g)
        BY <2>1 DEF Owned, Started
  <2>7. login'.row # NoRow => o[login'.row.token] = InLogin
        BY <2>1 DEF Owned
  <2>8. Owned(o)'
        BY <2>3, <2>4, <2>5, <2>6, <2>7 DEF Owned, Present, InRow, InNext, InLogin
  <2>9. o \in [Token -> Places]'
        BY <2>1 DEF Places, InRow, InNext, InLogin, Flights, SecurityRevision
  <2> QED BY <2>8, <2>9 DEF TokensApart
<1>6. Known'
  <2>1. latest[rev] # 0
        BY DEF AuthInv, Known
  <2>2. ASSUME NEW r \in SecurityRevision, latest'[r] = 0
        PROVE  /\ credential'[r] = NoRow
               /\ \A f \in Flights : f[2] = r => ~Active(f)'
               /\ \A d \in Call : call'[d].rev = r => ~Verifying(d)' /\ ~Used(d)'
    <3>1. r # rev
          BY <2>1, <2>2
    <3>2. credential'[r] = NoRow
          BY <2>2, <3>1 DEF AuthInv, Known, Present
    <3>3. \A f \in Flights : f[2] = r => ~Active(f)'
          BY <1>2, <1>a, <2>2, <3>1 DEF AuthInv, Known
    <3>4. \A d \in Call : d # c /\ call'[d].rev = r => ~Verifying(d)' /\ ~Used(d)'
          BY <2>2 DEF AuthInv, Known, Verifying, Used
    <3>5. call'[c].rev = r => ~Verifying(c)' /\ ~Used(c)'
          BY <3>1 DEF Reads, Verifying, Used
    <3> QED BY <3>2, <3>3, <3>4, <3>5
  <2> QED BY <2>2 DEF Known, Present
<1>7. Snapshots'
  <2> SUFFICES ASSUME NEW f \in Flights, Active(f)', credential'[f[2]] # NoRow,
                      f[2] \notin recreated
               PROVE  Fits(refresh'[f], credential'[f[2]])
      BY DEF Snapshots, Present, Fits
  <2>1. CASE refresh'[f] = refresh[f] /\ Active(f) /\ f[2] = rev
        BY <2>1
  <2>2. CASE refresh'[f] = refresh[f] /\ Active(f) /\ f[2] # rev
    <3>1. credential'[f[2]] = credential[f[2]]
          BY <2>2 DEF Flights
    <3> QED BY <2>2, <3>1 DEF AuthInv, Snapshots, Present, Fits
  <2>3. CASE Started(f, row) /\ f = Flight(c) /\ (row.pending => rev \in recreated)
        BY <1>0, <1>a, <2>3 DEF Started, Fits
  <2> QED BY <1>2, <2>1, <2>2, <2>3
<1>8. SameRotation'
  <2> SUFFICES ASSUME NEW f \in Flights, NEW g \in Flights, Active(f)', Active(g)', f[2] = g[2],
                      f[2] \notin recreated, refresh'[f].token = refresh'[g].token
               PROVE  refresh'[f].seq = refresh'[g].seq
      BY DEF SameRotation
  <2>1. CASE refresh'[f] = refresh[f] /\ Active(f) /\ refresh'[g] = refresh[g] /\ Active(g)
        BY <2>1 DEF AuthInv, SameRotation
  <2>2. CASE Started(f, row) /\ f = Flight(c) /\ refresh'[g] = refresh[g] /\ Active(g)
    <3>1. Fits(refresh[g], row)
          BY <1>a, <2>2
    <3> QED BY <2>2, <3>1 DEF Started, Fits
  <2>3. CASE Started(g, row) /\ g = Flight(c) /\ refresh'[f] = refresh[f] /\ Active(f)
    <3>1. Fits(refresh[f], row)
          BY <1>a, <2>3
    <3> QED BY <2>3, <3>1 DEF Started, Fits
  <2>4. CASE f = Flight(c) /\ g = Flight(c)
        BY <2>4
  <2> QED BY <1>2, <2>1, <2>2, <2>3, <2>4
<1>9. Readings'
  <2> SUFFICES ASSUME NEW d \in Call, credential'[call'[d].rev] # NoRow,
                      call'[d].rev \notin recreated
               PROVE  LET r == credential'[call'[d].rev]
                      IN  /\ Verifying(d)' \/ Used(d)' => call'[d].seq <= r.seq
                          /\ Verifying(d)' /\ r.seq = call'[d].seq =>
                                r.token = call'[d].token /\ r.pending
                          /\ Used(d)' /\ r.seq = call'[d].seq => ~r.pending
      BY DEF Readings, Present
  <2>1. CASE d = c
        BY <1>0, <2>1 DEF Reads, Verifying, Used
  <2>2. CASE d # c
    <3>1. call'[d] = call[d] /\ (Verifying(d)' <=> Verifying(d)) /\ (Used(d)' <=> Used(d))
          BY <2>2 DEF Verifying, Used
    <3>2. CASE call[d].rev = rev
          BY <2>2, <3>1, <3>2 DEF FitsCall
    <3>3. CASE call[d].rev # rev
      <4>1. credential'[call[d].rev] = credential[call[d].rev]
            BY <3>3 DEF AuthInv, Types, CallStates
      <4> QED BY <3>1, <4>1 DEF AuthInv, Readings, Present
    <3> QED BY <3>2, <3>3
  <2> QED BY <2>1, <2>2
<1>10. LeaseKept'
  <2> SUFFICES ASSUME NEW f \in Flights, Leased(f)', credential'[f[2]] # NoRow,
                      credential'[f[2]].seq = refresh'[f].seq, ~torn, f[2] \notin recreated
               PROVE  credential'[f[2]].lease = "live" /\ credential'[f[2]].by = f[1]
      BY DEF LeaseKept, Present
  <2>1. refresh'[f] = refresh[f] /\ Leased(f)
        BY <1>3
  <2>2. CASE f[2] = rev
        BY <2>1, <2>2
  <2>3. CASE f[2] # rev
    <3>1. credential'[f[2]] = credential[f[2]]
          BY <2>3 DEF Flights
    <3> QED BY <2>1, <3>1 DEF AuthInv, LeaseKept, Present
  <2> QED BY <2>2, <2>3
<1>11. LeaseAlone'
      BY <1>3 DEF AuthInv, LeaseAlone
<1>12. Honoured'
  <2>0. \A g \in Flights : refresh[g].at = "complete" => refresh'[g] = refresh[g]
        BY DEF Started
  <2>1. \A g \in Flights : refresh'[g].next # NoRow /\ refresh'[g].next.refreshable
                           => refresh'[g].next.token \in valid'
        BY DEF AuthInv, Honoured, Started
  <2>2. login'.row # NoRow /\ login'.row.refreshable => login'.row.token \in valid'
        BY DEF AuthInv, Honoured
  <2>3. ASSUME NEW r \in SecurityRevision, credential'[r].refreshable, ~torn',
               r \notin recreated', credential'[r].token \notin valid',
               credential'[r].token \notin spent'
        PROVE  \E p \in Api : /\ refresh'[<<p, r>>].at = "complete"
                              /\ refresh'[<<p, r>>].seq = credential'[r].seq
    <3>1. PICK p \in Api : /\ refresh[<<p, r>>].at = "complete"
                           /\ refresh[<<p, r>>].seq = credential'[r].seq
      <4>1. CASE r = rev
            BY <2>3, <4>1
      <4>2. CASE r # rev
        <5>1. credential'[r] = credential[r]
              BY <4>2
        <5>2. /\ credential[r].refreshable /\ ~torn /\ r \notin recreated
              /\ credential[r].token \notin valid /\ credential[r].token \notin spent
              BY <2>3, <5>1
        <5>3. \E p \in Api : /\ refresh[<<p, r>>].at = "complete"
                             /\ refresh[<<p, r>>].seq = credential[r].seq
              BY <5>2 DEF AuthInv, Honoured
        <5> QED BY <5>1, <5>3
      <4> QED BY <4>1, <4>2
    <3>2. <<p, r>> \in Flights
          BY DEF Flights
    <3> QED BY <2>0, <3>1, <3>2
  <2> QED BY <2>1, <2>2, <2>3 DEF Honoured
<1>13. LatestLoginKept'
      BY DEF AuthInv, LatestLoginKept, Present
<1> QED BY <1>1, <1>4, <1>5, <1>6, <1>7, <1>8, <1>9, <1>10, <1>11, <1>12, <1>13 DEF AuthInv

\* getOrStartRefresh, for a request that has read row.
LEMMA JoinsFacts ==
    ASSUME AuthInv, NEW c \in Call, NEW row \in Rows, NEW purpose \in {"resolve", "recover"},
           JoinsRefresh(c, row, purpose)
    PROVE  /\ call' \in [Call -> CallStates] /\ \A d \in Call : d # c => call'[d] = call[d]
           /\ refresh' \in [Flights -> FlightStates]
           /\ \A g \in Flights :
                 refresh'[g] = refresh[g] \/ (g = Flight(c) /\ Started(g, row))
           /\ call'[c].at = "await" /\ call'[c].rev = call[c].rev /\ call'[c].token = NoToken
           /\ refresh'[Flight(c)].at # "none"
<1>1. call[c] \in CallStates /\ Flight(c) \in Flights
      BY DEF AuthInv, Types, CallStates, Flights, Flight
<1> DEFINE new == [call[c] EXCEPT !.at = "await", !.purpose = purpose, !.seq = 0,
                                  !.token = NoToken]
<1>2. new \in CallStates
      BY <1>1 DEF CallStates
<1>3. new.at = "await" /\ new.rev = call[c].rev /\ new.token = NoToken
      BY <1>1 DEF CallStates
<1>4. call' = [call EXCEPT ![c] = new]
      BY DEF JoinsRefresh
<1> HIDE DEF new
<1>5. /\ call' \in [Call -> CallStates] /\ call'[c] = new
      /\ \A d \in Call : d # c => call'[d] = call[d]
      BY <1>2, <1>4 DEF AuthInv, Types
<1>6. CASE refresh[Flight(c)].at # "none"
  <2>1. refresh' = refresh
        BY <1>6 DEF JoinsRefresh
  <2> QED BY <1>3, <1>5, <1>6, <2>1 DEF AuthInv, Types
<1>7. CASE refresh[Flight(c)].at = "none"
  <2> DEFINE fl == [NoFlight EXCEPT !.at = "claim", !.seq = row.seq, !.token = row.token,
                                    !.login = row.login, !.refreshable = row.refreshable]
  <2>1. /\ row.seq \in Nat /\ row.token \in Token \cup {NoToken} /\ row.login \in 0..MaxLogins
        /\ row.refreshable \in BOOLEAN
    <3>1. row.seq \in Nat /\ row.token \in Token /\ row.refreshable \in BOOLEAN
          BY DEF Rows
    <3>2. row.login \in 1..MaxLogins
          BY DEF Rows
    <3>3. row.login \in 0..MaxLogins
          BY <3>2, AgentAuthAssumption
    <3> QED BY <3>1, <3>3
  <2>2. fl \in FlightStates
        BY <2>1, NoFlightFacts DEF FlightStates
  <2>3. /\ fl.at = "claim" /\ fl.seq = row.seq /\ fl.token = row.token /\ fl.login = row.login
        /\ fl.refreshable = row.refreshable /\ fl.next = NoRow
        BY DEF NoFlight
  <2>4. refresh' = [refresh EXCEPT ![Flight(c)] = fl]
        BY <1>7 DEF JoinsRefresh
  <2> HIDE DEF fl
  <2>5. /\ refresh' \in [Flights -> FlightStates] /\ refresh'[Flight(c)] = fl
        /\ \A g \in Flights : g # Flight(c) => refresh'[g] = refresh[g]
        BY <1>1, <2>2, <2>4 DEF AuthInv, Types
  <2>6. Started(Flight(c), row)
        BY <1>7, <2>3, <2>5 DEF Started
  <2> QED BY <1>3, <1>5, <2>3, <2>5, <2>6
<1> QED BY <1>6, <1>7

\* What UsesRow makes of a verified row.
LEMMA UsesFacts ==
    ASSUME AuthInv, NEW c \in Call, NEW row \in Rows, ~row.pending, UsesRow(c, row)
    PROVE  /\ call' \in [Call -> CallStates] /\ \A d \in Call : d # c => call'[d] = call[d]
           /\ refresh' \in [Flights -> FlightStates]
           /\ \A g \in Flights :
                 refresh'[g] = refresh[g] \/ (g = Flight(c) /\ Started(g, row))
           /\ Reads(c, row)
<1>1. \/ /\ call' = [call EXCEPT ![c].at = "send", ![c].seq = row.seq, ![c].token = NoToken]
         /\ UNCHANGED refresh
      \/ JoinsRefresh(c, row, "resolve")
      \/ Answers(c) /\ UNCHANGED refresh
      BY Zenon DEF UsesRow
<1>2. CASE /\ call' = [call EXCEPT ![c].at = "send", ![c].seq = row.seq, ![c].token = NoToken]
           /\ UNCHANGED refresh
  <2>1. call[c] \in CallStates /\ row.seq \in Nat
        BY DEF AuthInv, Types, Rows
  <2> DEFINE new == [call[c] EXCEPT !.at = "send", !.seq = row.seq, !.token = NoToken]
  <2>2. new \in CallStates
        BY <2>1 DEF CallStates
  <2>3. new.at = "send" /\ new.rev = call[c].rev /\ new.token = NoToken /\ new.seq = row.seq
        BY <2>1 DEF CallStates
  <2>4. call' = [call EXCEPT ![c] = new]
        BY <1>2
  <2> HIDE DEF new
  <2>5. /\ call' \in [Call -> CallStates] /\ call'[c] = new
        /\ \A d \in Call : d # c => call'[d] = call[d]
        BY <2>2, <2>4 DEF AuthInv, Types
  <2>6. Reads(c, row)
        BY <2>3, <2>5 DEF Reads
  <2> QED BY <1>2, <2>5, <2>6 DEF AuthInv, Types
<1>3. CASE JoinsRefresh(c, row, "resolve")
  <2>1. /\ call' \in [Call -> CallStates] /\ \A d \in Call : d # c => call'[d] = call[d]
        /\ refresh' \in [Flights -> FlightStates]
        /\ \A g \in Flights :
              refresh'[g] = refresh[g] \/ (g = Flight(c) /\ Started(g, row))
        /\ call'[c].at = "await" /\ call'[c].rev = call[c].rev /\ call'[c].token = NoToken
        /\ refresh'[Flight(c)].at # "none"
        BY <1>3, JoinsFacts
  <2>2. Reads(c, row)
        BY <2>1 DEF Reads
  <2> QED BY <2>1, <2>2
<1>4. CASE Answers(c) /\ UNCHANGED refresh
  <2>1. /\ call' \in [Call -> CallStates] /\ call'[c] = NoCall
        /\ \A d \in Call : d # c => call'[d] = call[d]
        BY <1>4, NoCallFacts DEF Answers, AuthInv, Types
  <2>2. call'[c].at = "idle" /\ call'[c].token = NoToken
        BY <2>1, NoCallFacts
  <2>3. Reads(c, row)
        BY <2>2 DEF Reads
  <2> QED BY <1>4, <2>1, <2>3 DEF AuthInv, Types
<1> QED BY <1>1, <1>2, <1>3, <1>4

\* A reading of the row as it is.
LEMMA ReadsStored ==
    ASSUME AuthInv, NEW c \in Call, NEW row, row = credential[call[c].rev], row # NoRow,
           UNCHANGED <<servedBy, revision, credential, login, logins, valid, spent, latest,
                       recreated, torn>>,
           call' \in [Call -> CallStates], \A d \in Call : d # c => call'[d] = call[d],
           refresh' \in [Flights -> FlightStates],
           \A g \in Flights :
              \/ refresh'[g] = refresh[g]
              \/ /\ g = Flight(c) /\ Started(g, row)
                 /\ row.pending => call[c].rev \in recreated,
           Reads(c, row)
    PROVE  AuthInv'
<1> DEFINE rev == call[c].rev
<1>1. rev \in SecurityRevision /\ Present(rev) /\ credential'[rev] = row
      BY DEF AuthInv, Types, CallStates, Present
<1>2. credential' \in [SecurityRevision -> Rows \cup {NoRow}]
      BY DEF AuthInv, Types
<1>3. rev \notin recreated =>
        /\ \A g \in Flights : Active(g) /\ g[2] = rev => Fits(refresh[g], credential'[rev])
        /\ \A d \in Call : d # c /\ call[d].rev = rev => FitsCall(d, credential'[rev])
      BY <1>1 DEF AuthInv, Snapshots, Readings, Fits, FitsCall
<1>4. \A g \in Flights :
        Leased(g) /\ g[2] = rev /\ credential'[rev].seq = refresh[g].seq
        => \/ credential'[rev].lease = "live" /\ credential'[rev].by = g[1]
           \/ torn \/ rev \in recreated
      BY <1>1 DEF AuthInv, LeaseKept
<1>5. credential'[rev].refreshable =>
        \/ credential'[rev].token \in valid \/ credential'[rev].token \in spent
        \/ \E p \in Api : /\ refresh[<<p, rev>>].at = "complete"
                          /\ refresh[<<p, rev>>].seq = credential'[rev].seq
        \/ torn \/ rev \in recreated
      BY <1>1 DEF AuthInv, Honoured
<1>6. credential'[rev].lease = "none" <=> credential'[rev].by = "none"
      BY <1>1 DEF AuthInv, Shapes
<1>7. /\ credential'[rev] # NoRow /\ Reads(c, credential'[rev])
      /\ \A o \in [Token -> Places] : Owned(o) => o[credential'[rev].token] = InRow(rev)
      /\ credential'[rev].login = credential[rev].login
      /\ \A g \in Flights :
            \/ refresh'[g] = refresh[g]
            \/ /\ g = Flight(c) /\ Started(g, credential'[rev])
               /\ credential'[rev].pending => rev \in recreated
      BY <1>1 DEF Owned
<1>8. \A r \in SecurityRevision : r # rev => credential'[r] = credential[r]
      OBVIOUS
<1>9. call[c].rev = rev
      OBVIOUS
<1> HIDE DEF rev
<1> QED BY <1>1, <1>2, <1>3, <1>4, <1>5, <1>6, <1>7, <1>8, <1>9, TakesReading

LEMMA ReadsCredentialInv ==
    ASSUME AuthInv, NEW c \in Call, ReadsCredential(c)
    PROVE  AuthInv'
<1> USE DEF connectionVars, loginVars, tokenVars
<1> DEFINE row == credential[call[c].rev]
<1>0. UNCHANGED <<servedBy, revision, credential, login, logins, valid, spent, latest, recreated,
                  torn>>
      BY DEF ReadsCredential
<1>a. row \in Rows \cup {NoRow}
      BY DEF AuthInv, Types, CallStates
<1>c. row = NoRow => ~row.pending
      BY DEF NoRow
<1>b. \/ Answers(c) /\ UNCHANGED refresh
      \/ /\ row # NoRow /\ row.pending
         /\ call' = [call EXCEPT ![c].at = "verify", ![c].seq = row.seq, ![c].token = row.token]
         /\ UNCHANGED refresh
      \/ row # NoRow /\ ~row.pending /\ UsesRow(c, row)
      BY <1>c, Zenon DEF ReadsCredential
<1>1. CASE Answers(c) /\ UNCHANGED refresh
      BY <1>0, <1>1, NoCallFacts, CallEnds DEF Answers
<1>2. CASE /\ row # NoRow /\ row.pending
           /\ call' = [call EXCEPT ![c].at = "verify", ![c].seq = row.seq, ![c].token = row.token]
           /\ UNCHANGED refresh
  <2>1. call[c] \in CallStates /\ row.seq \in Nat /\ row.token \in Token \cup {NoToken}
        BY <1>a, <1>2, RowFacts DEF AuthInv, Types
  <2> DEFINE new == [call[c] EXCEPT !.at = "verify", !.seq = row.seq, !.token = row.token]
  <2>2. new \in CallStates
        BY <2>1 DEF CallStates
  <2>3. /\ new.at = "verify" /\ new.rev = call[c].rev /\ new.seq = row.seq
        /\ new.token = row.token
        BY <2>1 DEF CallStates
  <2>4. call' = [call EXCEPT ![c] = new]
        BY <1>2
  <2> HIDE DEF new
  <2>5. /\ call' \in [Call -> CallStates] /\ call'[c] = new
        /\ \A d \in Call : d # c => call'[d] = call[d]
        BY <2>2, <2>4 DEF AuthInv, Types
  <2>6. Reads(c, row)
        BY <1>2, <2>3, <2>5 DEF Reads
  <2>7. refresh' \in [Flights -> FlightStates]
        BY <1>2 DEF AuthInv, Types
  <2> QED BY <1>0, <1>2, <2>5, <2>6, <2>7, ReadsStored
<1>3. CASE row # NoRow /\ ~row.pending /\ UsesRow(c, row)
  <2>1. row \in Rows
        BY <1>a, <1>3
  <2>2. /\ call' \in [Call -> CallStates] /\ \A d \in Call : d # c => call'[d] = call[d]
        /\ refresh' \in [Flights -> FlightStates]
        /\ \A g \in Flights :
              refresh'[g] = refresh[g] \/ (g = Flight(c) /\ Started(g, row))
        /\ Reads(c, row)
        BY <1>3, <2>1, UsesFacts
  <2> QED BY <1>0, <1>3, <2>2, ReadsStored
<1> QED BY <1>b, <1>1, <1>2, <1>3

LEMMA RecoversUnauthorizedInv ==
    ASSUME AuthInv, NEW c \in Call, RecoversUnauthorized(c)
    PROVE  AuthInv'
<1> USE DEF connectionVars, loginVars, tokenVars
<1> DEFINE row == credential[call[c].rev]
<1>0. /\ call[c].at = "recover"
      /\ UNCHANGED <<servedBy, revision, credential, login, logins, valid, spent, latest, recreated,
                     torn>>
      BY DEF RecoversUnauthorized
<1>a. /\ row \in Rows \cup {NoRow} /\ row.seq \in Nat /\ call[c].seq \in Nat
      /\ call[c].rev \in SecurityRevision
      BY RowFacts DEF AuthInv, Types, CallStates
<1>b. \/ Answers(c) /\ UNCHANGED refresh
      \/ call' = Retries(c) /\ UNCHANGED refresh
      \/ call' = [call EXCEPT ![c] = NoCall] /\ UNCHANGED refresh
      \/ call' = [call EXCEPT ![c].at = "delete"] /\ UNCHANGED refresh
      \/ /\ row # NoRow /\ ~(row.seq < call[c].seq) /\ ~(row.seq > call[c].seq)
         /\ JoinsRefresh(c, row, "recover")
      BY Zenon DEF RecoversUnauthorized
<1>1. CASE (Answers(c) \/ call' = [call EXCEPT ![c] = NoCall]) /\ UNCHANGED refresh
      BY <1>0, <1>1, NoCallFacts, CallEnds DEF Answers
<1>2. CASE call' = Retries(c) /\ UNCHANGED refresh
  <2> DEFINE new == [NoCall EXCEPT !.at = "read", !.rev = revision, !.round = 1]
  <2>1. revision \in SecurityRevision /\ 1 \in {0, 1}
        BY DEF AuthInv, Types
  <2>2. new \in CallStates /\ new.at = "read" /\ new.token = NoToken
        BY <2>1, NoCallFacts
  <2>3. call' = [call EXCEPT ![c] = new]
        BY <1>2 DEF Retries
  <2> HIDE DEF new
  <2> QED BY <1>0, <1>2, <2>2, <2>3, CallEnds
<1>3. CASE call' = [call EXCEPT ![c].at = "delete"] /\ UNCHANGED refresh
      BY <1>0, <1>3, CallGoesOn
<1>4. CASE /\ row # NoRow /\ ~(row.seq < call[c].seq) /\ ~(row.seq > call[c].seq)
           /\ JoinsRefresh(c, row, "recover")
  <2>1. row \in Rows /\ row.seq = call[c].seq
        BY <1>a, <1>4
  <2>2. /\ call' \in [Call -> CallStates] /\ \A d \in Call : d # c => call'[d] = call[d]
        /\ refresh' \in [Flights -> FlightStates]
        /\ \A g \in Flights :
              refresh'[g] = refresh[g] \/ (g = Flight(c) /\ Started(g, row))
        /\ call'[c].at = "await" /\ call'[c].rev = call[c].rev /\ call'[c].token = NoToken
        /\ refresh'[Flight(c)].at # "none"
        BY <1>4, <2>1, JoinsFacts
  <2>3. row.pending => call[c].rev \in recreated
        BY <1>0, <1>4, <2>1 DEF AuthInv, Readings, Used, Present
  <2>4. Reads(c, row)
        BY <2>2 DEF Reads
  <2> QED BY <1>0, <1>4, <2>2, <2>3, <2>4, ReadsStored
<1> QED BY <1>b, <1>1, <1>2, <1>3, <1>4

\* The verified token replaces the row at the rotation it was read at.  There
\* the row was still pending, so no refresh has it as its snapshot.
LEMMA ReplacesCredentialInv ==
    ASSUME AuthInv, NEW c \in Call, ReplacesCredential(c)
    PROVE  AuthInv'
<1> USE DEF connectionVars, loginVars, tokenVars
<1> DEFINE rev == call[c].rev
           row == credential[rev]
           active == Rotated(rev, [row EXCEPT !.token = call[c].token, !.pending = FALSE])
<1>0. /\ call[c].at = "replace"
      /\ UNCHANGED <<servedBy, revision, login, logins, valid, spent, latest, recreated, torn>>
      BY DEF ReplacesCredential
<1>a. /\ call[c] \in CallStates /\ rev \in SecurityRevision /\ row \in Rows \cup {NoRow}
      /\ row.seq \in Nat /\ call[c].seq \in Nat
      BY RowFacts DEF AuthInv, Types, CallStates
<1>b. call[c].token \in Token /\ Verifying(c)
      BY <1>0, <1>a DEF AuthInv, Shapes, Verifying, CallStates
<1>c. \/ /\ Present(rev) /\ row.seq = call[c].seq
         /\ credential' = [credential EXCEPT ![rev] = active] /\ UsesRow(c, active)
      \/ /\ UNCHANGED <<credential, refresh>>
         /\ \/ call' = [call EXCEPT ![c].at = "read", ![c].seq = 0, ![c].token = NoToken,
                                    ![c].attempt = @ + 1]
            \/ Answers(c)
      BY DEF ReplacesCredential, AtRotation
<1>1. CASE Answers(c) /\ UNCHANGED <<credential, refresh>>
      BY <1>0, <1>1, NoCallFacts, CallEnds DEF Answers
<1>2. CASE /\ UNCHANGED <<credential, refresh>>
           /\ call' = [call EXCEPT ![c].at = "read", ![c].seq = 0, ![c].token = NoToken,
                                   ![c].attempt = @ + 1]
  <2> DEFINE new == [call[c] EXCEPT !.at = "read", !.seq = 0, !.token = NoToken,
                                    !.attempt = @ + 1]
  <2>1. call[c].attempt + 1 \in Nat
        BY <1>a DEF CallStates
  <2>2. new \in CallStates /\ new.at = "read" /\ new.token = NoToken
        BY <1>a, <2>1 DEF CallStates
  <2>3. call' = [call EXCEPT ![c] = new]
        BY <1>2
  <2> HIDE DEF new
  <2> QED BY <1>0, <1>2, <2>2, <2>3, CallEnds
<1>3. CASE /\ Present(rev) /\ row.seq = call[c].seq
           /\ credential' = [credential EXCEPT ![rev] = active] /\ UsesRow(c, active)
  <2>1. row \in Rows
        BY <1>a, <1>3 DEF Present
  <2>2. /\ active \in Rows /\ active.token = call[c].token /\ active.seq = row.seq + 1
        /\ ~active.pending /\ active.login = row.login /\ active.refreshable = row.refreshable
        /\ active.lease = "none" /\ active.by = "none"
    <3> DEFINE verified == [row EXCEPT !.token = call[c].token, !.pending = FALSE]
    <3>1. /\ verified \in Rows /\ verified.token = call[c].token /\ ~verified.pending
          /\ verified.login = row.login /\ verified.refreshable = row.refreshable
          BY <1>b, <2>1 DEF Rows
    <3>2. Types /\ active = Rotated(rev, verified)
          BY DEF AuthInv
    <3> HIDE DEF verified, active, rev
    <3>3. /\ Rotated(rev, verified) \in Rows
          /\ Rotated(rev, verified).seq = credential[rev].seq + 1
          /\ Rotated(rev, verified).token = verified.token
          /\ Rotated(rev, verified).login = verified.login
          /\ Rotated(rev, verified).refreshable = verified.refreshable
          /\ Rotated(rev, verified).pending = verified.pending
          /\ Rotated(rev, verified).lease = "none" /\ Rotated(rev, verified).by = "none"
          BY <1>a, <3>1, <3>2, RotatedFacts
    <3> QED BY <3>1, <3>2, <3>3
  <2> HIDE DEF active
  <2>3. /\ call' \in [Call -> CallStates] /\ \A d \in Call : d # c => call'[d] = call[d]
        /\ refresh' \in [Flights -> FlightStates]
        /\ \A g \in Flights :
              refresh'[g] = refresh[g] \/ (g = Flight(c) /\ Started(g, active))
        /\ Reads(c, active)
        BY <1>3, <2>2, UsesFacts
  <2>4. /\ credential' \in [SecurityRevision -> Rows \cup {NoRow}] /\ credential'[rev] = active
        /\ \A r \in SecurityRevision : r # rev => credential'[r] = credential[r]
        BY <1>3, <1>a, <2>2 DEF AuthInv, Types
  <2>5. active # NoRow
        BY <2>2, RowFacts, NoRowFacts, AgentAuthAssumption
  <2>6. \A o \in [Token -> Places] : Owned(o) => o[active.token] = InRow(rev)
        BY <1>b, <2>2, AgentAuthAssumption DEF Owned
  <2>7. rev \notin recreated => row.token = call[c].token /\ row.pending
        BY <1>b, <1>3 DEF AuthInv, Readings
  <2>8. ASSUME NEW g \in Flights, Active(g), g[2] = rev, rev \notin recreated
        PROVE  Fits(refresh[g], active)
    <3>1. /\ refresh[g].seq <= row.seq
          /\ row.seq = refresh[g].seq => ~row.pending
          /\ row.seq # refresh[g].seq => row.token # refresh[g].token
          BY <1>3, <2>8 DEF AuthInv, Snapshots
    <3>2. refresh[g].seq \in Nat /\ row.token # refresh[g].token
          BY <2>7, <2>8, <3>1 DEF AuthInv, Types, FlightStates
    <3>3. refresh[g].seq < active.seq
          BY <1>a, <2>2, <3>1, <3>2
    <3> QED BY <1>a, <2>2, <2>7, <2>8, <3>2, <3>3 DEF Fits
  <2>9. ASSUME NEW d \in Call, d # c, call[d].rev = rev, rev \notin recreated
        PROVE  FitsCall(d, active)
    <3>1. Verifying(d) \/ Used(d) => call[d].seq <= row.seq
          BY <1>3, <2>9 DEF AuthInv, Readings
    <3>2. call[d].seq \in Nat
          BY DEF AuthInv, Types, CallStates
    <3> QED BY <1>a, <2>2, <3>1, <3>2 DEF FitsCall
  <2>10. ASSUME NEW g \in Flights, Leased(g), g[2] = rev, active.seq = refresh[g].seq
         PROVE  rev \in recreated
    <3>1. Active(g)
          BY <2>10 DEF Active, Leased
    <3>2. rev \notin recreated => refresh[g].seq <= row.seq
          BY <1>3, <2>10, <3>1 DEF AuthInv, Snapshots
    <3> QED BY <1>a, <2>2, <2>10, <3>2
  <2>11. active.refreshable =>
            \/ active.token \in valid \/ active.token \in spent
            \/ torn \/ rev \in recreated
    <3> SUFFICES ASSUME row.refreshable, ~torn, rev \notin recreated
                 PROVE  row.token \in valid \/ row.token \in spent
        BY <2>2, <2>7
    <3>1. ASSUME NEW p \in Api, refresh[<<p, rev>>].at = "complete",
                 refresh[<<p, rev>>].seq = row.seq
          PROVE  FALSE
      <4>1. <<p, rev>> \in Flights /\ Active(<<p, rev>>) /\ <<p, rev>>[2] = rev
            BY <1>a, <3>1 DEF Flights, Active
      <4>2. ~row.pending
            BY <1>3, <3>1, <4>1 DEF AuthInv, Snapshots
      <4> QED BY <2>7, <4>2
    <3> QED BY <1>a, <3>1 DEF AuthInv, Honoured
  <2>12. call[c].rev = rev /\ (credential'[rev].lease = "none" <=> credential'[rev].by = "none")
         BY <2>2, <2>4
  <2>13. credential'[rev].login = credential[rev].login
         BY <2>2, <2>4
  <2>14. \A g \in Flights :
            \/ refresh'[g] = refresh[g]
            \/ /\ g = Flight(c) /\ Started(g, credential'[rev])
               /\ credential'[rev].pending => rev \in recreated
         BY <2>2, <2>3, <2>4
  <2>15. rev \notin recreated =>
           /\ \A g \in Flights : Active(g) /\ g[2] = rev => Fits(refresh[g], credential'[rev])
           /\ \A d \in Call : d # c /\ call[d].rev = rev => FitsCall(d, credential'[rev])
         BY <2>4, <2>8, <2>9
  <2>16. \A g \in Flights :
           Leased(g) /\ g[2] = rev /\ credential'[rev].seq = refresh[g].seq
           => \/ credential'[rev].lease = "live" /\ credential'[rev].by = g[1]
              \/ torn \/ rev \in recreated
         BY <2>4, <2>10
  <2>17. credential'[rev].refreshable =>
           \/ credential'[rev].token \in valid \/ credential'[rev].token \in spent
           \/ \E p \in Api : /\ refresh[<<p, rev>>].at = "complete"
                             /\ refresh[<<p, rev>>].seq = credential'[rev].seq
           \/ torn \/ rev \in recreated
         BY <2>4, <2>11
  <2>18. /\ Reads(c, credential'[rev]) /\ credential'[rev] # NoRow
         /\ \A o \in [Token -> Places] : Owned(o) => o[credential'[rev].token] = InRow(rev)
         BY <2>3, <2>4, <2>5, <2>6
  <2>19. rev \in SecurityRevision /\ Present(rev)
         BY <1>a, <1>3
  <2> HIDE DEF rev
  <2> QED BY <1>0, <2>3, <2>4, <2>12, <2>13, <2>14, <2>15, <2>16, <2>17, <2>18, <2>19,
             TakesReading
<1> QED BY <1>c, <1>1, <1>2, <1>3

-----------------------------------------------------------------------------
(***************************************************************************)
(* The specification                                                       *)
(***************************************************************************)
LEMMA AuthStutters ==
    ASSUME AuthInv, UNCHANGED authVars
    PROVE  AuthInv'
<1>1. UNCHANGED <<servedBy, revision, credential, valid, spent, login, logins, latest, call,
                  refresh, recreated, torn>>
      BY DEF authVars, connectionVars, tokenVars, loginVars
<1>2. login \in LoginStates /\ revision \in SecurityRevision
      BY DEF AuthInv, Types
<1> QED BY <1>1, <1>2, NoRowMoves DEF AuthInv, Types, Shapes

LEMMA AuthNextInv ==
    ASSUME AuthInv, [AuthNext]_authVars
    PROVE  AuthInv'
<1>1. CASE LoginStarts
      BY <1>1, LoginStartsInv
<1>2. CASE LoginStep
      BY <1>2, CallbackExchangesInv, CallbackFailsInv, CallbackRechecksInv, CallbackStoresInv
      DEF LoginStep
<1>3. CASE ConnectionChanges \/ StaleCredentialsDeleted
      BY <1>3, ConnectionChangesInv, StaleCredentialsDeletedInv
<1>4. ASSUME NEW c \in Call, CallStarts(c) \/ CallStep(c)
      PROVE  AuthInv'
      BY <1>4, CallStartsInv, ReadsCredentialInv, PendingVerifiedInv, VerificationFailsInv,
         ReplacesCredentialInv, AgentAnswersInv, RecoversUnauthorizedInv, DeletesRejectedInv
      DEF CallStep
<1>5. ASSUME NEW f \in Flights, RefreshStep(f)
      PROVE  AuthInv'
      BY <1>5, ClaimsRefreshInv, ProviderRefreshesInv, CompletesRefreshInv, ReleasesRefreshInv,
         ProviderFailsStepInv, RefreshDiscardedInv, DeletesUngrantedInv, WaitsForRefreshWinnerInv
      DEF RefreshStep
<1>6. ASSUME NEW rev \in SecurityRevision,
             TokenAges(rev) \/ LeaseRunsOut(rev) \/ AbandonedLeaseRunsOut(rev)
      PROVE  AuthInv'
      BY <1>6, TokenAgesInv, LeaseRunsOutInv, AbandonedLeaseRunsOutInv
<1>7. ASSUME NEW p \in Api, ApiCrashes(p)
      PROVE  AuthInv'
      BY <1>7, ApiCrashesInv
<1>8. CASE UNCHANGED authVars
      BY <1>8, AuthStutters
<1> QED BY <1>1, <1>2, <1>3, <1>4, <1>5, <1>6, <1>7, <1>8 DEF AuthNext, Flights

\* The inductive invariant: what a refresh, a verification and a login have in
\* hand against the row they read it from, however the requests, the refreshes,
\* the logins and the connection's changes interleave.
THEOREM AuthInvariant == AuthSpec => []AuthInv
<1>1. AuthInit => AuthInv
      BY AuthInitInv
<1>2. AuthInv /\ [AuthNext]_authVars => AuthInv'
      BY AuthNextInv
<1> QED BY <1>1, <1>2, PTL DEF AuthSpec

\* The rows keep their types; a request that awaits a refresh has one under way
\* in its process, and a lease always names its holder.
THEOREM AuthTypeCorrect == AuthSpec => []AuthTypeOK
<1>1. AuthInv => AuthTypeOK
      BY DEF AuthInv, Types, Shapes, AuthTypeOK
<1> QED BY <1>1, AuthInvariant, PTL

\* Two refreshes never present one refresh token, in one process or in two,
\* unless a lease lapsed under a refresh, its process died, or the row was
\* deleted and inserted again: they would have read it at one rotation, where
\* claimAgentAuthCredentialRefresh gave the lease to one of them.
THEOREM RefreshExclusiveCorrect == AuthSpec => []RefreshExclusive
<1>1. AuthInv => RefreshExclusive
  <2> SUFFICES ASSUME AuthInv, NEW f \in Flights, NEW g \in Flights, Presenting(f), Presenting(g),
                      refresh[f].token = refresh[g].token, ~torn, f[2] \notin recreated
               PROVE  f = g
      BY DEF RefreshExclusive, Flights
  <2>1. Leased(f) /\ Leased(g) /\ Active(f) /\ Active(g)
        BY DEF Presenting, Leased, Active
  <2>2. f[2] = g[2]
    <3>1. PICK o \in [Token -> Places] : Owned(o)
          BY DEF AuthInv, TokensApart
    <3>2. InRow(f[2]) = InRow(g[2])
          BY <2>1, <3>1 DEF AuthInv, Shapes, Owned
    <3> QED BY <3>2 DEF InRow
  <2>3. refresh[f].seq = refresh[g].seq
        BY <2>1, <2>2 DEF AuthInv, SameRotation
  <2> QED BY <2>1, <2>2, <2>3 DEF AuthInv, LeaseAlone
<1> QED BY <1>1, AuthInvariant, PTL

\* The refresh token in a row is one the provider honours, or the refresh that
\* retired it has its successor in hand, or that refresh's answer was not kept:
\* replaceAgentAuthCredential, completeAgentAuthCredentialRefresh and the login's
\* put never write an older token over a newer one.
THEOREM StoredTokenHonouredCorrect == AuthSpec => []StoredTokenHonoured
<1>1. AuthInv => StoredTokenHonoured
  <2> SUFFICES ASSUME AuthInv, NEW rev \in SecurityRevision, credential[rev].refreshable,
                      credential[rev].token \notin valid, credential[rev].token \notin spent,
                      ~torn, rev \notin recreated
               PROVE  \E p \in Api : /\ Presenting(<<p, rev>>)
                                     /\ refresh[<<p, rev>>].token = credential[rev].token
      BY DEF StoredTokenHonoured
  <2>1. PICK p \in Api : /\ refresh[<<p, rev>>].at = "complete"
                         /\ refresh[<<p, rev>>].seq = credential[rev].seq
        BY DEF AuthInv, Honoured
  <2>2. <<p, rev>> \in Flights /\ <<p, rev>>[2] = rev
        BY DEF Flights
  <2>3. Presenting(<<p, rev>>) /\ Active(<<p, rev>>)
        BY <2>1 DEF Presenting, Active
  <2>4. Present(rev)
        BY NoRowFacts DEF Present
  <2>5. refresh[<<p, rev>>].token = credential[rev].token
        BY <2>1, <2>2, <2>3, <2>4 DEF AuthInv, Snapshots
  <2> QED BY <2>3, <2>5
<1> QED BY <1>1, AuthInvariant, PTL

\* A stored login is undone by nothing that began before it: whatever a
\* verification or a refresh writes afterwards is a token of that login.
THEOREM LatestLoginKeptCorrect == AuthSpec => []LatestLoginKept
<1>1. AuthInv => LatestLoginKept
      BY DEF AuthInv
<1> QED BY <1>1, AuthInvariant, PTL
=============================================================================
