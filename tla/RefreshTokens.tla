--------------------------- MODULE RefreshTokens ---------------------------
(***************************************************************************)
(* The sessions of one user: sign-in, the rotation of refresh tokens with  *)
(* its grace period, sign-out, revocation and the clean-up job, and the    *)
(* cookie jars of the browsers, whose tabs refresh at the same time.       *)
(*                                                                         *)
(* A refresh reads the token's row, decides on what it has read, and       *)
(* rotates in a transaction later; its answer, which sets the cookie or,   *)
(* refused, clears it, may be late, overtaken or lost.                     *)
(***************************************************************************)
EXTENDS Naturals, FiniteSets

CONSTANTS
    Browsers,  \* each with one cookie jar
    Tokens,    \* refresh_tokens.id, a bound on sign-ins and rotations
    Refreshes  \* refreshes that may run at the same time

VARIABLES
    token,       \* refresh_tokens
    jar,         \* the refresh cookie of each browser
    refreshing,  \* the running refreshes
    signIns,     \* sign-ins so far
    forks,       \* rotations of a row that had changed since it was read
    excused      \* browsers that something has happened to that may end
                 \* their session

tokenVars == <<token, jar, refreshing, signIns, forks, excused>>

NoToken == "none"
ASSUME NoTokenAssumption == NoToken \notin Tokens

Token == [state : {"unused", "stored", "expired", "deleted"},
          superseded : {"no", "grace", "past"}, revoked : BOOLEAN]
Unused == [state |-> "unused", superseded |-> "no", revoked |-> FALSE]
Fresh == [Unused EXCEPT !.state = "stored"]
Gone == [Unused EXCEPT !.state = "deleted"]
\* The expiry is checked first: what else the row says is not read any more.
Expired == [Unused EXCEPT !.state = "expired"]

IdleRefresh == [pc |-> "idle"]
Refresh ==
    {IdleRefresh}
      \cup [pc : {"sent"}, browser : Browsers, token : Tokens]
      \cup [pc : {"rotate"}, browser : Browsers, token : Tokens, seen : Token]
      \cup [pc : {"reuse", "granted", "refused"}, browser : Browsers]
      \cup [pc : {"renewed"}, browser : Browsers, token : Tokens]

TokenTypeOK ==
    /\ token \in [Tokens -> Token]
    /\ jar \in [Browsers -> Tokens \cup {NoToken}]
    /\ refreshing \in [Refreshes -> Refresh]
    /\ signIns \in Nat /\ forks \in Nat
    /\ excused \subseteq Browsers

TokenInit ==
    /\ token = [t \in Tokens |-> Unused]
    /\ jar = [b \in Browsers |-> NoToken]
    /\ refreshing = [c \in Refreshes |-> IdleRefresh]
    /\ signIns = 0 /\ forks = 0
    /\ excused = Browsers

-----------------------------------------------------------------------------

\* A new row has an id that no row had; which one makes no difference.
NewToken ==
    LET unused == {t \in Tokens : token[t] = Unused}
    IN  IF unused = {} THEN {} ELSE {CHOOSE t \in unused : TRUE}

Live(t) == token[t] = Fresh

Running(c) == refreshing[c] # IdleRefresh
Holds(b, t) ==
    \/ jar[b] = t
    \/ \E c \in Refreshes :
          /\ Running(c) /\ refreshing[c].browser = b
          /\ refreshing[c].pc \in {"sent", "rotate", "renewed"} /\ refreshing[c].token = t

\* LoginUseCase: a new row, and its cookie.
SignIn(b) == \E t \in NewToken :
    /\ token' = [token EXCEPT ![t] = Fresh]
    /\ jar' = [jar EXCEPT ![b] = t]
    /\ signIns' = signIns + 1
    /\ excused' = IF \E c \in Refreshes : Running(c) /\ refreshing[c].browser = b
                    THEN excused ELSE excused \ {b}
    /\ UNCHANGED <<refreshing, forks>>

\* LogoutUseCase and the cleared cookie; a token that has expired is refused.
SignOut(b) ==
    /\ jar[b] # NoToken
    /\ token[jar[b]].state # "expired"
    /\ token' = [token EXCEPT ![jar[b]] = Gone]
    /\ jar' = [jar EXCEPT ![b] = NoToken]
    /\ excused' = excused \cup {b}
    /\ UNCHANGED <<refreshing, signIns, forks>>

Revoked(ts) ==
    [t \in Tokens |-> IF t \in ts /\ token[t].state = "stored"
                        THEN [token[t] EXCEPT !.revoked = TRUE] ELSE token[t]]

\* RevokeUserSessionUseCase, and revokeAllRefreshTokens, which changes of the
\* password, of roles and of permissions call too.
Revoke ==
    /\ \E ts \in {Tokens} \cup {{t} : t \in Tokens} :
          /\ token' = Revoked(ts)
          /\ excused' = excused \cup {b \in Browsers : \E t \in ts : Holds(b, t)}
    /\ token' # token
    /\ UNCHANGED <<jar, refreshing, signIns, forks>>

\* Time: a grace period ends, a token expires.
GraceEnds(t) ==
    /\ token[t].superseded = "grace"
    /\ token' = [token EXCEPT ![t].superseded = "past"]
    /\ excused' = excused \cup {b \in Browsers : Holds(b, t)}
    /\ UNCHANGED <<jar, refreshing, signIns, forks>>

Expires(t) ==
    /\ token[t].state = "stored"
    /\ token' = [token EXCEPT ![t] = Expired]
    /\ excused' = excused \cup {b \in Browsers : Holds(b, t)}
    /\ UNCHANGED <<jar, refreshing, signIns, forks>>

\* RefreshTokenCleanupService
CleanUp ==
    /\ token' = [t \in Tokens |->
                   IF token[t].state = "expired" \/ token[t].revoked
                     THEN Gone ELSE token[t]]
    /\ token' # token
    /\ UNCHANGED <<jar, refreshing, signIns, forks, excused>>

-----------------------------------------------------------------------------
(***************************************************************************)
(* RefreshTokensUseCase.                                                   *)
(***************************************************************************)

Send(c, b) ==
    /\ ~Running(c)
    /\ jar[b] # NoToken
    /\ refreshing' = [refreshing EXCEPT ![c] = [pc |-> "sent", browser |-> b, token |-> jar[b]]]
    /\ UNCHANGED <<token, jar, signIns, forks, excused>>

Deleted(ts) ==
    [t \in Tokens |-> IF t \in ts THEN Gone ELSE token[t]]

\* revokeRefreshTokenFamily deletes rows that are superseded or revoked, of
\* every session of the user.
Family == {t \in Tokens : token[t].superseded # "no" \/ token[t].revoked}

Reused_NoGrace(t) ==
    token[t].state = "stored" /\ (token[t].revoked \/ token[t].superseded # "no")

Reused(t) ==
    token[t].state = "stored" /\ (token[t].revoked \/ token[t].superseded = "past")

Refuse(c) ==
    LET t == refreshing[c].token IN
    /\ refreshing[c].pc = "sent"
    /\ \/ token[t].state = "deleted" /\ UNCHANGED token
       \/ token[t].state = "expired" /\ token' \in {token, Deleted({t})}
    /\ refreshing' = [refreshing EXCEPT ![c] = [pc |-> "refused",
                                                browser |-> refreshing[c].browser]]
    /\ UNCHANGED <<jar, signIns, forks, excused>>

DetectReuse(c) ==
    /\ refreshing[c].pc = "sent"
    /\ Reused(refreshing[c].token)
    /\ refreshing' = [refreshing EXCEPT ![c] = [pc |-> "reuse",
                                                browser |-> refreshing[c].browser]]
    /\ UNCHANGED <<token, jar, signIns, forks, excused>>

RevokeFamily(c) ==
    /\ refreshing[c].pc = "reuse"
    /\ token' = Deleted(Family)
    /\ excused' = IF refreshing[c].browser \in excused THEN Browsers ELSE excused
    /\ refreshing' = [refreshing EXCEPT ![c].pc = "refused"]
    /\ UNCHANGED <<jar, signIns, forks>>

Rotatable_Superseded(t) == token[t].state = "stored" /\ ~Reused(t)

Rotatable(t) == token[t].state = "stored" /\ ~Reused(t) /\ token[t].superseded = "no"

\* Another tab has rotated the token: an access token only.
Grant(c) ==
    LET t == refreshing[c].token IN
    /\ refreshing[c].pc = "sent"
    /\ token[t].state = "stored" /\ ~Reused(t) /\ ~Rotatable(t)
    /\ refreshing' = [refreshing EXCEPT ![c] = [pc |-> "granted",
                                                browser |-> refreshing[c].browser]]
    /\ UNCHANGED <<token, jar, signIns, forks, excused>>

BeginRotation(c) ==
    LET r == refreshing[c] IN
    /\ r.pc = "sent"
    /\ Rotatable(r.token)
    /\ refreshing' = [refreshing EXCEPT ![c] = [pc |-> "rotate", browser |-> r.browser,
                                                token |-> r.token, seen |-> token[r.token]]]
    /\ UNCHANGED <<token, jar, signIns, forks, excused>>

\* supersedeRefreshToken writes where superseded_at is NULL; that it found no
\* row, or a revoked one, is not noticed.
Rotate(c) == \E new \in NewToken :
    LET r == refreshing[c]
        old == token[r.token]
    IN
    /\ r.pc = "rotate"
    /\ token' = [token EXCEPT ![new] = Fresh,
                              ![r.token].superseded =
                                  IF old.state = "stored" /\ old.superseded = "no"
                                    THEN "grace" ELSE old.superseded]
    /\ forks' = IF old = r.seen THEN forks ELSE forks + 1
    /\ refreshing' = [refreshing EXCEPT ![c] = [pc |-> "renewed", browser |-> r.browser,
                                                token |-> new]]
    /\ UNCHANGED <<jar, signIns, excused>>

\* AuthController's answer: a new cookie, none, or a cleared one.
Answer(c) ==
    LET r == refreshing[c] IN
    /\ r.pc \in {"granted", "refused", "renewed"}
    /\ jar' = [jar EXCEPT ![r.browser] = CASE r.pc = "granted" -> jar[r.browser]
                                           [] r.pc = "refused" -> NoToken
                                           [] r.pc = "renewed" -> r.token]
    /\ refreshing' = [refreshing EXCEPT ![c] = IdleRefresh]
    /\ UNCHANGED <<token, signIns, forks, excused>>

\* The instance dies or the answer is lost; a lost cookie leaves the browser
\* with a token that others have superseded.
Lose(c) ==
    /\ Running(c)
    /\ refreshing' = [refreshing EXCEPT ![c] = IdleRefresh]
    /\ excused' = IF refreshing[c].pc = "renewed"
                    THEN excused \cup {refreshing[c].browser} ELSE excused
    /\ UNCHANGED <<token, jar, signIns, forks>>

TokenNext ==
    \/ \E b \in Browsers : SignIn(b) \/ SignOut(b)
    \/ Revoke \/ CleanUp
    \/ \E t \in Tokens : GraceEnds(t) \/ Expires(t)
    \/ \E c \in Refreshes :
         \/ \E b \in Browsers : Send(c, b)
         \/ Refuse(c) \/ DetectReuse(c) \/ RevokeFamily(c)
         \/ Grant(c) \/ BeginRotation(c) \/ Rotate(c)
         \/ Answer(c) \/ Lose(c)

TokenSpec == TokenInit /\ [][TokenNext]_tokenVars

-----------------------------------------------------------------------------

\* A rotation replaces a session, it does not add one, unless two refreshes
\* have read the same row: no more tokens are live than there were sign-ins.
SessionsDoNotMultiply ==
    Cardinality({t \in Tokens : Live(t)}) <= signIns + forks

\* Whatever its tabs refresh at the same time and in whatever order the answers
\* come, a browser stays signed in with a token that works, unless its session
\* was ended or expired, or its new cookie came after the grace period or not at
\* all, or another browser to which that happened has used its old token, which
\* takes from the others what they have superseded too.
StaysSignedIn ==
    \A b \in Browsers \ excused :
        /\ jar[b] # NoToken
        /\ token[jar[b]].state = "stored" /\ ~token[jar[b]].revoked
        /\ token[jar[b]].superseded # "past"
=============================================================================
