-------------------------- MODULE BackOfficeProofs --------------------------
(***************************************************************************)
(* Theorems about RefreshTokens, for any number of browsers, tokens and    *)
(* concurrent refreshes (its types, StaysSignedIn, SessionsDoNotMultiply), *)
(* and about RequestIdempotency, for any number of keys, payloads and      *)
(* calls (its types, TakesEffectOnce, PendingIsOwned).                     *)
(*                                                                         *)
(* StaysSignedIn looks at the cookie jars.  What makes it inductive is the *)
(* same of the requests and answers on their way, and that a token is in   *)
(* one browser's hands only, so that one browser's sign-out and rotations  *)
(* do not touch another's.                                                 *)
(*                                                                         *)
(* A key's properties follow from who owns it: of a key whose record was   *)
(* never reset behind another call's back, at most one call is past        *)
(* begin(), and only while the record is pending (Exclusive); and what     *)
(* that call still has to do tells whether the handler has taken effect    *)
(* (Bookkept).                                                             *)
(*                                                                         *)
(* Last, that these two, PayrollRuns and AssetIssues do not disturb one    *)
(* another when they are put together in MCBackOffice.                     *)
(***************************************************************************)
EXTENDS MCBackOffice, PayrollRunsProofs, AssetIssuesProofs, FiniteSetTheorems, TLAPS

-----------------------------------------------------------------------------
(***************************************************************************)
(* RefreshTokens: whose hands a token is in.                               *)
(***************************************************************************)

\* A token that a refresh may still use.
Good(t) == token[t].state = "stored" /\ ~token[t].revoked /\ token[t].superseded # "past"

\* Only tokens that were issued are held, each by one browser.
HeldByOne ==
    /\ \A b \in Browsers, t \in Tokens : Holds(b, t) => token[t] # Unused
    /\ \A b, d \in Browsers, t \in Tokens : Holds(b, t) /\ Holds(d, t) => b = d

\* Whatever a browser has in its jar, has sent or will be given is good, and
\* none of its refreshes is refused.
InGoodHands(b) ==
    /\ jar[b] # NoToken
    /\ \A t \in Tokens : Holds(b, t) => Good(t)
    /\ \A c \in Refreshes : Running(c) /\ refreshing[c].browser = b =>
          refreshing[c].pc \notin {"refused", "reuse"}

TokenInv ==
    /\ TokenTypeOK
    /\ HeldByOne
    /\ \A b \in Browsers \ excused : InGoodHands(b)

-----------------------------------------------------------------------------
(***************************************************************************)
(* Facts used by several actions.                                          *)
(***************************************************************************)

\* A write of one refresh leaves the others alone.
LEMMA SetRefresh ==
    ASSUME refreshing \in [Refreshes -> Refresh], NEW c \in Refreshes, NEW r \in Refresh,
           refreshing' = [refreshing EXCEPT ![c] = r]
    PROVE  /\ refreshing' \in [Refreshes -> Refresh] /\ refreshing'[c] = r
           /\ \A d \in Refreshes \ {c} : refreshing'[d] = refreshing[d]
OBVIOUS

\* A step after which nobody holds more than before, and everybody who is not
\* excused still holds good tokens.
LEMMA Shrinks ==
    ASSUME TokenInv, TokenTypeOK',
           \A b \in Browsers, t \in Tokens : Holds(b, t)' => Holds(b, t),
           \A t \in Tokens : token'[t] = Unused => token[t] = Unused,
           \A b \in Browsers \ excused' :
              /\ b \notin excused /\ jar'[b] # NoToken
              /\ \A t \in Tokens : Holds(b, t) /\ Good(t) => Good(t)'
              /\ \A c \in Refreshes : Running(c)' /\ refreshing'[c].browser = b =>
                    refreshing'[c].pc \notin {"refused", "reuse"}
    PROVE  TokenInv'
<1>1. HeldByOne'
  BY DEF TokenInv, HeldByOne, Unused
<1>2. ASSUME NEW b \in Browsers \ excused' PROVE InGoodHands(b)'
  <2>1. b \notin excused /\ InGoodHands(b)
    BY <1>2 DEF TokenInv
  <2> QED
    BY <1>2, <2>1 DEF InGoodHands
<1> QED
  BY <1>1, <1>2 DEF TokenInv

\* The same for a step that touches rows only: who holds a token that is
\* spoilt is excused.
LEMMA RowsChange ==
    ASSUME TokenInv, token' \in [Tokens -> Token], excused' \subseteq Browsers,
           excused \subseteq excused',
           UNCHANGED <<jar, refreshing, signIns, forks>>,
           \A t \in Tokens : token'[t] = Unused => token[t] = Unused,
           \A b \in Browsers \ excused', t \in Tokens : Holds(b, t) /\ Good(t) => Good(t)'
    PROVE  TokenInv'
<1>1. TokenTypeOK'
  BY DEF TokenInv, TokenTypeOK
<1>2. \A b \in Browsers, t \in Tokens : Holds(b, t)' => Holds(b, t)
  BY DEF Holds, Running
<1>3. ASSUME NEW b \in Browsers \ excused'
      PROVE  /\ b \notin excused /\ jar'[b] # NoToken
             /\ \A c \in Refreshes : Running(c)' /\ refreshing'[c].browser = b =>
                    refreshing'[c].pc \notin {"refused", "reuse"}
  BY <1>3 DEF TokenInv, InGoodHands, Running
<1> QED
  BY <1>1, <1>2, <1>3, Shrinks

-----------------------------------------------------------------------------
(***************************************************************************)
(* Sign-in, sign-out, revocation, time.                                    *)
(***************************************************************************)

LEMMA InitTokenInv == TokenInit => TokenInv
BY NoTokenAssumption DEF TokenInit, TokenInv, TokenTypeOK, HeldByOne, Holds, Running, Token,
   Unused, Refresh, IdleRefresh

LEMMA SignInKeepsTokenInv ==
    ASSUME TokenInv, NEW b \in Browsers, SignIn(b)
    PROVE  TokenInv'
<1>1. PICK n \in Tokens :
        /\ token[n] = Unused /\ token' = [token EXCEPT ![n] = Fresh]
        /\ jar' = [jar EXCEPT ![b] = n] /\ signIns' = signIns + 1
        /\ excused' = IF \E c \in Refreshes : Running(c) /\ refreshing[c].browser = b
                        THEN excused ELSE excused \ {b}
        /\ UNCHANGED <<refreshing, forks>>
  BY DEF SignIn, NewToken
<1>2. Fresh \in Token /\ Fresh # Unused
  BY DEF Fresh, Unused, Token
<1>3. TokenTypeOK'
  BY <1>1, <1>2 DEF TokenInv, TokenTypeOK
<1>4. \A d \in Browsers, t \in Tokens :
         Holds(d, t)' => (t # n /\ Holds(d, t)) \/ (t = n /\ d = b)
  <2>1. \A d \in Browsers, t \in Tokens : Holds(d, t) => t # n
    BY <1>1 DEF TokenInv, HeldByOne
  <2>2. \A d \in Browsers, t \in Tokens : Holds(d, t)' => Holds(d, t) \/ (t = n /\ d = b)
    BY <1>1 DEF TokenInv, TokenTypeOK, Holds, Running
  <2> QED
    BY <2>1, <2>2
<1>5. HeldByOne'
  BY <1>1, <1>2, <1>4 DEF TokenInv, TokenTypeOK, HeldByOne
<1>6. ASSUME NEW d \in Browsers \ excused' PROVE InGoodHands(d)'
  <2>1. Good(n)'
    BY <1>1 DEF TokenInv, TokenTypeOK, Good, Fresh, Unused
  <2>2. \A t \in Tokens \ {n} : Good(t) => Good(t)'
    BY <1>1 DEF TokenInv, TokenTypeOK, Good
  <2>3. CASE d \notin excused
    <3>1. InGoodHands(d)
      BY <1>6, <2>3 DEF TokenInv
    <3>2. jar'[d] # NoToken
      BY <1>1, <3>1, NoTokenAssumption DEF TokenInv, TokenTypeOK, InGoodHands
    <3> QED
      BY <1>1, <1>4, <2>1, <2>2, <3>1, <3>2 DEF InGoodHands, Running
  <2>4. CASE d \in excused
    <3>1. d = b /\ \A c \in Refreshes : ~(Running(c) /\ refreshing[c].browser = b)
      BY <1>1, <1>6, <2>4
    <3>2. jar'[b] = n
      BY <1>1 DEF TokenInv, TokenTypeOK
    <3>3. \A t \in Tokens : Holds(b, t)' => t = n
      BY <1>1, <3>1, <3>2 DEF Holds, Running
    <3> QED
      BY <1>1, <2>1, <3>1, <3>2, <3>3, NoTokenAssumption DEF InGoodHands, Running
  <2> QED
    BY <2>3, <2>4
<1> QED
  BY <1>3, <1>5, <1>6 DEF TokenInv

LEMMA SignOutKeepsTokenInv ==
    ASSUME TokenInv, NEW b \in Browsers, SignOut(b)
    PROVE  TokenInv'
<1>1. /\ jar[b] \in Tokens /\ token' = [token EXCEPT ![jar[b]] = Gone]
      /\ jar' = [jar EXCEPT ![b] = NoToken] /\ excused' = excused \cup {b}
      /\ UNCHANGED <<refreshing, signIns, forks>>
  BY DEF SignOut, TokenInv, TokenTypeOK
<1>2. Gone \in Token /\ Gone # Unused
  BY DEF Gone, Unused, Token
<1>3. TokenTypeOK'
  BY <1>1, <1>2 DEF TokenInv, TokenTypeOK
<1>4. \A d \in Browsers, t \in Tokens : Holds(d, t)' => Holds(d, t)
  BY <1>1, NoTokenAssumption DEF TokenInv, TokenTypeOK, Holds, Running
<1>5. \A t \in Tokens : token'[t] = Unused => token[t] = Unused
  BY <1>1, <1>2 DEF TokenInv, TokenTypeOK
<1>6. ASSUME NEW d \in Browsers \ excused'
      PROVE  /\ d \notin excused /\ jar'[d] # NoToken
             /\ \A t \in Tokens : Holds(d, t) /\ Good(t) => Good(t)'
             /\ \A c \in Refreshes : Running(c)' /\ refreshing'[c].browser = d =>
                    refreshing'[c].pc \notin {"refused", "reuse"}
  <2>1. ~Holds(d, jar[b])
    BY <1>1, <1>6 DEF TokenInv, HeldByOne, Holds
  <2>2. \A t \in Tokens : Holds(d, t) => token'[t] = token[t]
    BY <1>1, <2>1 DEF TokenInv, TokenTypeOK
  <2>3. InGoodHands(d)
    BY <1>1, <1>6 DEF TokenInv
  <2> QED
    BY <1>1, <1>6, <2>2, <2>3 DEF TokenInv, TokenTypeOK, InGoodHands, Good, Running
<1> QED
  BY <1>3, <1>4, <1>5, <1>6, Shrinks

LEMMA RevokeKeepsTokenInv ==
    ASSUME TokenInv, Revoke
    PROVE  TokenInv'
<1>1. PICK ts \in {Tokens} \cup {{t} : t \in Tokens} :
        /\ token' = Revoked(ts)
        /\ excused' = excused \cup {b \in Browsers : \E t \in ts : Holds(b, t)}
  BY DEF Revoke
<1>2. UNCHANGED <<jar, refreshing, signIns, forks>>
  BY DEF Revoke
<1>3. /\ token' \in [Tokens -> Token]
      /\ \A t \in Tokens : token'[t] = Unused => token[t] = Unused
      /\ \A t \in Tokens \ ts : token'[t] = token[t]
  BY <1>1 DEF Revoked, TokenInv, TokenTypeOK, Token, Unused
<1>4. excused' \subseteq Browsers /\ excused \subseteq excused'
  BY <1>1 DEF TokenInv, TokenTypeOK
<1>5. \A b \in Browsers \ excused', t \in Tokens : Holds(b, t) /\ Good(t) => Good(t)'
  BY <1>1, <1>3 DEF Good
<1> QED
  BY <1>2, <1>3, <1>4, <1>5, RowsChange

LEMMA GraceEndsKeepsTokenInv ==
    ASSUME TokenInv, NEW t \in Tokens, GraceEnds(t)
    PROVE  TokenInv'
<1>1. /\ token' = [token EXCEPT ![t] = [token[t] EXCEPT !.superseded = "past"]]
      /\ excused' = excused \cup {b \in Browsers : Holds(b, t)}
      /\ UNCHANGED <<jar, refreshing, signIns, forks>>
  BY DEF GraceEnds, TokenInv, TokenTypeOK
<1>3. /\ token' \in [Tokens -> Token]
      /\ \A u \in Tokens : token'[u] = Unused => token[u] = Unused
      /\ \A u \in Tokens \ {t} : token'[u] = token[u]
  BY <1>1 DEF TokenInv, TokenTypeOK, Token, Unused
<1>4. excused' \subseteq Browsers /\ excused \subseteq excused'
  BY <1>1 DEF TokenInv, TokenTypeOK
<1>5. \A b \in Browsers \ excused', u \in Tokens : Holds(b, u) /\ Good(u) => Good(u)'
  BY <1>1, <1>3 DEF Good
<1> QED
  BY <1>1, <1>3, <1>4, <1>5, RowsChange

LEMMA ExpiresKeepsTokenInv ==
    ASSUME TokenInv, NEW t \in Tokens, Expires(t)
    PROVE  TokenInv'
<1>1. /\ token' = [token EXCEPT ![t] = Expired]
      /\ excused' = excused \cup {b \in Browsers : Holds(b, t)}
      /\ UNCHANGED <<jar, refreshing, signIns, forks>>
  BY DEF Expires
<1>2. Expired \in Token /\ Expired # Unused
  BY DEF Expired, Unused, Token
<1>3. /\ token' \in [Tokens -> Token]
      /\ \A u \in Tokens : token'[u] = Unused => token[u] = Unused
      /\ \A u \in Tokens \ {t} : token'[u] = token[u]
  BY <1>1, <1>2 DEF TokenInv, TokenTypeOK
<1>4. excused' \subseteq Browsers /\ excused \subseteq excused'
  BY <1>1 DEF TokenInv, TokenTypeOK
<1>5. \A b \in Browsers \ excused', u \in Tokens : Holds(b, u) /\ Good(u) => Good(u)'
  BY <1>1, <1>3 DEF Good
<1> QED
  BY <1>1, <1>3, <1>4, <1>5, RowsChange

LEMMA CleanUpKeepsTokenInv ==
    ASSUME TokenInv, CleanUp
    PROVE  TokenInv'
<1>1. Gone \in Token /\ Gone # Unused
  BY DEF Gone, Unused, Token
<1>3. /\ token' \in [Tokens -> Token]
      /\ \A u \in Tokens : token'[u] = Unused => token[u] = Unused
      /\ \A u \in Tokens : Good(u) => token'[u] = token[u]
  BY <1>1 DEF CleanUp, TokenInv, TokenTypeOK, Good
<1>4. excused' \subseteq Browsers /\ excused \subseteq excused'
      /\ UNCHANGED <<jar, refreshing, signIns, forks>>
  BY DEF CleanUp, TokenInv, TokenTypeOK
<1>5. \A b \in Browsers \ excused', u \in Tokens : Holds(b, u) /\ Good(u) => Good(u)'
  BY <1>3 DEF Good
<1> QED
  BY <1>3, <1>4, <1>5, RowsChange
-----------------------------------------------------------------------------
(***************************************************************************)
(* The refresh.                                                            *)
(***************************************************************************)

\* What a running refresh carries.
LEMMA RunningRefresh ==
    ASSUME NEW r \in Refresh
    PROVE  /\ r # IdleRefresh <=> r.pc # "idle"
           /\ r.pc # "idle" => r.browser \in Browsers
           /\ r.pc \in {"sent", "rotate", "renewed"} => r.token \in Tokens
BY DEF Refresh, IdleRefresh

\* A refresh of a browser that is not excused is not refused, and its token is
\* good.
LEMMA NotRefused ==
    ASSUME TokenInv, NEW c \in Refreshes, refreshing[c].pc # "idle",
           refreshing[c].browser \notin excused
    PROVE  /\ InGoodHands(refreshing[c].browser)
           /\ refreshing[c].pc \notin {"refused", "reuse"}
           /\ refreshing[c].pc \in {"sent", "rotate", "renewed"} => Good(refreshing[c].token)
<1>1. /\ Running(c) /\ refreshing[c].browser \in Browsers
      /\ refreshing[c].pc \in {"sent", "rotate", "renewed"} => refreshing[c].token \in Tokens
  BY RunningRefresh DEF TokenInv, TokenTypeOK, Running
<1>2. InGoodHands(refreshing[c].browser)
  BY <1>1 DEF TokenInv
<1> QED
  BY <1>1, <1>2 DEF InGoodHands, Holds

\* A step of one refresh that rewrites no good row: nobody holds more than the
\* refresh did, and it is not refused unless its browser is excused.
LEMMA RefreshSteps ==
    ASSUME TokenInv, NEW c \in Refreshes, NEW r \in Refresh,
           refreshing' = [refreshing EXCEPT ![c] = r],
           UNCHANGED <<jar, signIns, forks>>, token' \in [Tokens -> Token],
           excused' \subseteq Browsers, excused \subseteq excused',
           \A t \in Tokens : token'[t] = Unused => token[t] = Unused,
           \A b \in Browsers \ excused', t \in Tokens : Holds(b, t) /\ Good(t) => Good(t)',
           r.pc \in {"sent", "rotate", "renewed"} => Holds(r.browser, r.token),
           r.pc \in {"refused", "reuse"} => r.browser \in excused'
    PROVE  TokenInv'
<1>1. /\ refreshing' \in [Refreshes -> Refresh] /\ refreshing'[c] = r
      /\ \A d \in Refreshes \ {c} : refreshing'[d] = refreshing[d]
  BY SetRefresh DEF TokenInv, TokenTypeOK
<1>2. TokenTypeOK'
  BY <1>1 DEF TokenInv, TokenTypeOK
<1>3. \A b \in Browsers, t \in Tokens : Holds(b, t)' => Holds(b, t)
  BY <1>1 DEF Holds, Running, IdleRefresh
<1>4. ASSUME NEW b \in Browsers \ excused'
      PROVE  /\ b \notin excused /\ jar'[b] # NoToken
             /\ \A d \in Refreshes : Running(d)' /\ refreshing'[d].browser = b =>
                    refreshing'[d].pc \notin {"refused", "reuse"}
  BY <1>1, <1>4 DEF TokenInv, InGoodHands, Running
<1> QED
  BY <1>2, <1>3, <1>4, Shrinks

LEMMA SendKeepsTokenInv ==
    ASSUME TokenInv, NEW c \in Refreshes, NEW b \in Browsers, Send(c, b)
    PROVE  TokenInv'
<1> DEFINE r == [pc |-> "sent", browser |-> b, token |-> jar[b]]
<1>1. r \in Refresh /\ Holds(b, jar[b])
  BY DEF Send, TokenInv, TokenTypeOK, Refresh, Holds
<1>2. /\ refreshing' = [refreshing EXCEPT ![c] = r] /\ r.pc = "sent"
      /\ r.browser = b /\ r.token = jar[b]
      /\ UNCHANGED <<token, jar, signIns, forks, excused>>
  BY DEF Send
<1> HIDE DEF r
<1> QED
  BY <1>1, <1>2, RefreshSteps DEF TokenInv, TokenTypeOK, Good

LEMMA RefuseKeepsTokenInv ==
    ASSUME TokenInv, NEW c \in Refreshes, Refuse(c)
    PROVE  TokenInv'
<1> DEFINE r == [pc |-> "refused", browser |-> refreshing[c].browser]
           t == refreshing[c].token
<1>1. r \in Refresh /\ t \in Tokens
  BY RunningRefresh DEF Refuse, TokenInv, TokenTypeOK, Refresh
<1>2. /\ refreshing' = [refreshing EXCEPT ![c] = r] /\ r.pc = "refused"
      /\ r.browser = refreshing[c].browser
      /\ UNCHANGED <<jar, signIns, forks, excused>>
  BY DEF Refuse
<1>3. ~Good(t)
  BY DEF Refuse, Good
<1>4. /\ token' \in [Tokens -> Token]
      /\ \A u \in Tokens : token'[u] = Unused => token[u] = Unused
      /\ \A u \in Tokens \ {t} : token'[u] = token[u]
  <2>1. token' = token \/ token' = Deleted({t})
    BY DEF Refuse
  <2>2. Gone \in Token /\ Gone # Unused
    BY DEF Gone, Unused, Token
  <2> HIDE DEF t
  <2> QED
    BY <1>1, <2>1, <2>2 DEF Deleted, TokenInv, TokenTypeOK
<1>5. r.browser \in excused'
  BY <1>2, <1>3, NotRefused DEF Refuse
<1>6. \A b \in Browsers \ excused', u \in Tokens : Holds(b, u) /\ Good(u) => Good(u)'
  BY <1>3, <1>4 DEF Good
<1>7. excused' \subseteq Browsers /\ excused \subseteq excused'
  BY <1>2 DEF TokenInv, TokenTypeOK
<1> HIDE DEF r, t
<1> QED
  BY <1>1, <1>2, <1>4, <1>5, <1>6, <1>7, RefreshSteps

LEMMA DetectReuseKeepsTokenInv ==
    ASSUME TokenInv, NEW c \in Refreshes, DetectReuse(c)
    PROVE  TokenInv'
<1> DEFINE r == [pc |-> "reuse", browser |-> refreshing[c].browser]
<1>1. r \in Refresh
  BY RunningRefresh DEF DetectReuse, TokenInv, TokenTypeOK, Refresh
<1>2. /\ refreshing' = [refreshing EXCEPT ![c] = r] /\ r.pc = "reuse"
      /\ r.browser = refreshing[c].browser
      /\ UNCHANGED <<token, jar, signIns, forks, excused>>
  BY DEF DetectReuse
<1>3. ~Good(refreshing[c].token)
  BY DEF DetectReuse, Reused, Good
<1>5. r.browser \in excused'
  BY <1>2, <1>3, NotRefused DEF DetectReuse
<1> HIDE DEF r
<1> QED
  BY <1>1, <1>2, <1>5, RefreshSteps DEF TokenInv, TokenTypeOK, Good

LEMMA RevokeFamilyKeepsTokenInv ==
    ASSUME TokenInv, NEW c \in Refreshes, RevokeFamily(c)
    PROVE  TokenInv'
<1> DEFINE r == [pc |-> "refused", browser |-> refreshing[c].browser]
<1>1. refreshing[c] \in [pc : {"reuse", "granted", "refused"}, browser : Browsers]
  BY DEF RevokeFamily, TokenInv, TokenTypeOK, Refresh, IdleRefresh
<1>2. r \in Refresh
  BY <1>1 DEF Refresh
<1>3. /\ refreshing' = [refreshing EXCEPT ![c] = r] /\ r.pc = "refused"
      /\ r.browser = refreshing[c].browser
      /\ UNCHANGED <<jar, signIns, forks>>
  <2>1. [refreshing[c] EXCEPT !.pc = "refused"] = r
    BY <1>1
  <2> QED
    BY <2>1 DEF RevokeFamily
<1>4. refreshing[c].browser \in excused /\ excused' = Browsers
  BY NotRefused DEF RevokeFamily
<1>5. /\ token' \in [Tokens -> Token]
      /\ \A u \in Tokens : token'[u] = Unused => token[u] = Unused
  BY DEF RevokeFamily, Deleted, TokenInv, TokenTypeOK, Token, Gone, Unused
<1>6. excused \subseteq Browsers
  BY DEF TokenInv, TokenTypeOK
<1>7. r.browser \in excused' /\ r.pc \notin {"sent", "rotate", "renewed"}
  BY <1>3, <1>4, <1>6
<1> HIDE DEF r
<1> QED
  BY <1>2, <1>3, <1>4, <1>5, <1>6, <1>7, RefreshSteps

LEMMA GrantKeepsTokenInv ==
    ASSUME TokenInv, NEW c \in Refreshes, Grant(c)
    PROVE  TokenInv'
<1> DEFINE r == [pc |-> "granted", browser |-> refreshing[c].browser]
<1>1. r \in Refresh
  BY RunningRefresh DEF Grant, TokenInv, TokenTypeOK, Refresh
<1>2. /\ refreshing' = [refreshing EXCEPT ![c] = r] /\ r.pc = "granted"
      /\ UNCHANGED <<token, jar, signIns, forks, excused>>
  BY DEF Grant
<1> HIDE DEF r
<1> QED
  BY <1>1, <1>2, RefreshSteps DEF TokenInv, TokenTypeOK, Good

LEMMA BeginRotationKeepsTokenInv ==
    ASSUME TokenInv, NEW c \in Refreshes, BeginRotation(c)
    PROVE  TokenInv'
<1> DEFINE t == refreshing[c].token
           r == [pc |-> "rotate", browser |-> refreshing[c].browser,
                 token |-> t, seen |-> token[t]]
<1>1. /\ r \in Refresh /\ Running(c)
  BY RunningRefresh DEF BeginRotation, TokenInv, TokenTypeOK, Refresh, Running
<1>2. /\ refreshing' = [refreshing EXCEPT ![c] = r] /\ r.pc = "rotate"
      /\ r.browser = refreshing[c].browser /\ r.token = refreshing[c].token
      /\ UNCHANGED <<token, jar, signIns, forks, excused>>
  BY DEF BeginRotation
<1>3. Holds(r.browser, r.token)
  BY <1>1, <1>2 DEF Holds, BeginRotation
<1> HIDE DEF r, t
<1> QED
  BY <1>1, <1>2, <1>3, RefreshSteps DEF TokenInv, TokenTypeOK, Good
LEMMA RotateKeepsTokenInv ==
    ASSUME TokenInv, NEW c \in Refreshes, Rotate(c)
    PROVE  TokenInv'
<1> DEFINE t == refreshing[c].token
           b == refreshing[c].browser
<1>1. PICK n \in Tokens :
        /\ token[n] = Unused
        /\ token' = [token EXCEPT ![n] = Fresh,
                                  ![t].superseded =
                                      IF token[t].state = "stored" /\ token[t].superseded = "no"
                                        THEN "grace" ELSE token[t].superseded]
        /\ refreshing' = [refreshing EXCEPT ![c] = [pc |-> "renewed", browser |-> b, token |-> n]]
  BY DEF Rotate, NewToken
<1>2. refreshing[c].pc = "rotate" /\ t \in Tokens /\ b \in Browsers /\ Running(c)
  BY RunningRefresh DEF Rotate, TokenInv, TokenTypeOK, Running
<1>3. Holds(b, t) /\ t # n
  BY <1>1, <1>2 DEF Holds, TokenInv, HeldByOne
<1>4. UNCHANGED <<jar, signIns, excused>> /\ forks' \in Nat
  BY DEF Rotate, TokenInv, TokenTypeOK
<1> DEFINE r == [pc |-> "renewed", browser |-> b, token |-> n]
           s == IF token[t].state = "stored" /\ token[t].superseded = "no"
                  THEN "grace" ELSE token[t].superseded
           old == [token[t] EXCEPT !.superseded = s]
<1>5. r \in Refresh /\ r.pc = "renewed" /\ r.browser = b /\ r.token = n
  BY <1>2 DEF Refresh
<1>6. /\ old \in Token /\ old # Unused /\ Fresh \in Token /\ Fresh # Unused
      /\ old.state = token[t].state /\ old.revoked = token[t].revoked
      /\ old.superseded = "past" <=> token[t].superseded = "past"
  <2>1. token[t] \in Token /\ token[t] # Unused
    BY <1>2, <1>3 DEF TokenInv, TokenTypeOK, HeldByOne
  <2>2. Fresh \in Token /\ Fresh # Unused
    BY DEF Fresh, Unused, Token
  <2> QED
    BY <2>1, <2>2 DEF Token, Unused
<1>7. /\ token' \in [Tokens -> Token] /\ token'[n] = Fresh /\ token'[t] = old
      /\ \A u \in Tokens \ {n, t} : token'[u] = token[u]
  BY <1>1, <1>2, <1>3, <1>6 DEF TokenInv, TokenTypeOK
<1>8. \A u \in Tokens : Good(u) => Good(u)'
  <2> HIDE DEF t, s, old
  <2>1. \A u \in Tokens : u = t /\ Good(u) => Good(u)'
    BY <1>6, <1>7 DEF Good
  <2>2. \A u \in Tokens : Good(u) => u # n
    BY <1>1 DEF Good, Unused
  <2>3. \A u \in Tokens \ {n, t} : Good(u) => Good(u)'
    BY <1>7 DEF Good
  <2> QED
    BY <2>1, <2>2, <2>3
<1>9. Good(n)'
  BY <1>7 DEF Good, Fresh, Unused
<1>10. /\ refreshing' \in [Refreshes -> Refresh] /\ refreshing'[c] = r
       /\ \A d \in Refreshes \ {c} : refreshing'[d] = refreshing[d]
  BY <1>1, <1>5, SetRefresh DEF TokenInv, TokenTypeOK
<1> HIDE DEF t, b, r, s, old
<1>11. TokenTypeOK'
  BY <1>4, <1>7, <1>10 DEF TokenInv, TokenTypeOK
<1>12. \A d \in Browsers, u \in Tokens : Holds(d, u) => u # n
  BY <1>1 DEF TokenInv, HeldByOne
<1>13. \A d \in Browsers, u \in Tokens :
          Holds(d, u)' => (u # n /\ Holds(d, u)) \/ (u = n /\ d = b)
  <2>1. \A d \in Browsers, u \in Tokens :
          Holds(d, u)' => Holds(d, u) \/ (u = n /\ d = b)
    BY <1>4, <1>5, <1>10 DEF Holds, Running, IdleRefresh
  <2> QED
    BY <2>1, <1>12
<1>14. HeldByOne'
  BY <1>6, <1>7, <1>13 DEF TokenInv, TokenTypeOK, HeldByOne
<1>15. ASSUME NEW d \in Browsers \ excused' PROVE InGoodHands(d)'
  <2>1. InGoodHands(d)
    BY <1>4, <1>15 DEF TokenInv
  <2>2. \A e \in Refreshes : Running(e)' /\ refreshing'[e].browser = d =>
            refreshing'[e].pc \notin {"refused", "reuse"}
    BY <1>5, <1>10, <2>1 DEF InGoodHands, Running, IdleRefresh
  <2> QED
    BY <1>4, <1>8, <1>9, <1>13, <2>1, <2>2 DEF InGoodHands
<1> QED
  BY <1>11, <1>14, <1>15 DEF TokenInv

LEMMA AnswerKeepsTokenInv ==
    ASSUME TokenInv, NEW c \in Refreshes, Answer(c)
    PROVE  TokenInv'
<1> DEFINE r == refreshing[c]
           j == CASE r.pc = "granted" -> jar[r.browser]
                  [] r.pc = "refused" -> NoToken
                  [] r.pc = "renewed" -> r.token
<1>1. /\ r.pc \in {"granted", "refused", "renewed"}
      /\ jar' = [jar EXCEPT ![r.browser] = j]
      /\ refreshing' = [refreshing EXCEPT ![c] = IdleRefresh]
      /\ UNCHANGED <<token, signIns, forks, excused>>
  BY DEF Answer
<1>2. r.browser \in Browsers /\ (r.pc = "renewed" => r.token \in Tokens) /\ Running(c)
  BY <1>1, RunningRefresh DEF TokenInv, TokenTypeOK, Running
<1>3. /\ j \in Tokens \cup {NoToken}
      /\ r.pc \in {"granted", "renewed"} /\ j # NoToken => Holds(r.browser, j)
      /\ r.pc = "refused" => j = NoToken
      /\ r.pc = "granted" => j = jar[r.browser]
      /\ r.pc = "renewed" => j \in Tokens
  BY <1>1, <1>2 DEF TokenInv, TokenTypeOK, Holds
<1>4. /\ jar' \in [Browsers -> Tokens \cup {NoToken}] /\ jar'[r.browser] = j
      /\ \A b \in Browsers \ {r.browser} : jar'[b] = jar[b]
  BY <1>1, <1>2, <1>3 DEF TokenInv, TokenTypeOK
<1>5. /\ refreshing' \in [Refreshes -> Refresh] /\ refreshing'[c] = IdleRefresh
      /\ \A d \in Refreshes \ {c} : refreshing'[d] = refreshing[d]
  BY <1>1, SetRefresh DEF TokenInv, TokenTypeOK, Refresh
<1>6. r.browser \notin excused => r.pc # "refused"
  BY <1>1, NotRefused
<1> HIDE DEF j
<1>7. TokenTypeOK'
  BY <1>1, <1>4, <1>5 DEF TokenInv, TokenTypeOK
<1>8. \A b \in Browsers, t \in Tokens : Holds(b, t)' => Holds(b, t)
  <2>1. \A b \in Browsers, t \in Tokens : jar'[b] = t => Holds(b, t)
    BY <1>1, <1>3, <1>4, NoTokenAssumption DEF Holds
  <2> QED
    BY <1>5, <2>1 DEF Holds, Running, IdleRefresh
<1>9. ASSUME NEW b \in Browsers \ excused'
      PROVE  /\ b \notin excused /\ jar'[b] # NoToken
             /\ \A t \in Tokens : Holds(b, t) /\ Good(t) => Good(t)'
             /\ \A d \in Refreshes : Running(d)' /\ refreshing'[d].browser = b =>
                    refreshing'[d].pc \notin {"refused", "reuse"}
  <2>1. b \notin excused /\ InGoodHands(b)
    BY <1>1, <1>9 DEF TokenInv
  <2>2. jar'[b] # NoToken
    BY <1>1, <1>3, <1>4, <1>6, <2>1, NoTokenAssumption DEF InGoodHands
  <2>3. \A d \in Refreshes : Running(d)' /\ refreshing'[d].browser = b =>
            refreshing'[d].pc \notin {"refused", "reuse"}
    BY <1>5, <2>1 DEF InGoodHands, Running, IdleRefresh
  <2> QED
    BY <1>1, <2>1, <2>2, <2>3 DEF Good
<1>10. \A t \in Tokens : token'[t] = Unused => token[t] = Unused
  BY <1>1
<1> QED
  BY <1>7, <1>8, <1>9, <1>10, Shrinks

LEMMA LoseKeepsTokenInv ==
    ASSUME TokenInv, NEW c \in Refreshes, Lose(c)
    PROVE  TokenInv'
<1>1. IdleRefresh \in Refresh /\ IdleRefresh.pc = "idle"
  BY DEF Refresh, IdleRefresh
<1>2. /\ refreshing' = [refreshing EXCEPT ![c] = IdleRefresh]
      /\ UNCHANGED <<token, jar, signIns, forks>>
  BY DEF Lose
<1>3. excused' \subseteq Browsers /\ excused \subseteq excused'
  <2>1. refreshing[c].pc = "renewed" => refreshing[c].browser \in Browsers
    BY RunningRefresh DEF TokenInv, TokenTypeOK
  <2> QED
    BY <2>1 DEF Lose, TokenInv, TokenTypeOK
<1> QED
  BY <1>1, <1>2, <1>3, RefreshSteps DEF TokenInv, TokenTypeOK, Good

LEMMA StutterKeepsTokenInv == TokenInv /\ UNCHANGED tokenVars => TokenInv'
BY DEF tokenVars, TokenInv, TokenTypeOK, HeldByOne, InGoodHands, Good, Holds, Running

LEMMA StepKeepsTokenInv == TokenInv /\ [TokenNext]_tokenVars => TokenInv'
<1> SUFFICES ASSUME TokenInv, [TokenNext]_tokenVars PROVE TokenInv'
  OBVIOUS
<1>1. ASSUME NEW b \in Browsers, SignIn(b) \/ SignOut(b) PROVE TokenInv'
  BY <1>1, SignInKeepsTokenInv, SignOutKeepsTokenInv
<1>2. CASE Revoke \/ CleanUp
  BY <1>2, RevokeKeepsTokenInv, CleanUpKeepsTokenInv
<1>3. ASSUME NEW t \in Tokens, GraceEnds(t) \/ Expires(t) PROVE TokenInv'
  BY <1>3, GraceEndsKeepsTokenInv, ExpiresKeepsTokenInv
<1>4. ASSUME NEW c \in Refreshes, NEW b \in Browsers, Send(c, b) PROVE TokenInv'
  BY <1>4, SendKeepsTokenInv
<1>5. ASSUME NEW c \in Refreshes, Refuse(c) \/ DetectReuse(c) \/ RevokeFamily(c)
      PROVE  TokenInv'
  BY <1>5, RefuseKeepsTokenInv, DetectReuseKeepsTokenInv, RevokeFamilyKeepsTokenInv
<1>6. ASSUME NEW c \in Refreshes, Grant(c) \/ BeginRotation(c) \/ Rotate(c)
      PROVE  TokenInv'
  BY <1>6, GrantKeepsTokenInv, BeginRotationKeepsTokenInv, RotateKeepsTokenInv
<1>7. ASSUME NEW c \in Refreshes, Answer(c) \/ Lose(c) PROVE TokenInv'
  BY <1>7, AnswerKeepsTokenInv, LoseKeepsTokenInv
<1> QED
  BY <1>1, <1>2, <1>3, <1>4, <1>5, <1>6, <1>7, StutterKeepsTokenInv DEF TokenNext

-----------------------------------------------------------------------------
(***************************************************************************)
(* Sessions do not multiply.                                               *)
(***************************************************************************)

Sessions == {t \in Tokens : Live(t)}

\* Who is about to rotate has read a row as it was inserted: a row that is
\* still so is the session that the new one replaces.
SessionInv ==
    /\ \A c \in Refreshes : refreshing[c].pc = "rotate" => refreshing[c].seen = Fresh
    /\ IsFiniteSet(Sessions) /\ Cardinality(Sessions) <= signIns + forks

\* A step that makes no row live.
LEMMA SessionsShrink ==
    ASSUME TokenInv, SessionInv, UNCHANGED <<signIns, forks>>,
           \A t \in Tokens : Live(t)' => Live(t),
           \A c \in Refreshes : refreshing'[c].pc = "rotate" =>
               refreshing'[c].seen = Fresh
    PROVE  SessionInv'
<1>1. Sessions' \in SUBSET Sessions
  BY DEF Sessions
<1>2. IsFiniteSet(Sessions') /\ Cardinality(Sessions') <= Cardinality(Sessions)
      /\ Cardinality(Sessions') \in Nat /\ Cardinality(Sessions) \in Nat
  BY <1>1, FS_Subset, FS_CardinalityType DEF SessionInv
<1>3. signIns' + forks' = signIns + forks /\ signIns + forks \in Nat
  BY DEF TokenInv, TokenTypeOK
<1> QED
  BY <1>2, <1>3 DEF SessionInv

LEMMA SessionInit == TokenInit => SessionInv
<1> SUFFICES ASSUME TokenInit PROVE SessionInv
  OBVIOUS
<1>1. Sessions = {}
  BY DEF TokenInit, Sessions, Live, Unused, Fresh
<1> QED
  BY <1>1, FS_EmptySet DEF TokenInit, SessionInv, IdleRefresh

LEMMA SignInAddsOne ==
    ASSUME TokenInv, SessionInv, NEW b \in Browsers, SignIn(b)
    PROVE  SessionInv'
<1>1. PICK n \in Tokens : token' = [token EXCEPT ![n] = Fresh]
  BY DEF SignIn, NewToken
<1>2. signIns' = signIns + 1 /\ forks' = forks /\ refreshing' = refreshing
  BY DEF SignIn
<1>3. Sessions' = Sessions \cup {n}
  BY <1>1 DEF Sessions, Live, TokenInv, TokenTypeOK
<1>4. /\ IsFiniteSet(Sessions') /\ Cardinality(Sessions) \in Nat
      /\ Cardinality(Sessions') = Cardinality(Sessions)
           \/ Cardinality(Sessions') = Cardinality(Sessions) + 1
  BY <1>3, FS_AddElement, FS_CardinalityType DEF SessionInv
<1>5. signIns \in Nat /\ forks \in Nat
  BY DEF TokenInv, TokenTypeOK
<1>6. Cardinality(Sessions') <= signIns' + forks'
  BY <1>2, <1>4, <1>5 DEF SessionInv
<1> QED
  BY <1>2, <1>4, <1>6 DEF SessionInv

LEMMA RotationReplacesOne ==
    ASSUME TokenInv, SessionInv, NEW c \in Refreshes, Rotate(c)
    PROVE  SessionInv'
<1> DEFINE t == refreshing[c].token
<1>1. PICK n \in Tokens :
        /\ token[n] = Unused
        /\ token' = [token EXCEPT ![n] = Fresh,
                                  ![t].superseded =
                                      IF token[t].state = "stored" /\ token[t].superseded = "no"
                                        THEN "grace" ELSE token[t].superseded]
        /\ refreshing' = [refreshing EXCEPT ![c] = [pc |-> "renewed",
                                                    browser |-> refreshing[c].browser,
                                                    token |-> n]]
        /\ forks' = IF token[t] = refreshing[c].seen THEN forks ELSE forks + 1
  BY DEF Rotate, NewToken
<1>2. refreshing[c].pc = "rotate" /\ t \in Tokens /\ refreshing[c].browser \in Browsers
      /\ Running(c)
  BY RunningRefresh DEF Rotate, TokenInv, TokenTypeOK, Running
<1>3. t # n
  BY <1>1, <1>2 DEF Holds, TokenInv, HeldByOne
<1>4. signIns' = signIns /\ signIns \in Nat /\ forks \in Nat
  BY DEF Rotate, TokenInv, TokenTypeOK
<1>5. refreshing[c].seen = Fresh
  BY <1>2 DEF SessionInv
<1>6. /\ token' \in [Tokens -> Token] /\ token'[n] = Fresh /\ token'[t] # Fresh
      /\ \A u \in Tokens \ {n, t} : token'[u] = token[u]
  <2>1. token[t] \in Token /\ Fresh.superseded = "no" /\ Fresh.state = "stored"
    BY <1>2 DEF TokenInv, TokenTypeOK, Fresh, Unused
  <2>2. PICK s : s = IF token[t].state = "stored" /\ token[t].superseded = "no"
                       THEN "grace" ELSE token[t].superseded
    OBVIOUS
  <2>3. PICK old : old = [token[t] EXCEPT !.superseded = s]
    OBVIOUS
  <2>4. old.superseded = s /\ old.state = token[t].state
    BY <2>1, <2>3 DEF Token
  <2>5. old # Fresh
    BY <2>1, <2>2, <2>4
  <2>6. token' = [token EXCEPT ![n] = Fresh, ![t] = old]
    BY <1>1, <1>3, <2>2, <2>3
  <2> QED
    BY <1>2, <1>3, <2>5, <2>6, RotateKeepsTokenInv DEF TokenInv, TokenTypeOK
<1>7. Sessions' = (Sessions \ {t}) \cup {n}
  BY <1>2, <1>3, <1>6 DEF Sessions, Live
<1>8. /\ IsFiniteSet(Sessions \ {t}) /\ Cardinality(Sessions) \in Nat
      /\ Cardinality(Sessions \ {t}) = IF t \in Sessions THEN Cardinality(Sessions) - 1
                                                         ELSE Cardinality(Sessions)
  BY FS_RemoveElement, FS_CardinalityType DEF SessionInv
<1>9. n \notin Sessions \ {t}
  BY <1>1 DEF Sessions, Live, Unused, Fresh
<1>10. IsFiniteSet(Sessions') /\ Cardinality(Sessions') = Cardinality(Sessions \ {t}) + 1
  BY <1>7, <1>8, <1>9, FS_AddElement
<1>11. t \in Sessions <=> token[t] = refreshing[c].seen
  BY <1>2, <1>5 DEF Sessions, Live
<1>12. Cardinality(Sessions') <= signIns' + forks'
  BY <1>1, <1>4, <1>8, <1>10, <1>11 DEF SessionInv
<1>13. \A d \in Refreshes : refreshing'[d].pc = "rotate" => refreshing'[d].seen = Fresh
  BY <1>1 DEF SessionInv, TokenInv, TokenTypeOK
<1> QED
  BY <1>10, <1>12, <1>13 DEF SessionInv

LEMMA SessionStep == TokenInv /\ SessionInv /\ [TokenNext]_tokenVars => SessionInv'
<1> SUFFICES ASSUME TokenInv, SessionInv, [TokenNext]_tokenVars PROVE SessionInv'
  OBVIOUS
<1> USE DEF Live
<1>1. token \in [Tokens -> Token] /\ refreshing \in [Refreshes -> Refresh]
  BY DEF TokenInv, TokenTypeOK
<1>2. Fresh.superseded = "no" /\ Fresh.state = "stored" /\ Fresh.revoked = FALSE /\ Gone # Fresh
      /\ Expired # Fresh
  BY DEF Fresh, Gone, Unused, Expired
<1>3. \A c \in Refreshes : refreshing[c].pc = "rotate" => refreshing[c].seen = Fresh
  BY DEF SessionInv
<1>4. ASSUME UNCHANGED <<refreshing, signIns, forks>>,
             \A t \in Tokens : token'[t] = Fresh => token[t] = Fresh
      PROVE  SessionInv'
  BY <1>3, <1>4, SessionsShrink
<1>5. ASSUME UNCHANGED <<signIns, forks>>, NEW c \in Refreshes, NEW r,
             refreshing' = [refreshing EXCEPT ![c] = r],
             r.pc = "rotate" => r.seen = Fresh,
             \A t \in Tokens : token'[t] = Fresh => token[t] = Fresh
      PROVE  SessionInv'
  BY <1>1, <1>3, <1>5, SessionsShrink
<1>6. \A ts : \A t \in Tokens : Deleted(ts)[t] = Fresh => token[t] = Fresh
  BY <1>2 DEF Deleted
<1>7. ASSUME NEW b \in Browsers, SignIn(b) PROVE SessionInv'
  BY <1>7, SignInAddsOne
<1>8. ASSUME NEW b \in Browsers, SignOut(b) PROVE SessionInv'
  BY <1>1, <1>2, <1>4, <1>8 DEF SignOut
<1>9. CASE Revoke
  <2>1. ASSUME NEW ts, NEW t \in Tokens, Revoked(ts)[t] = Fresh PROVE token[t] = Fresh
    <3>1. CASE t \in ts /\ token[t].state = "stored"
      <4>1. Revoked(ts)[t].revoked = TRUE
        BY <1>1, <3>1 DEF Revoked, Token
      <4> QED
        BY <1>2, <2>1, <4>1
    <3>2. CASE ~(t \in ts /\ token[t].state = "stored")
      BY <2>1, <3>2 DEF Revoked
    <3> QED
      BY <3>1, <3>2
  <2> QED
    BY <1>4, <1>9, <2>1 DEF Revoke
<1>10. CASE CleanUp
  BY <1>2, <1>4, <1>10 DEF CleanUp
<1>11. ASSUME NEW t \in Tokens, GraceEnds(t) PROVE SessionInv'
  <2>1. PICK past : past = [token[t] EXCEPT !.superseded = "past"]
    OBVIOUS
  <2>2. past.superseded = "past"
    BY <1>1, <2>1 DEF Token
  <2>3. token' = [token EXCEPT ![t] = past]
    BY <1>11, <2>1 DEF GraceEnds
  <2> QED
    BY <1>1, <1>2, <1>4, <1>11, <2>2, <2>3 DEF GraceEnds
<1>12. ASSUME NEW t \in Tokens, Expires(t) PROVE SessionInv'
  BY <1>1, <1>2, <1>4, <1>12 DEF Expires
<1>13. ASSUME NEW c \in Refreshes, NEW b \in Browsers, Send(c, b) PROVE SessionInv'
  <2>1. PICK r : r = [pc |-> "sent", browser |-> b, token |-> jar[b]]
    OBVIOUS
  <2> QED
    BY <1>5, <1>13, <2>1 DEF Send
<1>14. ASSUME NEW c \in Refreshes, NEW pc \in {"refused", "reuse", "granted"},
              UNCHANGED <<signIns, forks>>,
              refreshing' = [refreshing EXCEPT ![c] = [pc |-> pc,
                                                       browser |-> refreshing[c].browser]],
              \A t \in Tokens : token'[t] = Fresh => token[t] = Fresh
       PROVE  SessionInv'
  <2>1. PICK r : r = [pc |-> pc, browser |-> refreshing[c].browser]
    OBVIOUS
  <2> QED
    BY <1>5, <1>14, <2>1
<1>15. ASSUME NEW c \in Refreshes, Refuse(c) PROVE SessionInv'
  <2>1. token' = token \/ token' = Deleted({refreshing[c].token})
    BY <1>15 DEF Refuse
  <2>2. \A t \in Tokens : token'[t] = Fresh => token[t] = Fresh
    BY <1>6, <2>1
  <2> QED
    BY <1>14, <1>15, <2>2 DEF Refuse
<1>16. ASSUME NEW c \in Refreshes, DetectReuse(c) \/ Grant(c) PROVE SessionInv'
  BY <1>14, <1>16 DEF DetectReuse, Grant
<1>17. ASSUME NEW c \in Refreshes, RevokeFamily(c) PROVE SessionInv'
  <2>1. PICK r : r = [refreshing[c] EXCEPT !.pc = "refused"]
    OBVIOUS
  <2>2. r.pc = "refused"
    <3>1. refreshing[c] \in [pc : {"reuse", "granted", "refused"}, browser : Browsers]
      BY <1>1, <1>17 DEF RevokeFamily, Refresh, IdleRefresh
    <3> QED
      BY <2>1, <3>1
  <2>3. refreshing' = [refreshing EXCEPT ![c] = r]
    BY <1>17, <2>1 DEF RevokeFamily
  <2>4. \A t \in Tokens : token'[t] = Fresh => token[t] = Fresh
    BY <1>6, <1>17 DEF RevokeFamily
  <2>5. UNCHANGED <<signIns, forks>>
    BY <1>17 DEF RevokeFamily
  <2> QED
    BY <1>5, <2>2, <2>3, <2>4, <2>5
<1>18. ASSUME NEW c \in Refreshes, BeginRotation(c) PROVE SessionInv'
  <2>1. PICK r : r = [pc |-> "rotate", browser |-> refreshing[c].browser,
                      token |-> refreshing[c].token, seen |-> token[refreshing[c].token]]
    OBVIOUS
  <2>2. refreshing[c].token \in Tokens
    BY <1>1, <1>18, RunningRefresh DEF BeginRotation
  <2>3. token[refreshing[c].token] = Fresh
    <3>1. token[refreshing[c].token] \in Token
      BY <1>1, <2>2
    <3>2. /\ token[refreshing[c].token].state = "stored"
          /\ token[refreshing[c].token].superseded = "no"
          /\ token[refreshing[c].token].revoked = FALSE
      BY <1>18, <3>1 DEF BeginRotation, Rotatable, Reused, Token
    <3>3. Fresh \in Token
      BY DEF Fresh, Unused, Token
    <3> QED
      BY <1>2, <3>1, <3>2, <3>3 DEF Token
  <2> QED
    BY <1>5, <1>18, <2>1, <2>3 DEF BeginRotation
<1>19. ASSUME NEW c \in Refreshes, Rotate(c) PROVE SessionInv'
  BY <1>19, RotationReplacesOne
<1>20. ASSUME NEW c \in Refreshes, Answer(c) \/ Lose(c) PROVE SessionInv'
  <2>1. PICK r : r = IdleRefresh
    OBVIOUS
  <2>2. r.pc # "rotate"
    BY <2>1 DEF IdleRefresh
  <2> QED
    BY <1>5, <1>20, <2>1, <2>2 DEF Answer, Lose
<1>21. CASE UNCHANGED tokenVars
  BY <1>4, <1>21 DEF tokenVars
<1> QED
  BY <1>7, <1>8, <1>9, <1>10, <1>11, <1>12, <1>13, <1>15, <1>16, <1>17, <1>18, <1>19, <1>20,
     <1>21 DEF TokenNext

-----------------------------------------------------------------------------
(***************************************************************************)
(* The theorems about tokens.                                              *)
(***************************************************************************)

\* The inductive invariant: whose hands each token is in, whatever is revoked,
\* expires, is lost or overtaken.
THEOREM TokenInvariant == TokenSpec => []TokenInv
BY InitTokenInv, StepKeepsTokenInv, PTL DEF TokenSpec

\* RefreshTokensUseCase and AuthController: concurrent refreshes and answers out
\* of order do not sign a browser out while its session is alive.
THEOREM BrowsersStaySignedIn == TokenSpec => []StaysSignedIn
<1>1. TokenInv => StaysSignedIn
  <2> SUFFICES ASSUME TokenInv, NEW b \in Browsers \ excused
               PROVE  jar[b] # NoToken /\ Good(jar[b])
    BY DEF StaysSignedIn, Good
  <2>1. InGoodHands(b) /\ jar[b] \in Tokens \cup {NoToken}
    BY DEF TokenInv, TokenTypeOK
  <2> QED
    BY <2>1 DEF InGoodHands, Holds
<1> QED
  BY <1>1, TokenInvariant, PTL

\* RefreshTokensUseCase: a rotation replaces a session, and only refreshes that
\* have read the same row add one.
THEOREM SessionsStayFew == TokenSpec => []SessionsDoNotMultiply
<1>1. SessionInv => SessionsDoNotMultiply
  BY DEF SessionInv, Sessions, SessionsDoNotMultiply
<1> QED
  BY <1>1, SessionInit, SessionStep, TokenInvariant, PTL DEF TokenSpec

-----------------------------------------------------------------------------
(***************************************************************************)
(* RequestIdempotency: who owns a key.                                     *)
(***************************************************************************)

Owns(c, k) == keyCall[c].pc \in {"run", "complete", "fail"} /\ Key(c) = k

\* A call resets a record only after it has read it failed.
ResetSawFailed(c) == keyCall[c].pc = "reset" => keyCall[c].seen = "failed"

Exclusive(k) == k \notin stale =>
    /\ \A c \in KeyCalls : Owns(c, k) => record[k].status = "pending"
    /\ \A c, d \in KeyCalls : Owns(c, k) /\ Owns(d, k) => c = d
    /\ k \notin abandoned /\ record[k].status = "pending" =>
          \E c \in KeyCalls : Owns(c, k)

Bookkept(k) ==
    /\ record[k].status = "completed" => effects[k] >= 1
    /\ \A c \in KeyCalls : Owns(c, k) /\ keyCall[c].pc = "complete" => effects[k] >= 1
    /\ k \notin stale \cup unrecorded =>
          /\ effects[k] <= 1
          /\ record[k].status \in {"none", "failed"} => effects[k] = 0
          /\ \A c \in KeyCalls : Owns(c, k) /\ keyCall[c].pc \in {"run", "fail"} =>
                effects[k] = 0

KeyInv ==
    /\ KeyTypeOK
    /\ \A c \in KeyCalls : ResetSawFailed(c)
    /\ \A k \in Keys : Exclusive(k) /\ Bookkept(k)

-----------------------------------------------------------------------------
(***************************************************************************)
(* What the helpers do to the calls.                                       *)
(***************************************************************************)

\* A call that is not idle has a key, a payload and what it read.
LEMMA RunningCall ==
    ASSUME NEW r \in KeyCall, r.pc # "idle"
    PROVE  r \in [pc : {"find", "reset", "run", "complete", "fail"},
                  key : Keys, payload : Payloads, seen : KeyStatus]
BY DEF KeyCall, IdleKeyCall

\* A call that goes on keeps its key and what it read; no other call moves.
LEMMA GoOnMoves ==
    ASSUME keyCall \in [KeyCalls -> KeyCall], NEW c \in KeyCalls, keyCall[c].pc # "idle",
           NEW pc \in {"find", "reset", "run", "complete", "fail"}, GoOn(c, pc)
    PROVE  /\ keyCall' \in [KeyCalls -> KeyCall]
           /\ keyCall'[c].pc = pc /\ keyCall'[c].key = keyCall[c].key
           /\ keyCall'[c].seen = keyCall[c].seen
           /\ \A d \in KeyCalls \ {c} : keyCall'[d] = keyCall[d]
<1>1. keyCall[c] \in [pc : {"find", "reset", "run", "complete", "fail"},
                      key : Keys, payload : Payloads, seen : KeyStatus]
  BY RunningCall
<1>2. [keyCall[c] EXCEPT !.pc = pc] \in KeyCall
  BY <1>1 DEF KeyCall
<1>3. keyCall' = [keyCall EXCEPT ![c] = [keyCall[c] EXCEPT !.pc = pc]]
  BY DEF GoOn
<1> QED
  BY <1>1, <1>2, <1>3

\* A call that finishes is idle; no other call moves.
LEMMA FinishMoves ==
    ASSUME keyCall \in [KeyCalls -> KeyCall], NEW c \in KeyCalls, Finish(c)
    PROVE  /\ keyCall' \in [KeyCalls -> KeyCall]
           /\ keyCall'[c].pc = "idle"
           /\ \A d \in KeyCalls \ {c} : keyCall'[d] = keyCall[d]
BY DEF Finish, KeyCall, IdleKeyCall

\* A call that starts is at its first step with its key; no other call moves.
LEMMA StartMoves ==
    ASSUME keyCall \in [KeyCalls -> KeyCall], NEW c \in KeyCalls, NEW k \in Keys,
           NEW p \in Payloads, NEW pc \in {"find", "run"}, Start(c, pc, k, p)
    PROVE  /\ keyCall' \in [KeyCalls -> KeyCall]
           /\ keyCall'[c].pc = pc /\ keyCall'[c].key = k
           /\ \A d \in KeyCalls \ {c} : keyCall'[d] = keyCall[d]
BY DEF Start, KeyCall, KeyStatus

\* The write of a status leaves the hash and every other record alone.
LEMMA SetStatusWrites ==
    ASSUME record \in [Keys -> KeyRecord], NEW k \in Keys, NEW s \in KeyStatus,
           SetStatus(k, s)
    PROVE  /\ record' \in [Keys -> KeyRecord]
           /\ record'[k].status = s
           /\ \A j \in Keys \ {k} : record'[j] = record[j]
<1>1. record' = [record EXCEPT ![k] = [record[k] EXCEPT !.status = s]]
  BY DEF SetStatus
<1>2. [record[k] EXCEPT !.status = s] \in KeyRecord
  BY DEF KeyRecord
<1> QED
  BY <1>1, <1>2 DEF KeyRecord

-----------------------------------------------------------------------------
(***************************************************************************)
(* The invariant is inductive: one lemma per action.                       *)
(***************************************************************************)

LEMMA InitKeyInv == KeyInit => KeyInv
BY DEF KeyInit, KeyInv, KeyTypeOK, KeyRecord, KeyStatus, KeyCall, IdleKeyCall,
       ResetSawFailed, Exclusive, Bookkept, Owns, Key

LEMMA InsertPendingKeepsKeyInv ==
    ASSUME KeyInv, NEW c \in KeyCalls, NEW k \in Keys, NEW p \in Payloads,
           InsertPending(c, k, p)
    PROVE  KeyInv'
<1> USE DEF Owns, Key
<1>0. keyCall[c].pc = "idle" /\ KeyTypeOK
  BY DEF InsertPending, At, KeyInv
<1>1. CASE record[k].status = "none"
  <2>1. Start(c, "run", k, p)
        /\ record' = [record EXCEPT ![k] = [status |-> "pending", hash |-> p]]
    BY <1>1 DEF InsertPending
  <2>2. /\ keyCall' \in [KeyCalls -> KeyCall]
        /\ keyCall'[c].pc = "run" /\ keyCall'[c].key = k
        /\ \A d \in KeyCalls \ {c} : keyCall'[d] = keyCall[d]
    BY <1>0, <2>1, StartMoves DEF KeyTypeOK
  <2>3. /\ record' \in [Keys -> KeyRecord] /\ record'[k].status = "pending"
        /\ \A j \in Keys \ {k} : record'[j] = record[j]
    BY <1>0, <2>1 DEF KeyTypeOK, KeyRecord, KeyStatus
  <2>4. UNCHANGED <<effects, stale, unrecorded, abandoned>>
    BY DEF InsertPending
  <2>5. KeyTypeOK'
    BY <1>0, <2>2, <2>3, <2>4 DEF KeyTypeOK
  <2>6. \A d \in KeyCalls : ResetSawFailed(d)'
    BY <2>2 DEF KeyInv, ResetSawFailed
  <2>7. \A j \in Keys : Exclusive(j)'
    BY <1>0, <1>1, <2>2, <2>3, <2>4 DEF KeyInv, Exclusive
  <2>8. \A j \in Keys : Bookkept(j)'
    BY <1>0, <1>1, <2>2, <2>3, <2>4 DEF KeyInv, Bookkept
  <2> QED
    BY <2>5, <2>6, <2>7, <2>8 DEF KeyInv
<1>2. CASE record[k].status # "none"
  <2>1. Start(c, "find", k, p) /\ UNCHANGED record
    BY <1>2 DEF InsertPending
  <2>2. /\ keyCall' \in [KeyCalls -> KeyCall]
        /\ keyCall'[c].pc = "find"
        /\ \A d \in KeyCalls \ {c} : keyCall'[d] = keyCall[d]
    BY <1>0, <2>1, StartMoves DEF KeyTypeOK
  <2>4. UNCHANGED <<record, effects, stale, unrecorded, abandoned>>
    BY <2>1 DEF InsertPending
  <2>5. KeyTypeOK'
    BY <1>0, <2>2, <2>4 DEF KeyTypeOK
  <2>6. \A d \in KeyCalls : ResetSawFailed(d)'
    BY <2>2 DEF KeyInv, ResetSawFailed
  <2>7. \A j \in Keys : Exclusive(j)'
    BY <1>0, <2>2, <2>4 DEF KeyInv, Exclusive
  <2>8. \A j \in Keys : Bookkept(j)'
    BY <1>0, <2>2, <2>4 DEF KeyInv, Bookkept
  <2> QED
    BY <2>5, <2>6, <2>7, <2>8 DEF KeyInv
<1> QED
  BY <1>1, <1>2
LEMMA MarkCompletedKeepsKeyInv ==
    ASSUME KeyInv, NEW c \in KeyCalls, MarkCompleted(c)
    PROVE  KeyInv'
<1> USE DEF Owns, Key
<1>0. keyCall[c].pc = "complete" /\ KeyTypeOK
  BY DEF MarkCompleted, At, KeyInv
<1>1. keyCall[c].key \in Keys
  BY <1>0, RunningCall DEF KeyTypeOK
<1>2. /\ keyCall' \in [KeyCalls -> KeyCall]
      /\ keyCall'[c].pc = "idle"
      /\ \A d \in KeyCalls \ {c} : keyCall'[d] = keyCall[d]
  BY <1>0, FinishMoves DEF MarkCompleted, KeyTypeOK
<1>3. /\ record' \in [Keys -> KeyRecord]
      /\ record'[keyCall[c].key].status = "completed"
      /\ \A k \in Keys \ {keyCall[c].key} : record'[k] = record[k]
  BY <1>0, <1>1, SetStatusWrites DEF MarkCompleted, KeyTypeOK, KeyStatus
<1>4. UNCHANGED <<effects, stale, unrecorded, abandoned>>
  BY DEF MarkCompleted
<1>7. KeyTypeOK'
  BY <1>0, <1>1, <1>2, <1>3, <1>4 DEF KeyTypeOK
<1>8. \A d \in KeyCalls : ResetSawFailed(d)'
  BY <1>0, <1>1, <1>2, <1>3, <1>4 DEF KeyInv, ResetSawFailed
<1>9. \A k \in Keys : Exclusive(k)'
  BY <1>0, <1>1, <1>2, <1>3, <1>4 DEF KeyInv, Exclusive, ResetSawFailed
<1>10. \A k \in Keys : Bookkept(k)'
  BY <1>0, <1>1, <1>2, <1>3, <1>4 DEF KeyInv, Exclusive, Bookkept, ResetSawFailed
<1> QED
  BY <1>7, <1>8, <1>9, <1>10 DEF KeyInv

LEMMA MarkFailedKeepsKeyInv ==
    ASSUME KeyInv, NEW c \in KeyCalls, MarkFailed(c)
    PROVE  KeyInv'
<1> USE DEF Owns, Key
<1>0. keyCall[c].pc = "fail" /\ KeyTypeOK
  BY DEF MarkFailed, At, KeyInv
<1>1. keyCall[c].key \in Keys
  BY <1>0, RunningCall DEF KeyTypeOK
<1>2. /\ keyCall' \in [KeyCalls -> KeyCall]
      /\ keyCall'[c].pc = "idle"
      /\ \A d \in KeyCalls \ {c} : keyCall'[d] = keyCall[d]
  BY <1>0, FinishMoves DEF MarkFailed, KeyTypeOK
<1>3. /\ record' \in [Keys -> KeyRecord]
      /\ record'[keyCall[c].key].status = "failed"
      /\ \A k \in Keys \ {keyCall[c].key} : record'[k] = record[k]
  BY <1>0, <1>1, SetStatusWrites DEF MarkFailed, KeyTypeOK, KeyStatus
<1>4. UNCHANGED <<effects, stale, unrecorded, abandoned>>
  BY DEF MarkFailed
<1>7. KeyTypeOK'
  BY <1>0, <1>1, <1>2, <1>3, <1>4 DEF KeyTypeOK
<1>8. \A d \in KeyCalls : ResetSawFailed(d)'
  BY <1>0, <1>1, <1>2, <1>3, <1>4 DEF KeyInv, ResetSawFailed
<1>9. \A k \in Keys : Exclusive(k)'
  BY <1>0, <1>1, <1>2, <1>3, <1>4 DEF KeyInv, Exclusive, ResetSawFailed
<1>10. \A k \in Keys : Bookkept(k)'
  BY <1>0, <1>1, <1>2, <1>3, <1>4 DEF KeyInv, Exclusive, Bookkept, ResetSawFailed
<1> QED
  BY <1>7, <1>8, <1>9, <1>10 DEF KeyInv

LEMMA CompletionFailsKeepsKeyInv ==
    ASSUME KeyInv, NEW c \in KeyCalls, CompletionFails(c)
    PROVE  KeyInv'
<1> USE DEF Owns, Key
<1>0. keyCall[c].pc = "complete" /\ KeyTypeOK
  BY DEF CompletionFails, At, KeyInv
<1>1. keyCall[c].key \in Keys
  BY <1>0, RunningCall DEF KeyTypeOK
<1>2. /\ keyCall' \in [KeyCalls -> KeyCall]
      /\ keyCall'[c].pc = "fail" /\ keyCall'[c].key = keyCall[c].key
      /\ keyCall'[c].seen = keyCall[c].seen
      /\ \A d \in KeyCalls \ {c} : keyCall'[d] = keyCall[d]
  BY <1>0, GoOnMoves DEF CompletionFails, KeyTypeOK
<1>3. unrecorded' = unrecorded \cup {keyCall[c].key}
  BY DEF CompletionFails
<1>4. UNCHANGED <<record, effects, stale, abandoned>>
  BY DEF CompletionFails
<1>7. KeyTypeOK'
  BY <1>0, <1>1, <1>2, <1>3, <1>4 DEF KeyTypeOK
<1>8. \A d \in KeyCalls : ResetSawFailed(d)'
  BY <1>0, <1>1, <1>2, <1>3, <1>4 DEF KeyInv, ResetSawFailed
<1>9. \A k \in Keys : Exclusive(k)'
  BY <1>0, <1>1, <1>2, <1>3, <1>4 DEF KeyInv, Exclusive, ResetSawFailed
<1>10. \A k \in Keys : Bookkept(k)'
  BY <1>0, <1>1, <1>2, <1>3, <1>4 DEF KeyInv, Exclusive, Bookkept, ResetSawFailed
<1> QED
  BY <1>7, <1>8, <1>9, <1>10 DEF KeyInv

LEMMA ResetToPendingKeepsKeyInv ==
    ASSUME KeyInv, NEW c \in KeyCalls, ResetToPending(c)
    PROVE  KeyInv'
<1> USE DEF Owns, Key
<1>0. keyCall[c].pc = "reset" /\ KeyTypeOK
  BY DEF ResetToPending, At, KeyInv
<1>1. keyCall[c].key \in Keys
  BY <1>0, RunningCall DEF KeyTypeOK
<1>2. /\ keyCall' \in [KeyCalls -> KeyCall]
      /\ keyCall'[c].pc = "run" /\ keyCall'[c].key = keyCall[c].key
      /\ keyCall'[c].seen = keyCall[c].seen
      /\ \A d \in KeyCalls \ {c} : keyCall'[d] = keyCall[d]
  BY <1>0, GoOnMoves DEF ResetToPending, KeyTypeOK
<1>3. /\ record' \in [Keys -> KeyRecord]
      /\ record'[keyCall[c].key].status = "pending"
      /\ \A k \in Keys \ {keyCall[c].key} : record'[k] = record[k]
  BY <1>0, <1>1, SetStatusWrites DEF ResetToPending, KeyTypeOK, KeyStatus
<1>4. UNCHANGED <<effects, unrecorded, abandoned>>
  BY DEF ResetToPending
<1>5. stale' = IF record[keyCall[c].key].status = keyCall[c].seen
                   THEN stale ELSE stale \cup {keyCall[c].key}
  BY DEF ResetToPending
<1>7. KeyTypeOK'
  BY <1>0, <1>1, <1>2, <1>3, <1>4, <1>5 DEF KeyTypeOK
<1>8. \A d \in KeyCalls : ResetSawFailed(d)'
  BY <1>0, <1>1, <1>2, <1>3, <1>4, <1>5 DEF KeyInv, ResetSawFailed
<1>9. \A k \in Keys : Exclusive(k)'
  BY <1>0, <1>1, <1>2, <1>3, <1>4, <1>5 DEF KeyInv, Exclusive, ResetSawFailed
<1>10. \A k \in Keys : Bookkept(k)'
  BY <1>0, <1>1, <1>2, <1>3, <1>4, <1>5 DEF KeyInv, Exclusive, Bookkept, ResetSawFailed
<1> QED
  BY <1>7, <1>8, <1>9, <1>10 DEF KeyInv

LEMMA DieKeepsKeyInv ==
    ASSUME KeyInv, NEW c \in KeyCalls, Die(c)
    PROVE  KeyInv'
<1> USE DEF Owns, Key
<1>0. keyCall[c].pc \in {"find", "reset", "run", "complete", "fail"} /\ KeyTypeOK
  BY DEF Die, At, KeyInv
<1>1. keyCall[c].key \in Keys
  BY <1>0, RunningCall DEF KeyTypeOK
<1>2. /\ keyCall' \in [KeyCalls -> KeyCall]
      /\ keyCall'[c].pc = "idle"
      /\ \A d \in KeyCalls \ {c} : keyCall'[d] = keyCall[d]
  BY <1>0, FinishMoves DEF Die, KeyTypeOK
<1>3. abandoned' = IF keyCall[c].pc \in {"find", "reset"}
                       THEN abandoned ELSE abandoned \cup {keyCall[c].key}
  BY DEF Die
<1>4. UNCHANGED <<record, effects, stale, unrecorded>>
  BY DEF Die
<1>7. KeyTypeOK'
  BY <1>0, <1>1, <1>2, <1>3, <1>4 DEF KeyTypeOK
<1>8. \A d \in KeyCalls : ResetSawFailed(d)'
  BY <1>0, <1>1, <1>2, <1>3, <1>4 DEF KeyInv, ResetSawFailed
<1>9. \A k \in Keys : Exclusive(k)'
  BY <1>0, <1>1, <1>2, <1>3, <1>4 DEF KeyInv, Exclusive, ResetSawFailed
<1>10. \A k \in Keys : Bookkept(k)'
  BY <1>0, <1>1, <1>2, <1>3, <1>4 DEF KeyInv, Exclusive, Bookkept, ResetSawFailed
<1> QED
  BY <1>7, <1>8, <1>9, <1>10 DEF KeyInv
LEMMA FindByKeyKeepsKeyInv ==
    ASSUME KeyInv, NEW c \in KeyCalls, FindByKey(c)
    PROVE  KeyInv'
<1> USE DEF Owns, Key
<1>0. keyCall[c].pc = "find" /\ KeyTypeOK
  BY DEF FindByKey, At, KeyInv
<1>1. keyCall[c] \in [pc : {"find", "reset", "run", "complete", "fail"},
                      key : Keys, payload : Payloads, seen : KeyStatus]
  BY <1>0, RunningCall DEF KeyTypeOK
<1>2. /\ keyCall' \in [KeyCalls -> KeyCall]
      /\ keyCall'[c].pc \in {"idle", "reset"}
      /\ keyCall'[c].pc = "reset" => keyCall'[c].seen = "failed"
      /\ \A d \in KeyCalls \ {c} : keyCall'[d] = keyCall[d]
  <2>1. CASE MayRunAgain(c)
    <3> DEFINE r == [keyCall[c] EXCEPT !.pc = "reset", !.seen = record[keyCall[c].key].status]
    <3>1. keyCall' = [keyCall EXCEPT ![c] = r]
      BY <2>1, <1>0, <1>1 DEF FindByKey, KeyTypeOK
    <3>2. record[keyCall[c].key].status = "failed"
      BY <2>1 DEF MayRunAgain
    <3>3. r \in KeyCall /\ r.pc = "reset" /\ r.seen = "failed"
      BY <1>1, <3>2 DEF KeyCall, KeyStatus
    <3> QED
      BY <1>0, <3>1, <3>3 DEF KeyTypeOK
  <2>2. CASE ~MayRunAgain(c)
    BY <2>2, <1>0, FinishMoves DEF FindByKey, KeyTypeOK
  <2> QED
    BY <2>1, <2>2
<1>4. UNCHANGED <<record, effects, stale, unrecorded, abandoned>>
  BY DEF FindByKey
<1>7. KeyTypeOK'
  BY <1>0, <1>2, <1>4 DEF KeyTypeOK
<1>8. \A d \in KeyCalls : ResetSawFailed(d)'
  BY <1>2 DEF KeyInv, ResetSawFailed
<1>9. \A k \in Keys : Exclusive(k)'
  BY <1>0, <1>2, <1>4 DEF KeyInv, Exclusive
<1>10. \A k \in Keys : Bookkept(k)'
  BY <1>0, <1>2, <1>4 DEF KeyInv, Bookkept
<1> QED
  BY <1>7, <1>8, <1>9, <1>10 DEF KeyInv

LEMMA HandleKeepsKeyInv ==
    ASSUME KeyInv, NEW c \in KeyCalls, Handle(c)
    PROVE  KeyInv'
<1> USE DEF Owns, Key
<1>0. keyCall[c].pc = "run" /\ KeyTypeOK
  BY DEF Handle, At, KeyInv
<1>1. keyCall[c].key \in Keys
  BY <1>0, RunningCall DEF KeyTypeOK
<1>2. UNCHANGED <<record, stale, abandoned>>
  BY DEF Handle
<1> DEFINE Keeps(pc) ==
      /\ keyCall' \in [KeyCalls -> KeyCall]
      /\ keyCall'[c].pc = pc /\ keyCall'[c].key = keyCall[c].key
      /\ \A d \in KeyCalls \ {c} : keyCall'[d] = keyCall[d]
<1>3. CASE /\ effects' = [effects EXCEPT ![keyCall[c].key] = @ + 1]
           /\ GoOn(c, "complete") /\ UNCHANGED unrecorded
  <2>1. Keeps("complete")
    BY <1>0, <1>3, GoOnMoves DEF KeyTypeOK
  <2>2. /\ effects' \in [Keys -> Nat] /\ effects'[keyCall[c].key] = effects[keyCall[c].key] + 1
        /\ \A k \in Keys \ {keyCall[c].key} : effects'[k] = effects[k]
    BY <1>0, <1>1, <1>3 DEF KeyTypeOK
  <2>7. KeyTypeOK'
    BY <1>0, <1>2, <1>3, <2>1, <2>2 DEF KeyTypeOK
  <2>8. \A d \in KeyCalls : ResetSawFailed(d)'
    BY <2>1 DEF KeyInv, ResetSawFailed
  <2>9. \A k \in Keys : Exclusive(k)'
    BY <1>0, <1>2, <2>1 DEF KeyInv, Exclusive
  <2>10. \A k \in Keys : Bookkept(k)'
    BY <1>0, <1>1, <1>2, <1>3, <2>1, <2>2 DEF KeyInv, Exclusive, Bookkept, KeyTypeOK
  <2> QED
    BY <2>7, <2>8, <2>9, <2>10 DEF KeyInv
<1>4. CASE /\ effects' = [effects EXCEPT ![keyCall[c].key] = @ + 1]
           /\ GoOn(c, "fail") /\ unrecorded' = unrecorded \cup {keyCall[c].key}
  <2>1. Keeps("fail")
    BY <1>0, <1>4, GoOnMoves DEF KeyTypeOK
  <2>2. /\ effects' \in [Keys -> Nat] /\ effects'[keyCall[c].key] = effects[keyCall[c].key] + 1
        /\ \A k \in Keys \ {keyCall[c].key} : effects'[k] = effects[k]
    BY <1>0, <1>1, <1>4 DEF KeyTypeOK
  <2>7. KeyTypeOK'
    BY <1>0, <1>1, <1>2, <1>4, <2>1, <2>2 DEF KeyTypeOK
  <2>8. \A d \in KeyCalls : ResetSawFailed(d)'
    BY <2>1 DEF KeyInv, ResetSawFailed
  <2>9. \A k \in Keys : Exclusive(k)'
    BY <1>0, <1>2, <2>1 DEF KeyInv, Exclusive
  <2>10. \A k \in Keys : Bookkept(k)'
    BY <1>0, <1>1, <1>2, <1>4, <2>1, <2>2 DEF KeyInv, Exclusive, Bookkept, KeyTypeOK
  <2> QED
    BY <2>7, <2>8, <2>9, <2>10 DEF KeyInv
<1>5. CASE GoOn(c, "fail") /\ UNCHANGED <<effects, unrecorded>>
  <2>1. Keeps("fail")
    BY <1>0, <1>5, GoOnMoves DEF KeyTypeOK
  <2>7. KeyTypeOK'
    BY <1>0, <1>2, <1>5, <2>1 DEF KeyTypeOK
  <2>8. \A d \in KeyCalls : ResetSawFailed(d)'
    BY <2>1 DEF KeyInv, ResetSawFailed
  <2>9. \A k \in Keys : Exclusive(k)'
    BY <1>0, <1>2, <2>1 DEF KeyInv, Exclusive
  <2>10. \A k \in Keys : Bookkept(k)'
    BY <1>0, <1>2, <1>5, <2>1 DEF KeyInv, Bookkept
  <2> QED
    BY <2>7, <2>8, <2>9, <2>10 DEF KeyInv
<1> QED
  BY <1>3, <1>4, <1>5 DEF Handle

LEMMA StutterKeepsKeyInv == KeyInv /\ UNCHANGED keyVars => KeyInv'
BY DEF keyVars, KeyInv, KeyTypeOK, ResetSawFailed, Exclusive, Bookkept, Owns, Key

LEMMA StepKeepsKeyInv == KeyInv /\ [KeyNext]_keyVars => KeyInv'
<1> SUFFICES ASSUME KeyInv, [KeyNext]_keyVars PROVE KeyInv'
  OBVIOUS
<1>1. ASSUME NEW c \in KeyCalls, NEW k \in Keys, NEW p \in Payloads, InsertPending(c, k, p)
      PROVE  KeyInv'
  BY <1>1, InsertPendingKeepsKeyInv
<1>2. ASSUME NEW c \in KeyCalls, FindByKey(c) PROVE KeyInv'
  BY <1>2, FindByKeyKeepsKeyInv
<1>3. ASSUME NEW c \in KeyCalls, ResetToPending(c) PROVE KeyInv'
  BY <1>3, ResetToPendingKeepsKeyInv
<1>4. ASSUME NEW c \in KeyCalls, Handle(c) PROVE KeyInv'
  BY <1>4, HandleKeepsKeyInv
<1>5. ASSUME NEW c \in KeyCalls, MarkCompleted(c) PROVE KeyInv'
  BY <1>5, MarkCompletedKeepsKeyInv
<1>6. ASSUME NEW c \in KeyCalls, CompletionFails(c) PROVE KeyInv'
  BY <1>6, CompletionFailsKeepsKeyInv
<1>7. ASSUME NEW c \in KeyCalls, MarkFailed(c) PROVE KeyInv'
  BY <1>7, MarkFailedKeepsKeyInv
<1>8. ASSUME NEW c \in KeyCalls, Die(c) PROVE KeyInv'
  BY <1>8, DieKeepsKeyInv
<1> QED
  BY <1>1, <1>2, <1>3, <1>4, <1>5, <1>6, <1>7, <1>8, StutterKeepsKeyInv DEF KeyNext

-----------------------------------------------------------------------------
(***************************************************************************)
(* The theorems about keys.                                                *)
(***************************************************************************)

\* The inductive invariant: who owns a key, and what it says of the handler's
\* effect, whatever clients send, in whatever order, and whichever calls die.
THEOREM KeyInvariant == KeySpec => []KeyInv
BY InitKeyInv, StepKeepsKeyInv, PTL DEF KeySpec

\* IdempotencyInterceptor: however often and concurrently a request is sent, its
\* handler takes effect once, unless two retries of a failed call both reset the
\* record or a call failed after its effect.
THEOREM HandlersTakeEffectOnce == KeySpec => []TakesEffectOnce
<1>1. KeyInv => TakesEffectOnce
  BY DEF KeyInv, Bookkept, TakesEffectOnce
<1> QED
  BY <1>1, KeyInvariant, PTL

\* IdempotencyService: a key that turns retries away (IDEMPOTENCY_IN_PROGRESS)
\* has one call at work on it, unless its call died or two retries reset it.
THEOREM PendingKeysAreOwned == KeySpec => []PendingIsOwned
<1>1. KeyInv => PendingIsOwned
  <2> SUFFICES ASSUME KeyInv, NEW k \in Keys, k \notin stale \cup abandoned
               PROVE  Cardinality(Owners(k)) = IF record[k].status = "pending" THEN 1 ELSE 0
    BY DEF PendingIsOwned
  <2>0. Exclusive(k)
    BY DEF KeyInv
  <2>1. CASE record[k].status = "pending"
    <3>1. PICK c \in KeyCalls : Owns(c, k)
      BY <2>0, <2>1 DEF Exclusive
    <3>2. Owners(k) = {c}
      BY <2>0, <3>1 DEF Exclusive, Owners, Owns
    <3> QED
      BY <2>1, <3>2, FS_Singleton
  <2>2. CASE record[k].status # "pending"
    <3>1. Owners(k) = {}
      BY <2>0, <2>2 DEF Exclusive, Owners, Owns
    <3> QED
      BY <2>2, <3>1, FS_EmptySet
  <2> QED
    BY <2>1, <2>2
<1> QED
  BY <1>1, KeyInvariant, PTL
-----------------------------------------------------------------------------
(***************************************************************************)
(* The composition: whichever component a behaviour runs, each of the four *)
(* behaves as its own specification says, so that what is proved of each   *)
(* of them holds of all of them together.                                  *)
(***************************************************************************)

\* A step of one scene is a step of its component, and of no other.
LEMMA StepOfOne ==
    ASSUME [Next]_<<scene, payrollVars, assetVars, tokenVars, keyVars>>
    PROVE  /\ [PayrollNext]_payrollVars /\ [AssetNext]_assetVars
           /\ [TokenNext]_tokenVars /\ [KeyNext]_keyVars
<1>1. CASE scene = "payroll" /\ PayrollNext /\ UNCHANGED <<assetVars, tokenVars, keyVars>>
  BY <1>1
<1>2. CASE scene = "stock" /\ StockNext /\ UNCHANGED <<payrollVars, tokenVars, keyVars>>
  BY <1>2 DEF AssetNext
<1>3. CASE /\ scene = "requests"
           /\ \/ RequestNext
              \/ \E q \in Quantities : MoveStock(q)
              \/ \E c \in AssetCalls : FindAsset(c) \/ WriteIssue(c) \/ Drop(c)
           /\ UNCHANGED <<payrollVars, tokenVars, keyVars>>
  <2>1. AssetNext
    BY <1>3 DEF AssetNext, StockNext
  <2> QED BY <1>3, <2>1
<1>4. CASE scene = "sessions" /\ TokenNext /\ UNCHANGED <<payrollVars, assetVars, keyVars>>
  BY <1>4
<1>5. CASE scene = "keys" /\ KeyNext /\ UNCHANGED <<payrollVars, assetVars, tokenVars>>
  BY <1>5
<1>6. CASE UNCHANGED <<scene, payrollVars, assetVars, tokenVars, keyVars>>
  BY <1>6
<1> QED BY <1>1, <1>2, <1>3, <1>4, <1>5, <1>6 DEF Next

\* Payroll runs, asset issues, sessions and idempotency keys do not disturb one
\* another: they share no row, and no scene allows a step that the component
\* alone would not.
THEOREM ComponentsAreIndependent ==
    Spec => PayrollSpec /\ AssetSpec /\ TokenSpec /\ KeySpec
<1>1. Init => PayrollInit /\ AssetInit /\ TokenInit /\ KeyInit
  BY DEF Init
<1>2. [Next]_<<scene, payrollVars, assetVars, tokenVars, keyVars>> =>
          /\ [PayrollNext]_payrollVars /\ [AssetNext]_assetVars
          /\ [TokenNext]_tokenVars /\ [KeyNext]_keyVars
  BY StepOfOne
<1> QED BY <1>1, <1>2, PTL DEF Spec, PayrollSpec, AssetSpec, TokenSpec, KeySpec

\* TypeOK of the composition: the rows of whichever component runs are of their
\* types.
THEOREM BackOfficeTypes == Spec => []TypeOK
<1>1. Init => scene \in Scenes
  BY DEF Init
<1>2. scene \in Scenes /\ [Next]_<<scene, payrollVars, assetVars, tokenVars, keyVars>>
          => (scene \in Scenes)'
  BY DEF Next
<1>3. /\ scene \in Scenes /\ PayrollInv /\ AssetTypeOK /\ TokenInv /\ KeyInv
      => TypeOK
  BY DEF TypeOK, PayrollInv, TokenInv, KeyInv
<1> QED
  BY <1>1, <1>2, <1>3, ComponentsAreIndependent, PayrollInvariant, AssetTypeCorrect,
     TokenInvariant, KeyInvariant, PTL DEF Spec

\* Every invariant of the four components holds when they are put together, and
\* an approved run stays frozen.
THEOREM BackOfficeIsSafe ==
    Spec => /\ [](SegregationOfDuties /\ PostedIsTraceable /\ PublishedOnce)
            /\ [](StockAccounts /\ OneHolder /\ RequestsHonoured)
            /\ [](StaysSignedIn /\ SessionsDoNotMultiply)
            /\ [](TakesEffectOnce /\ PendingIsOwned)
            /\ ApprovedIsFrozen
BY ComponentsAreIndependent, DutiesAreSegregated, PostingsAreTraceable, PayslipsGoOutOnce,
   StockAlwaysAccounts, AssetHasOneHolder, RequestsAreHonoured, BrowsersStaySignedIn,
   SessionsStayFew, HandlersTakeEffectOnce, PendingKeysAreOwned, ApprovalsAreFrozen, PTL
=============================================================================
