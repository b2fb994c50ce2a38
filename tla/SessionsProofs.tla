--------------------------- MODULE SessionsProofs ---------------------------
(***************************************************************************)
(* Theorems about module Sessions, for any users, browsers and calls and   *)
(* any lifetimes of the tokens.  The inductive invariant says whose token  *)
(* a call has signed at each of its steps, what a renewal has in common    *)
(* with its browser, and how many sessions a user can have while a login   *)
(* is between its two statements on the table.                             *)
(***************************************************************************)
EXTENDS Sessions, FiniteSetTheorems, TLAPS

-----------------------------------------------------------------------------
(* The inductive invariant, in parts.                                      *)

(* A call that has signed tokens for a login has signed them for the user  *)
(* whose password it sent.                                                 *)
SignedFor ==
    \A c \in Calls : pc[c] \in {"delete", "create", "answer"} =>
        fresh[c] \in Tokens /\ fresh[c].sub = For[c]

(* A renewal that got past the lookup has a refresh token, and what it has *)
(* signed is the same user's; unless the browser was signed in or out      *)
(* meanwhile, the refresh token is the one the browser has.                *)
RenewalFits ==
    \A c \in Calls :
        /\ pc[c] \in {"issue", "renewal"} => cookies[c].refresh \in Tokens
        /\ pc[c] = "renewal" => fresh[c].sub = cookies[c].refresh.sub
        /\ pc[c] \in Renewing /\ From[c] \notin raced =>
              cookies[c].refresh = jar[From[c]].refresh

(* While no command failed and no two logins of the user crossed: at most  *)
(* one login is between its DELETE and its INSERT, the user has no session *)
(* then, and never two.                                                    *)
Undisturbed(u) == faults = 0 /\ u \notin crossed

SessionsFit ==
    \A u \in Users : Undisturbed(u) =>
        /\ \A c, d \in Calls : pc[c] = "create" /\ For[c] = u /\ pc[d] = "create" /\ For[d] = u
                                 => c = d
        /\ \A c \in Calls : pc[c] = "create" /\ For[c] = u => Live(u) = {}
        /\ \A s, t \in Live(u) : s = t

IInv ==
    /\ TypeOK
    /\ SignedFor
    /\ RenewalFits
    /\ SessionsFit
    /\ CookiesAgree

(* What a token and a pair of cookies are made of.                         *)
LEMMA TokenFacts ==
    ASSUME TypeOK
    PROVE  /\ now \in Nat
           /\ \A u \in Users : Signed(u) \in Tokens /\ Signed(u).sub = u /\ Signed(u).iat = now
           /\ \A t \in Tokens : t.sub \in Users
           /\ NoToken.iat = 0
           /\ NoCookies \in [access : Tokens \cup {NoToken}, refresh : Tokens \cup {NoToken}]
           /\ NoCookies.access = NoToken /\ NoCookies.refresh = NoToken
BY LifetimeAssumption DEF TypeOK, Tokens, Signed, NoToken, NoCookies

(* The browser sends the call.                                             *)
LEMMA SendKeeps ==
    ASSUME IInv, NEW c \in Calls, Send(c), UNCHANGED now
    PROVE  IInv'
<1> USE CallAssumption DEF IInv, Send, At, store, call
<1>1. TypeOK'
  <2>1. pc' \in [Calls -> Renewing \cup
                        {"idle", "logout", "api", "setIdle", "delete", "create", "answer",
                         "revoked", "handle", "done", "loginPage"}]
    BY DEF TypeOK, Renewing
  <2>2. cookies' \in [Calls -> [access : Tokens \cup {NoToken}, refresh : Tokens \cup {NoToken}]]
    BY TokenFacts DEF TypeOK
  <2> QED BY <2>1, <2>2 DEF TypeOK
<1>2. SignedFor'
  BY LifetimeAssumption DEF TypeOK, SignedFor, Signed, Tokens
<1>3. RenewalFits'
  BY LifetimeAssumption DEF TypeOK, RenewalFits, Renewing, Signed, Tokens
<1>4. SessionsFit'
  BY DEF TypeOK, SessionsFit, Undisturbed, Live, Tokens, SignedFor
<1>5. CookiesAgree'
  BY DEF TypeOK, CookiesAgree, RenewalFits, Renewing, NoCookies
<1> QED BY <1>1, <1>2, <1>3, <1>4, <1>5

(* The user's row is created.                                              *)
LEMMA CreateUserKeeps ==
    ASSUME IInv, NEW c \in Calls, CreateUser(c), UNCHANGED now
    PROVE  IInv'
<1> USE CallAssumption DEF IInv, CreateUser, At, store, call
<1>1. TypeOK'
  BY DEF TypeOK, Renewing
<1>2. SignedFor'
  BY LifetimeAssumption DEF TypeOK, SignedFor, Signed, Tokens
<1>3. RenewalFits'
  BY LifetimeAssumption DEF TypeOK, RenewalFits, Renewing, Signed, Tokens
<1>4. SessionsFit'
  BY DEF TypeOK, SessionsFit, Undisturbed, Live, Tokens, SignedFor
<1>5. CookiesAgree'
  BY DEF TypeOK, CookiesAgree, RenewalFits, Renewing, NoCookies
<1> QED BY <1>1, <1>2, <1>3, <1>4, <1>5

(* The tokens of a signup are signed.                                      *)
LEMMA SetIdleKeeps ==
    ASSUME IInv, NEW c \in Calls, SetIdle(c), UNCHANGED now
    PROVE  IInv'
<1> USE CallAssumption DEF IInv, SetIdle, SignTokens, At, store, call
<1>1. TypeOK'
  <2>1. pc' \in [Calls -> Renewing \cup
                        {"idle", "logout", "api", "setIdle", "delete", "create", "answer",
                         "revoked", "handle", "done", "loginPage"}]
    BY DEF TypeOK, Renewing
  <2>2. fresh' \in [Calls -> Tokens \cup {NoToken}]
    BY TokenFacts DEF TypeOK, RenewalFits
  <2>3. \A d \in Calls : fresh'[d].iat <= now'
    <3>1. fresh'[c] = Signed(For[c]) /\ For[c] \in Users
      BY DEF TypeOK
    <3> QED BY <3>1, TokenFacts DEF TypeOK
  <2> QED BY <2>1, <2>2, <2>3 DEF TypeOK
<1>2. SignedFor'
  BY LifetimeAssumption DEF TypeOK, SignedFor, Signed, Tokens
<1>3. RenewalFits'
  BY LifetimeAssumption DEF TypeOK, RenewalFits, Renewing, Signed, Tokens
<1>4. SessionsFit'
  BY DEF TypeOK, SessionsFit, Undisturbed, Live, Tokens, SignedFor
<1>5. CookiesAgree'
  BY DEF TypeOK, CookiesAgree, RenewalFits, Renewing, NoCookies
<1> QED BY <1>1, <1>2, <1>3, <1>4, <1>5

(* The tokens of a login are signed.                                       *)
LEMMA CheckPasswordKeeps ==
    ASSUME IInv, NEW c \in Calls, CheckPassword(c), UNCHANGED now
    PROVE  IInv'
<1> USE CallAssumption DEF IInv, CheckPassword, SignTokens, At, store, call
<1>1. TypeOK'
  <2>1. pc' \in [Calls -> Renewing \cup
                        {"idle", "logout", "api", "setIdle", "delete", "create", "answer",
                         "revoked", "handle", "done", "loginPage"}]
    BY DEF TypeOK, Renewing
  <2>2. fresh' \in [Calls -> Tokens \cup {NoToken}]
    BY TokenFacts DEF TypeOK, RenewalFits
  <2>3. \A d \in Calls : fresh'[d].iat <= now'
    <3>1. fresh'[c] = Signed(For[c]) /\ For[c] \in Users
      BY DEF TypeOK
    <3> QED BY <3>1, TokenFacts DEF TypeOK
  <2> QED BY <2>1, <2>2, <2>3 DEF TypeOK
<1>2. SignedFor'
  BY LifetimeAssumption DEF TypeOK, SignedFor, Signed, Tokens
<1>3. RenewalFits'
  BY LifetimeAssumption DEF TypeOK, RenewalFits, Renewing, Signed, Tokens
<1>4. SessionsFit'
  BY DEF TypeOK, SessionsFit, Undisturbed, Live, Tokens, SignedFor
<1>5. CookiesAgree'
  BY DEF TypeOK, CookiesAgree, RenewalFits, Renewing, NoCookies
<1> QED BY <1>1, <1>2, <1>3, <1>4, <1>5

(* The login deletes the sessions of its user.                             *)
LEMMA DeleteSessionsKeeps ==
    ASSUME IInv, NEW c \in Calls, DeleteSessions(c), UNCHANGED now
    PROVE  IInv'
<1> USE CallAssumption DEF IInv, DeleteSessions, Superseded, At, store, call
<1>1. TypeOK'
  <2>1. pc' \in [Calls -> Renewing \cup
                        {"idle", "logout", "api", "setIdle", "delete", "create", "answer",
                         "revoked", "handle", "done", "loginPage"}]
    BY DEF TypeOK, Renewing
  <2>2. table' \in [Tokens -> {"none", "live", "deleted"}]
    BY DEF TypeOK
  <2>3. crossed' \subseteq Users /\ raced' \subseteq Browsers /\ renewed' \subseteq Calls
    BY DEF TypeOK
  <2> QED BY <2>1, <2>2, <2>3 DEF TypeOK
<1>2. SignedFor'
  BY LifetimeAssumption DEF TypeOK, SignedFor, Signed, Tokens
<1>3. RenewalFits'
  BY LifetimeAssumption DEF TypeOK, RenewalFits, Renewing, Signed, Tokens
<1>4. SessionsFit'
  BY DEF TypeOK, SessionsFit, Undisturbed, Live, Tokens, SignedFor
<1>5. CookiesAgree'
  BY DEF TypeOK, CookiesAgree, RenewalFits, Renewing, NoCookies
<1> QED BY <1>1, <1>2, <1>3, <1>4, <1>5

(* The login inserts its session.                                          *)
LEMMA CreateSessionKeeps ==
    ASSUME IInv, NEW c \in Calls, CreateSession(c), UNCHANGED now
    PROVE  IInv'
<1> USE CallAssumption DEF IInv, CreateSession, Insertable, At, store, call
<1>1. TypeOK'
  BY DEF TypeOK, Renewing
<1>2. SignedFor'
  BY LifetimeAssumption DEF TypeOK, SignedFor, Signed, Tokens
<1>3. RenewalFits'
  BY LifetimeAssumption DEF TypeOK, RenewalFits, Renewing, Signed, Tokens
<1>4. SessionsFit'
  <2>1. CASE ~Insertable(fresh[c])
    BY <2>1 DEF TypeOK, SessionsFit, Undisturbed, Live, Insertable
  <2>2. CASE Insertable(fresh[c])
    <3>1. fresh[c] \in Tokens /\ fresh[c].sub = For[c] /\ table' = [table EXCEPT ![fresh[c]] = "live"]
      BY <2>2 DEF SignedFor
    <3>2. Live(For[c])' = Live(For[c]) \cup {fresh[c]}
      BY <3>1 DEF TypeOK, Live
    <3>3. \A u \in Users \ {For[c]} : Live(u)' = Live(u)
      BY <3>1 DEF TypeOK, Live
    <3>4. \A d \in Calls : pc'[d] = "create" => pc[d] = "create" /\ d # c
      BY DEF TypeOK
    <3>5. \A u \in Users : Undisturbed(u)' => Undisturbed(u)
      BY DEF Undisturbed
    <3>6. Undisturbed(For[c]) => Live(For[c]) = {}
      BY DEF SessionsFit
    <3> SUFFICES ASSUME NEW u \in Users, Undisturbed(u)'
                 PROVE  /\ \A d, e \in Calls :
                              pc'[d] = "create" /\ For[d] = u /\ pc'[e] = "create" /\ For[e] = u
                                => d = e
                        /\ \A d \in Calls : pc'[d] = "create" /\ For[d] = u => Live(u)' = {}
                        /\ \A s, t \in Live(u)' : s = t
      BY DEF SessionsFit
    <3>7. Undisturbed(u)
      BY <3>5
    <3>8. \A d \in Calls : pc'[d] = "create" => For[d] # u \/ For[c] # u
      BY <3>4, <3>7 DEF SessionsFit
    <3>9. CASE u = For[c]
      <4>1. Live(u)' = {fresh[c]}
        BY <3>2, <3>6, <3>7, <3>9
      <4> QED BY <4>1, <3>8, <3>9
    <3>10. CASE u # For[c]
      <4>1. Live(u)' = Live(u)
        BY <3>3, <3>10
      <4> QED BY <4>1, <3>4, <3>7 DEF SessionsFit
    <3> QED BY <3>9, <3>10
  <2> QED BY <2>1, <2>2
<1>5. CookiesAgree'
  BY DEF TypeOK, CookiesAgree, RenewalFits, Renewing, NoCookies
<1> QED BY <1>1, <1>2, <1>3, <1>4, <1>5

(* The answer of a login sets the cookies.                                 *)
LEMMA SignedInKeeps ==
    ASSUME IInv, NEW c \in Calls, SignedIn(c), UNCHANGED now
    PROVE  IInv'
<1> USE CallAssumption DEF IInv, SignedIn, Ends, SetCookies, At, store, call
<1>1. TypeOK'
  <2>1. pc' \in [Calls -> Renewing \cup
                        {"idle", "logout", "api", "setIdle", "delete", "create", "answer",
                         "revoked", "handle", "done", "loginPage"}]
    BY DEF TypeOK, Renewing
  <2>2. crossed' \subseteq Users /\ raced' \subseteq Browsers /\ renewed' \subseteq Calls
    BY DEF TypeOK
  <2>3. jar' \in [Browsers -> [access : Tokens \cup {NoToken}, refresh : Tokens \cup {NoToken}]]
    BY TokenFacts DEF TypeOK
  <2>4. cookies' \in [Calls -> [access : Tokens \cup {NoToken}, refresh : Tokens \cup {NoToken}]]
    BY TokenFacts DEF TypeOK
  <2>5. fresh' \in [Calls -> Tokens \cup {NoToken}]
    BY TokenFacts DEF TypeOK, RenewalFits
  <2>6. \A d \in Calls : fresh'[d].iat <= now'
    BY TokenFacts DEF TypeOK
  <2> QED BY <2>1, <2>2, <2>3, <2>4, <2>5, <2>6 DEF TypeOK
<1>2. SignedFor'
  BY LifetimeAssumption DEF TypeOK, SignedFor, Signed, Tokens
<1>3. RenewalFits'
  BY LifetimeAssumption DEF TypeOK, RenewalFits, Renewing, Signed, Tokens
<1>4. SessionsFit'
  BY DEF TypeOK, SessionsFit, Undisturbed, Live, Tokens, SignedFor
<1>5. CookiesAgree'
  BY DEF TypeOK, CookiesAgree, RenewalFits, Renewing, NoCookies
<1> QED BY <1>1, <1>2, <1>3, <1>4, <1>5

(* The logout deletes the session of its cookie.                           *)
LEMMA RevokeKeeps ==
    ASSUME IInv, NEW c \in Calls, Revoke(c), UNCHANGED now
    PROVE  IInv'
<1> USE CallAssumption DEF IInv, Revoke, At, store, call
<1>1. TypeOK'
  BY DEF TypeOK, Renewing
<1>2. SignedFor'
  BY LifetimeAssumption DEF TypeOK, SignedFor, Signed, Tokens
<1>3. RenewalFits'
  BY LifetimeAssumption DEF TypeOK, RenewalFits, Renewing, Signed, Tokens
<1>4. SessionsFit'
  BY DEF TypeOK, SessionsFit, Undisturbed, Live, Tokens, SignedFor
<1>5. CookiesAgree'
  BY DEF TypeOK, CookiesAgree, RenewalFits, Renewing, NoCookies
<1> QED BY <1>1, <1>2, <1>3, <1>4, <1>5

(* The answer of a logout clears the cookies.                              *)
LEMMA SignedOutKeeps ==
    ASSUME IInv, NEW c \in Calls, SignedOut(c), UNCHANGED now
    PROVE  IInv'
<1> USE CallAssumption DEF IInv, SignedOut, Ends, SetCookies, Cleared, At, store, call
<1>1. TypeOK'
  <2>1. pc' \in [Calls -> Renewing \cup
                        {"idle", "logout", "api", "setIdle", "delete", "create", "answer",
                         "revoked", "handle", "done", "loginPage"}]
    BY DEF TypeOK, Renewing
  <2>2. crossed' \subseteq Users /\ raced' \subseteq Browsers /\ renewed' \subseteq Calls
    BY DEF TypeOK
  <2>3. jar' \in [Browsers -> [access : Tokens \cup {NoToken}, refresh : Tokens \cup {NoToken}]]
    BY TokenFacts DEF TypeOK
  <2>4. cookies' \in [Calls -> [access : Tokens \cup {NoToken}, refresh : Tokens \cup {NoToken}]]
    BY TokenFacts DEF TypeOK
  <2>5. fresh' \in [Calls -> Tokens \cup {NoToken}]
    BY TokenFacts DEF TypeOK, RenewalFits
  <2>6. \A d \in Calls : fresh'[d].iat <= now'
    BY TokenFacts DEF TypeOK
  <2> QED BY <2>1, <2>2, <2>3, <2>4, <2>5, <2>6 DEF TypeOK
<1>2. SignedFor'
  BY LifetimeAssumption DEF TypeOK, SignedFor, Signed, Tokens
<1>3. RenewalFits'
  BY LifetimeAssumption DEF TypeOK, RenewalFits, Renewing, Signed, Tokens
<1>4. SessionsFit'
  BY DEF TypeOK, SessionsFit, Undisturbed, Live, Tokens, SignedFor
<1>5. CookiesAgree'
  BY DEF TypeOK, CookiesAgree, RenewalFits, Renewing, NoCookies
<1> QED BY <1>1, <1>2, <1>3, <1>4, <1>5

(* The middleware.                                                         *)
LEMMA AuthenticateKeeps ==
    ASSUME IInv, NEW c \in Calls, Authenticate(c), UNCHANGED now
    PROVE  IInv'
<1> USE CallAssumption DEF IInv, Authenticate, AskRenewal, Ends, At, store, call
<1>1. TypeOK'
  <2>1. pc' \in [Calls -> Renewing \cup
                        {"idle", "logout", "api", "setIdle", "delete", "create", "answer",
                         "revoked", "handle", "done", "loginPage"}]
    BY DEF TypeOK, Renewing
  <2>2. crossed' \subseteq Users /\ raced' \subseteq Browsers /\ renewed' \subseteq Calls
    BY DEF TypeOK
  <2>3. cookies' \in [Calls -> [access : Tokens \cup {NoToken}, refresh : Tokens \cup {NoToken}]]
    <3>1. CASE Valid(cookies[c].access, AccessTTL)
      BY <3>1 DEF TypeOK
    <3>2. CASE ~Valid(cookies[c].access, AccessTTL)
      BY <3>2, TokenFacts DEF TypeOK
    <3> QED BY <3>1, <3>2
  <2>4. fresh' \in [Calls -> Tokens \cup {NoToken}]
    BY TokenFacts DEF TypeOK, RenewalFits
  <2>5. \A d \in Calls : fresh'[d].iat <= now'
    BY TokenFacts DEF TypeOK
  <2> QED BY <2>1, <2>2, <2>3, <2>4, <2>5 DEF TypeOK
<1>2. SignedFor'
  BY LifetimeAssumption DEF TypeOK, SignedFor, Signed, Tokens
<1>3. RenewalFits'
  BY LifetimeAssumption DEF TypeOK, RenewalFits, Renewing, Signed, Tokens
<1>4. SessionsFit'
  BY DEF TypeOK, SessionsFit, Undisturbed, Live, Tokens, SignedFor
<1>5. CookiesAgree'
  BY DEF TypeOK, CookiesAgree, RenewalFits, Renewing, NoCookies
<1> QED BY <1>1, <1>2, <1>3, <1>4, <1>5

(* A page is opened.                                                       *)
LEMMA OpenPageKeeps ==
    ASSUME IInv, NEW c \in Calls, OpenPage(c), UNCHANGED now
    PROVE  IInv'
<1> USE CallAssumption DEF IInv, OpenPage, At, store, call
<1>1. TypeOK'
  BY DEF TypeOK, Renewing
<1>2. SignedFor'
  BY LifetimeAssumption DEF TypeOK, SignedFor, Signed, Tokens
<1>3. RenewalFits'
  BY LifetimeAssumption DEF TypeOK, RenewalFits, Renewing, Signed, Tokens
<1>4. SessionsFit'
  BY DEF TypeOK, SessionsFit, Undisturbed, Live, Tokens, SignedFor
<1>5. CookiesAgree'
  BY DEF TypeOK, CookiesAgree, RenewalFits, Renewing, NoCookies
<1> QED BY <1>1, <1>2, <1>3, <1>4, <1>5

(* The second parse of the token.                                          *)
LEMMA HandleKeeps ==
    ASSUME IInv, NEW c \in Calls, Handle(c), UNCHANGED now
    PROVE  IInv'
<1> USE CallAssumption DEF IInv, Handle, AskRenewal, Ends, At, store, call
<1>1. TypeOK'
  <2>1. pc' \in [Calls -> Renewing \cup
                        {"idle", "logout", "api", "setIdle", "delete", "create", "answer",
                         "revoked", "handle", "done", "loginPage"}]
    BY DEF TypeOK, Renewing
  <2>2. crossed' \subseteq Users /\ raced' \subseteq Browsers /\ renewed' \subseteq Calls
    BY DEF TypeOK
  <2>3. cookies' \in [Calls -> [access : Tokens \cup {NoToken}, refresh : Tokens \cup {NoToken}]]
    <3>1. CASE Valid(cookies[c].access, AccessTTL)
      BY <3>1, TokenFacts DEF TypeOK
    <3>2. CASE ~Valid(cookies[c].access, AccessTTL)
      BY <3>2, TokenFacts DEF TypeOK
    <3> QED BY <3>1, <3>2
  <2>4. fresh' \in [Calls -> Tokens \cup {NoToken}]
    BY TokenFacts DEF TypeOK, RenewalFits
  <2>5. \A d \in Calls : fresh'[d].iat <= now'
    <3>1. \A d \in Calls : fresh'[d] = fresh[d] \/ fresh'[d] = NoToken
      BY DEF TypeOK
    <3>2. now' = now /\ NoToken.iat <= now /\ \A d \in Calls : fresh[d].iat <= now
      BY TokenFacts DEF TypeOK
    <3> HIDE DEF Handle, IInv
    <3> QED BY <3>1, <3>2
  <2>6. UNCHANGED <<now, users, table, jar, faults>>
    OBVIOUS
  <2> HIDE DEF Handle, IInv
  <2>7. TypeOK
    BY DEF IInv
  <2> QED BY <2>1, <2>2, <2>3, <2>4, <2>5, <2>6, <2>7 DEF TypeOK
<1>2. SignedFor'
  BY LifetimeAssumption DEF TypeOK, SignedFor, Signed, Tokens
<1>3. RenewalFits'
  BY LifetimeAssumption DEF TypeOK, RenewalFits, Renewing, Signed, Tokens
<1>4. SessionsFit'
  BY DEF TypeOK, SessionsFit, Undisturbed, Live, Tokens, SignedFor
<1>5. CookiesAgree'
  BY DEF TypeOK, CookiesAgree, RenewalFits, Renewing, NoCookies
<1> QED BY <1>1, <1>2, <1>3, <1>4, <1>5

(* Refresh looks its token up.                                             *)
LEMMA LookUpKeeps ==
    ASSUME IInv, NEW c \in Calls, LookUp(c), UNCHANGED now
    PROVE  IInv'
<1> USE CallAssumption DEF IInv, LookUp, Ends, At, store, call
<1>1. TypeOK'
  <2>1. pc' \in [Calls -> Renewing \cup
                        {"idle", "logout", "api", "setIdle", "delete", "create", "answer",
                         "revoked", "handle", "done", "loginPage"}]
    <3>1. pc' = [pc EXCEPT ![c] = "issue"] \/ pc' = [pc EXCEPT ![c] = "loginPage"]
      BY Zenon
    <3> HIDE DEF LookUp
    <3> QED BY <3>1 DEF TypeOK, Renewing
  <2>2. crossed' \subseteq Users /\ raced' \subseteq Browsers /\ renewed' \subseteq Calls
    BY DEF TypeOK
  <2>3. cookies' \in [Calls -> [access : Tokens \cup {NoToken}, refresh : Tokens \cup {NoToken}]]
    BY TokenFacts DEF TypeOK
  <2>4. fresh' \in [Calls -> Tokens \cup {NoToken}]
    BY TokenFacts DEF TypeOK, RenewalFits
  <2>5. \A d \in Calls : fresh'[d].iat <= now'
    BY TokenFacts DEF TypeOK
  <2> QED BY <2>1, <2>2, <2>3, <2>4, <2>5 DEF TypeOK
<1>2. SignedFor'
  BY LifetimeAssumption DEF TypeOK, SignedFor, Signed, Tokens
<1>3. RenewalFits'
  <2> DEFINE token == cookies[c].refresh
  <2>1. CASE Valid(token, RefreshTTL) /\ Known(token)
    <3>1. token \in Tokens
      BY <2>1 DEF TypeOK, Valid
    <3> QED BY <2>1, <3>1 DEF TypeOK, RenewalFits, Renewing
  <2>2. CASE ~(Valid(token, RefreshTTL) /\ Known(token))
    BY <2>2 DEF TypeOK, RenewalFits, Renewing
  <2> QED BY <2>1, <2>2
<1>4. SessionsFit'
  BY DEF TypeOK, SessionsFit, Undisturbed, Live, Tokens, SignedFor
<1>5. CookiesAgree'
  BY DEF TypeOK, CookiesAgree, RenewalFits, Renewing, NoCookies
<1> QED BY <1>1, <1>2, <1>3, <1>4, <1>5

(* Refresh signs an access token.                                          *)
LEMMA IssueAccessKeeps ==
    ASSUME IInv, NEW c \in Calls, IssueAccess(c), UNCHANGED now
    PROVE  IInv'
<1> USE CallAssumption DEF IInv, IssueAccess, At, store, call
<1>1. TypeOK'
  <2>1. pc' \in [Calls -> Renewing \cup
                        {"idle", "logout", "api", "setIdle", "delete", "create", "answer",
                         "revoked", "handle", "done", "loginPage"}]
    BY DEF TypeOK, Renewing
  <2>2. fresh' \in [Calls -> Tokens \cup {NoToken}]
    BY TokenFacts DEF TypeOK, RenewalFits
  <2>3. \A d \in Calls : fresh'[d].iat <= now'
    <3>1. fresh'[c] = Signed(cookies[c].refresh.sub) /\ cookies[c].refresh.sub \in Users
      BY TokenFacts DEF TypeOK, RenewalFits
    <3> QED BY <3>1, TokenFacts DEF TypeOK
  <2> QED BY <2>1, <2>2, <2>3 DEF TypeOK
<1>2. SignedFor'
  BY LifetimeAssumption DEF TypeOK, SignedFor, Signed, Tokens
<1>3. RenewalFits'
  BY LifetimeAssumption DEF TypeOK, RenewalFits, Renewing, Signed, Tokens
<1>4. SessionsFit'
  BY DEF TypeOK, SessionsFit, Undisturbed, Live, Tokens, SignedFor
<1>5. CookiesAgree'
  BY DEF TypeOK, CookiesAgree, RenewalFits, Renewing, NoCookies
<1> QED BY <1>1, <1>2, <1>3, <1>4, <1>5

(* The renewed cookie arrives.                                             *)
LEMMA RenewedKeeps ==
    ASSUME IInv, NEW c \in Calls, Renewed(c), UNCHANGED now
    PROVE  IInv'
<1> USE CallAssumption DEF IInv, Renewed, At, store, call
<1>1. TypeOK'
  <2>1. pc' \in [Calls -> Renewing \cup
                        {"idle", "logout", "api", "setIdle", "delete", "create", "answer",
                         "revoked", "handle", "done", "loginPage"}]
    BY DEF TypeOK, Renewing
  <2>2. crossed' \subseteq Users /\ raced' \subseteq Browsers /\ renewed' \subseteq Calls
    BY DEF TypeOK
  <2>3. jar' \in [Browsers -> [access : Tokens \cup {NoToken}, refresh : Tokens \cup {NoToken}]]
    <3>1. jar' = [jar EXCEPT ![From[c]].access = fresh[c]] /\ fresh[c] \in Tokens \cup {NoToken}
      BY DEF TypeOK
    <3> QED BY <3>1 DEF TypeOK
  <2>4. cookies' \in [Calls -> [access : Tokens \cup {NoToken}, refresh : Tokens \cup {NoToken}]]
    <3>1. jar'[From[c]] \in [access : Tokens \cup {NoToken}, refresh : Tokens \cup {NoToken}]
      BY <2>3
    <3> QED BY <3>1 DEF TypeOK
  <2>5. fresh' \in [Calls -> Tokens \cup {NoToken}]
    BY TokenFacts DEF TypeOK, RenewalFits
  <2>6. \A d \in Calls : fresh'[d].iat <= now'
    BY TokenFacts DEF TypeOK
  <2> QED BY <2>1, <2>2, <2>3, <2>4, <2>5, <2>6 DEF TypeOK
<1>2. SignedFor'
  BY LifetimeAssumption DEF TypeOK, SignedFor, Signed, Tokens
<1>3. RenewalFits'
  BY LifetimeAssumption DEF TypeOK, RenewalFits, Renewing, Signed, Tokens
<1>4. SessionsFit'
  BY DEF TypeOK, SessionsFit, Undisturbed, Live, Tokens, SignedFor
<1>5. CookiesAgree'
  BY DEF TypeOK, CookiesAgree, RenewalFits, Renewing, NoCookies
<1> QED BY <1>1, <1>2, <1>3, <1>4, <1>5

(* A command fails.                                                        *)
LEMMA FaultKeeps ==
    ASSUME IInv, NEW c \in Calls, Fault(c), UNCHANGED now
    PROVE  IInv'
<1> USE CallAssumption DEF IInv, Fault, At, store, call
<1>1. TypeOK'
  <2>1. pc' \in [Calls -> Renewing \cup
                        {"idle", "logout", "api", "setIdle", "delete", "create", "answer",
                         "revoked", "handle", "done", "loginPage"}]
    BY DEF TypeOK, Renewing
  <2>2. cookies' \in [Calls -> [access : Tokens \cup {NoToken}, refresh : Tokens \cup {NoToken}]]
    BY TokenFacts DEF TypeOK
  <2>3. faults' \in 0..MaxFaults
    BY LifetimeAssumption DEF TypeOK
  <2> QED BY <2>1, <2>2, <2>3 DEF TypeOK
<1>2. SignedFor'
  BY LifetimeAssumption DEF TypeOK, SignedFor, Signed, Tokens
<1>3. RenewalFits'
  BY LifetimeAssumption DEF TypeOK, RenewalFits, Renewing, Signed, Tokens
<1>4. SessionsFit'
  BY DEF TypeOK, SessionsFit, Undisturbed, Live, Tokens, SignedFor
<1>5. CookiesAgree'
  BY DEF TypeOK, CookiesAgree, RenewalFits, Renewing, NoCookies
<1> QED BY <1>1, <1>2, <1>3, <1>4, <1>5

(* The answer never arrives.                                               *)
LEMMA LostKeeps ==
    ASSUME IInv, NEW c \in Calls, Lost(c), UNCHANGED now
    PROVE  IInv'
<1> USE CallAssumption DEF IInv, Lost, Ends, At, store, call
<1>1. TypeOK'
  <2>1. pc' \in [Calls -> Renewing \cup
                        {"idle", "logout", "api", "setIdle", "delete", "create", "answer",
                         "revoked", "handle", "done", "loginPage"}]
    BY DEF TypeOK, Renewing
  <2>2. crossed' \subseteq Users /\ raced' \subseteq Browsers /\ renewed' \subseteq Calls
    BY DEF TypeOK
  <2>3. cookies' \in [Calls -> [access : Tokens \cup {NoToken}, refresh : Tokens \cup {NoToken}]]
    BY TokenFacts DEF TypeOK
  <2>4. fresh' \in [Calls -> Tokens \cup {NoToken}]
    BY TokenFacts DEF TypeOK, RenewalFits
  <2>5. \A d \in Calls : fresh'[d].iat <= now'
    BY TokenFacts DEF TypeOK
  <2> QED BY <2>1, <2>2, <2>3, <2>4, <2>5 DEF TypeOK
<1>2. SignedFor'
  BY LifetimeAssumption DEF TypeOK, SignedFor, Signed, Tokens
<1>3. RenewalFits'
  BY LifetimeAssumption DEF TypeOK, RenewalFits, Renewing, Signed, Tokens
<1>4. SessionsFit'
  BY DEF TypeOK, SessionsFit, Undisturbed, Live, Tokens, SignedFor
<1>5. CookiesAgree'
  BY DEF TypeOK, CookiesAgree, RenewalFits, Renewing, NoCookies
<1> QED BY <1>1, <1>2, <1>3, <1>4, <1>5

(* Time passes.                                                            *)
LEMMA TickKeeps ==
    ASSUME IInv, Tick
    PROVE  IInv'
<1> USE CallAssumption DEF IInv, Tick, store, call
<1>1. TypeOK'
  <2>1. now' \in 0..Horizon /\ now <= now'
    BY LifetimeAssumption DEF TypeOK
  <2>2. \A d \in Calls : fresh[d].iat \in Nat
    BY LifetimeAssumption DEF TypeOK, Tokens, NoToken
  <2>3. \A d \in Calls : fresh'[d].iat <= now'
    BY <2>1, <2>2, LifetimeAssumption DEF TypeOK
  <2> QED BY <2>1, <2>3 DEF TypeOK
<1>2. SignedFor' /\ RenewalFits' /\ CookiesAgree'
  BY DEF SignedFor, RenewalFits, CookiesAgree
<1>3. SessionsFit'
  BY DEF SessionsFit, Undisturbed, Live
<1> QED BY <1>1, <1>2, <1>3

(* The first state.                                                        *)
LEMMA InitHolds == Init => IInv
<1> SUFFICES ASSUME Init PROVE IInv
  OBVIOUS
<1> USE CallAssumption, LifetimeAssumption DEF Init
<1>1. TypeOK
  BY DEF TypeOK, NoCookies, NoToken, Tokens, Renewing
<1>2. SignedFor /\ RenewalFits
  BY DEF SignedFor, RenewalFits, Renewing
<1>3. SessionsFit
  BY DEF SessionsFit, Live
<1>4. CookiesAgree
  BY DEF CookiesAgree, NoCookies, NoToken
<1> QED BY <1>1, <1>2, <1>3, <1>4 DEF IInv

(* Every step.                                                             *)
LEMMA NextKeeps == IInv /\ [Next]_vars => IInv'
<1> SUFFICES ASSUME IInv, [Next]_vars PROVE IInv'
  OBVIOUS
<1>1. CASE Tick
  BY <1>1, TickKeeps
<1>2. CASE \E c \in Calls : CallStep(c)
  <2>1. PICK c \in Calls : CallStep(c)
    BY <1>2
  <2>2. UNCHANGED now
    BY <2>1 DEF CallStep
  <2>3. CASE Send(c)
    BY <2>2, <2>3, SendKeeps
  <2>4. CASE Issuing(c)
    BY <2>2, <2>4, CreateUserKeeps, SetIdleKeeps, CheckPasswordKeeps, DeleteSessionsKeeps,
       CreateSessionKeeps, SignedInKeeps DEF Issuing
  <2>5. CASE Leaving(c)
    BY <2>2, <2>5, RevokeKeeps, SignedOutKeeps DEF Leaving
  <2>6. CASE Visiting(c)
    BY <2>2, <2>6, AuthenticateKeeps, OpenPageKeeps, HandleKeeps, LookUpKeeps, IssueAccessKeeps,
       RenewedKeeps DEF Visiting
  <2>7. CASE Fault(c)
    BY <2>2, <2>7, FaultKeeps
  <2>8. CASE Lost(c)
    BY <2>2, <2>8, LostKeeps
  <2> QED BY <2>1, <2>3, <2>4, <2>5, <2>6, <2>7, <2>8 DEF CallStep
<1>3. CASE UNCHANGED vars
  BY <1>3 DEF vars, IInv, TypeOK, SignedFor, RenewalFits, SessionsFit, Undisturbed, Live, CookiesAgree
<1> QED BY <1>1, <1>2, <1>3 DEF Next, Finished

(* The inductive invariant holds at every step of the specification.       *)
THEOREM Inductive == Spec => []IInv
BY InitHolds, NextKeeps, PTL DEF Spec
-----------------------------------------------------------------------------
(* Everything has its type, and no token is from the future.               *)
THEOREM TypeCorrect == Spec => []TypeOK
<1>1. IInv => TypeOK
  BY DEF IInv
<1> QED BY <1>1, Inductive, PTL

(* A login leaves its user no session but its own, unless two logins of    *)
(* the user crossed or a command failed: the table never has two.          *)
THEOREM OneSessionCorrect == Spec => []OneSession
<1>1. ASSUME NEW S, \A s, t \in S : s = t
      PROVE  Cardinality(S) <= 1
  <2>1. CASE S = {}
    BY <2>1, FS_EmptySet
  <2>2. CASE S # {}
    <3>1. PICK s \in S : S = {s}
      BY <1>1, <2>2
    <3>2. Cardinality({s}) = 1
      BY FS_Singleton
    <3> QED BY <3>1, <3>2
  <2> QED BY <2>1, <2>2
<1>2. IInv => OneSession
  <2> SUFFICES ASSUME IInv, NEW u \in Users, faults = 0, u \notin crossed
               PROVE  Cardinality(Live(u)) <= 1
    BY DEF OneSession
  <2>1. \A s, t \in Live(u) : s = t
    BY DEF IInv, SessionsFit, Undisturbed
  <2> QED BY <2>1, <1>1
<1> QED BY <1>2, Inductive, PTL

(* The two cookies of a browser are one user's, unless it was signed in or *)
(* out while a renewal was under way.                                      *)
THEOREM CookiesCorrect == Spec => []CookiesAgree
<1>1. IInv => CookiesAgree
  BY DEF IInv
<1> QED BY <1>1, Inductive, PTL

(* Only three statements write to the table.                               *)
LEMMA OnlyTable ==
    ASSUME [Next]_vars
    PROVE  \/ UNCHANGED table
           \/ \E c \in Calls : DeleteSessions(c) \/ Revoke(c) \/ CreateSession(c)
<1>1. CASE Tick \/ UNCHANGED vars
  BY <1>1 DEF Tick, store, vars
<1>2. ASSUME NEW c \in Calls, CallStep(c)
      PROVE  UNCHANGED table \/ DeleteSessions(c) \/ Revoke(c) \/ CreateSession(c)
  <2>1. CASE Issuing(c)
    BY <2>1 DEF Issuing, CreateUser, SetIdle, CheckPassword, SignTokens, SignedIn, SetCookies, store
  <2>2. CASE Leaving(c)
    BY <2>2 DEF Leaving, SignedOut, SetCookies, store
  <2>3. CASE Visiting(c)
    BY <2>3 DEF Visiting, Authenticate, OpenPage, Handle, LookUp, IssueAccess, Renewed, store
  <2>4. CASE Send(c) \/ Fault(c) \/ Lost(c)
    BY <2>4 DEF Send, Fault, Lost, store
  <2> QED BY <1>2, <2>1, <2>2, <2>3, <2>4 DEF CallStep
<1> QED BY <1>1, <1>2 DEF Next, Finished

(* No step makes a deleted session valid again: the unique index refuses   *)
(* the row of a token that was signed a second time.                       *)
THEOREM RevokedCorrect == Spec => RevokedStaysRevoked
<1>1. IInv /\ [Next]_vars => \A t \in Tokens : table[t] = "deleted" => table'[t] = "deleted"
  <2> SUFFICES ASSUME IInv, [Next]_vars, NEW t \in Tokens, table[t] = "deleted"
               PROVE  table'[t] = "deleted"
    OBVIOUS
  <2>1. table \in [Tokens -> {"none", "live", "deleted"}]
    BY DEF IInv, TypeOK
  <2>2. CASE UNCHANGED table
    BY <2>2
  <2>3. ASSUME NEW c \in Calls, DeleteSessions(c) \/ Revoke(c)
        PROVE  table'[t] = "deleted"
    BY <2>1, <2>3 DEF DeleteSessions, Revoke
  <2>4. ASSUME NEW c \in Calls, CreateSession(c)
        PROVE  table'[t] = "deleted"
    BY <2>1, <2>4 DEF CreateSession, Insertable
  <2>5. \/ UNCHANGED table
        \/ \E c \in Calls : DeleteSessions(c) \/ Revoke(c) \/ CreateSession(c)
    BY OnlyTable
  <2> QED BY <2>2, <2>3, <2>4, <2>5
<1> QED BY <1>1, Inductive, PTL DEF Spec, RevokedStaysRevoked

(* A step that makes no session live, lets no call past its check and does *)
(* not touch the cookies of a renewal gives nobody a way to a token.       *)
LEMMA NoWayIn ==
    ASSUME NEW u \in Users, ~MayGetToken(u),
           \A t \in Tokens : table'[t] = "live" => table[t] = "live" \/ t.sub # u,
           \A c \in Calls : pc'[c] \in {"delete", "create"} =>
               pc[c] \in {"delete", "create"} \/ For[c] # u,
           \A c \in Calls : pc'[c] = "issue" =>
               \/ pc[c] = "issue" /\ cookies'[c] = cookies[c]
               \/ cookies'[c].refresh.sub # u
    PROVE  ~MayGetToken(u)'
BY DEF MayGetToken, Live

(* Once a user has no session, and no login or renewal past its check,     *)
(* only a call whose password was accepted lets the user have a token      *)
(* again: no cookie that is still in some browser, no call that is under   *)
(* way and no failed command does.                                         *)
THEOREM PasswordsCorrect == Spec => OnlyPasswordsOpen
<1>1. IInv /\ [Next]_vars =>
        \A u \in Users : ~MayGetToken(u) /\ MayGetToken(u)' =>
          \E c \in Calls : For[c] = u /\ pc[c] # "delete" /\ pc'[c] = "delete"
  <2> SUFFICES ASSUME IInv, [Next]_vars, NEW u \in Users, ~MayGetToken(u), MayGetToken(u)',
                      ~\E c \in Calls : For[c] = u /\ pc[c] # "delete" /\ pc'[c] = "delete"
               PROVE  FALSE
    OBVIOUS
  <2> DEFINE Sealed == \A t \in Tokens : table'[t] = "live" => table[t] = "live" \/ t.sub # u
             Idle == \A c \in Calls : pc'[c] \in {"delete", "create"} =>
                        pc[c] \in {"delete", "create"} \/ For[c] # u
             Still == \A c \in Calls : pc'[c] = "issue" =>
                        \/ pc[c] = "issue" /\ cookies'[c] = cookies[c]
                        \/ cookies'[c].refresh.sub # u
  <2>1. DOMAIN pc = Calls /\ DOMAIN cookies = Calls /\ DOMAIN table = Tokens
    BY DEF IInv, TypeOK
  <2>2. CASE Tick \/ UNCHANGED vars
    BY <2>2 DEF Tick, store, call, vars, MayGetToken, Live
  <2>3. ASSUME NEW c \in Calls, CallStep(c)
        PROVE  FALSE
    <3>1. Sealed
      <4>1. ASSUME NEW d \in Calls, CreateSession(d)
            PROVE  Sealed
        <5>1. fresh[d].sub = For[d] /\ For[d] # u
          BY <4>1 DEF CreateSession, At, IInv, SignedFor, MayGetToken
        <5> QED BY <4>1, <5>1, <2>1 DEF CreateSession
      <4>2. ASSUME NEW d \in Calls, DeleteSessions(d) \/ Revoke(d)
            PROVE  Sealed
        BY <4>2 DEF DeleteSessions, Revoke
      <4> QED BY <4>1, <4>2, OnlyTable
    <3>2. Idle /\ Still
      <4>1. CASE LookUp(c)
        <5>1. pc'[c] = "issue" => cookies[c].refresh.sub # u /\ cookies' = cookies
          <6> SUFFICES ASSUME pc'[c] = "issue", cookies[c].refresh.sub = u
                       PROVE  FALSE
            BY <4>1, <2>1 DEF LookUp, Ends, At, call
          <6>1. Valid(cookies[c].refresh, RefreshTTL) /\ Known(cookies[c].refresh)
            BY <4>1, <2>1 DEF LookUp, Ends, At
          <6>2. cookies[c].refresh \in Tokens
            BY <6>1 DEF IInv, TypeOK, Valid
          <6> QED BY <6>1, <6>2 DEF Known, MayGetToken, Live
        <5> QED BY <4>1, <5>1, <2>1 DEF LookUp, Ends, At, call
      <4>2. CASE Issuing(c)
        BY <4>2, <2>1 DEF Issuing, CreateUser, SetIdle, CheckPassword, SignTokens, DeleteSessions,
           CreateSession, SignedIn, Ends, At, call
      <4>3. CASE Leaving(c)
        BY <4>3, <2>1 DEF Leaving, Revoke, SignedOut, Ends, At, call
      <4>4. CASE Authenticate(c) \/ OpenPage(c) \/ Handle(c) \/ IssueAccess(c) \/ Renewed(c)
        BY <4>4, <2>1 DEF Authenticate, OpenPage, Handle, IssueAccess, Renewed, AskRenewal, Ends, At, call
      <4>5. CASE Send(c) \/ Fault(c) \/ Lost(c)
        BY <4>5, <2>1 DEF Send, Fault, Lost, Ends, At, call
      <4> QED BY <2>3, <4>1, <4>2, <4>3, <4>4, <4>5 DEF CallStep, Visiting
    <3> QED BY <3>1, <3>2, NoWayIn
  <2> QED BY <2>2, <2>3 DEF Next, Finished
<1> QED BY <1>1, Inductive, PTL DEF Spec, OnlyPasswordsOpen
=============================================================================
