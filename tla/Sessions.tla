------------------------------ MODULE Sessions ------------------------------
(***************************************************************************)
(* Who is signed in: signup, login, logout, the authentication of a call   *)
(* and its renewal by /refresh, the table of sessions, and the cookies of  *)
(* the browsers.                                                           *)
(*                                                                         *)
(* A call is one request (fetchWithRefresh may make it three): it carries  *)
(* the cookies its browser had when it was sent, takes one step for each   *)
(* statement that reads the clock or touches the table, and changes the    *)
(* browser's cookies when its answer arrives.  Between any two steps the   *)
(* other calls act and time passes.  A token is determined by its user and *)
(* the second of its issue: issueTokens signs nothing else, so two logins  *)
(* of one user in the same second get the same tokens.  A deleted session  *)
(* keeps its row (gorm.Model deletes softly), and its refresh token stays  *)
(* in the unique index.                                                    *)
(***************************************************************************)
EXTENDS Naturals, FiniteSets

CONSTANTS Users,
          Registered,  \* users who have signed up before
          Browsers,
          Calls,
          Purposes,    \* what each call may be for
          From,        \* the browser that makes it
          For,         \* whose name and password it sends (signup, login)
          AccessTTL,
          RefreshTTL,
          Horizon,     \* bound: the clock of the world stops here
          MaxFaults    \* bound: commands that fail in the database or Redis

Kinds == {"signup", "login", "logout", "api"}

ASSUME CallAssumption ==
    /\ Registered \subseteq Users
    /\ Purposes \in [Calls -> SUBSET Kinds]
    /\ From \in [Calls -> Browsers]
    /\ For \in [Calls -> Users]

ASSUME LifetimeAssumption ==
    /\ AccessTTL \in Nat \ {0} /\ RefreshTTL \in Nat \ {0}
    /\ AccessTTL < RefreshTTL
    /\ Horizon \in Nat /\ MaxFaults \in Nat

VARIABLES
    now,      \* seconds
    users,    \* the rows of the users table
    table,    \* the session row of each refresh token
    jar,      \* the two cookies of each browser
    pc,       \* where each call is
    cookies,  \* the cookies it carries
    fresh,    \* the token it has signed
    renewed,  \* the calls that have had their access token renewed
    faults,
    crossed,  \* history: users of whom a login deleted while another was about to create
    raced     \* history: browsers signed in or out during a renewal

vars == <<now, users, table, jar, pc, cookies, fresh, renewed, faults, crossed, raced>>
store == <<users, table, faults, crossed>>
call == <<cookies, fresh, renewed>>

NoToken == [sub |-> "nobody", iat |-> 0]
Tokens == [sub : Users, iat : 0..Horizon]
NoCookies == [access |-> NoToken, refresh |-> NoToken]

(* Mutation of Signed: the token counts from the next second.              *)
SignedLate(u) == [sub |-> u, iat |-> now + 1]

Signed(u) == [sub |-> u, iat |-> now]

(* jwt.Parse: a missing or expired token is an error.                      *)
Valid(token, ttl) == token # NoToken /\ now < token.iat + ttl

Live(u) == {t \in Tokens : t.sub = u /\ table[t] = "live"}
-----------------------------------------------------------------------------
Init ==
    /\ now = 0
    /\ users = Registered
    /\ table = [t \in Tokens |-> "none"]
    /\ jar = [b \in Browsers |-> NoCookies]
    /\ pc = [c \in Calls |-> "idle"]
    /\ cookies = [c \in Calls |-> NoCookies]
    /\ fresh = [c \in Calls |-> NoToken]
    /\ renewed = {}
    /\ faults = 0
    /\ crossed = {}
    /\ raced = {}

Tick ==
    /\ now < Horizon
    /\ now' = now + 1
    /\ UNCHANGED <<store, jar, pc, call, raced>>

At(c, here, there) ==
    /\ pc[c] = here
    /\ pc' = [pc EXCEPT ![c] = there]

(* The call has come to its end, and what it carried is forgotten.         *)
Ends(c, here, there) ==
    /\ At(c, here, there)
    /\ cookies' = [cookies EXCEPT ![c] = NoCookies]
    /\ fresh' = [fresh EXCEPT ![c] = NoToken]
    /\ renewed' = renewed \ {c}

(* The browser sends the call with the cookies it has; a signup or a login *)
(* does not look at them.                                                  *)
Send(c) ==
    /\ \E purpose \in Purposes[c] \cap {"logout", "api"} : At(c, "idle", purpose)
    /\ cookies' = [cookies EXCEPT ![c] = jar[From[c]]]
    /\ UNCHANGED <<store, jar, fresh, renewed, raced>>
-----------------------------------------------------------------------------
(* Signup and Login.                                                       *)

(* DB.Create(&user): the e-mail address is unique, and a second signup     *)
(* changes nothing.                                                        *)
CreateUser(c) ==
    /\ "signup" \in Purposes[c] /\ For[c] \notin users
    /\ At(c, "idle", "setIdle")
    /\ users' = users \cup {For[c]}
    /\ UNCHANGED <<table, faults, crossed, jar, call, raced>>

(* issueTokens, up to the signed tokens, both of the same second.          *)
SignTokens(c, here) ==
    /\ At(c, here, "delete")
    /\ fresh' = [fresh EXCEPT ![c] = Signed(For[c])]
    /\ UNCHANGED <<store, jar, cookies, renewed, raced>>

(* UpdatePlayerStatus(idle), as module Matchmaking has it.                 *)
SetIdle(c) == SignTokens(c, "setIdle")

(* The password is right; a login that is refused changes nothing.         *)
CheckPassword(c) ==
    /\ "login" \in Purposes[c] /\ For[c] \in users
    /\ SignTokens(c, "idle")

(* Mutation of Superseded: only the caller's own session is deleted.       *)
OwnSession(c) == {jar[From[c]].refresh}

Superseded(c) == Live(For[c])

DeleteSessions(c) ==
    /\ At(c, "delete", "create")
    /\ table' = [t \in Tokens |-> IF t \in Superseded(c) THEN "deleted" ELSE table[t]]
    /\ crossed' = IF \E d \in Calls \ {c} : pc[d] = "create" /\ For[d] = For[c]
                  THEN crossed \cup {For[c]} ELSE crossed
    /\ UNCHANGED <<users, faults, jar, call, raced>>

(* Mutation of Insertable: an upsert.                                      *)
Upsertable(token) == TRUE

(* The unique index knows every refresh token there ever was.              *)
Insertable(token) == table[token] = "none"

(* DB.Create(&session), whose error is dropped.                            *)
CreateSession(c) ==
    /\ At(c, "create", "answer")
    /\ table' = IF Insertable(fresh[c]) THEN [table EXCEPT ![fresh[c]] = "live"] ELSE table
    /\ UNCHANGED <<users, faults, crossed, jar, call, raced>>

Renewing == {"refresh", "issue", "renewal"}

(* The answer of a call of c's browser sets both cookies.                  *)
SetCookies(c, new) ==
    /\ jar' = [jar EXCEPT ![From[c]] = new]
    /\ raced' = IF \E d \in Calls : From[d] = From[c] /\ pc[d] \in Renewing
                THEN raced \cup {From[c]} ELSE raced
    /\ UNCHANGED store

SignedIn(c) ==
    /\ Ends(c, "answer", "done")
    /\ SetCookies(c, [access |-> fresh[c], refresh |-> fresh[c]])
-----------------------------------------------------------------------------
(* Logout.                                                                 *)

Revoke(c) ==
    /\ At(c, "logout", "revoked")
    /\ table' = [t \in Tokens |-> IF t = cookies[c].refresh /\ table[t] = "live"
                                  THEN "deleted" ELSE table[t]]
    /\ UNCHANGED <<users, faults, crossed, jar, call, raced>>

(* Mutation of Cleared: the access cookie stays.                           *)
OnlyRefreshCleared(c) == [jar[From[c]] EXCEPT !.refresh = NoToken]

Cleared(c) == NoCookies

SignedOut(c) ==
    /\ Ends(c, "revoked", "done")
    /\ SetCookies(c, Cleared(c))
-----------------------------------------------------------------------------
(* A call to a protected route.                                            *)

(* fetchWithRefresh: after a 401 the browser asks for a renewal, once.     *)
(* Nothing that happens while the 401 travels could make the call pass, so *)
(* the refusal and the next request are one step.                          *)
AskRenewal(c, here) ==
    \/ c \in renewed /\ Ends(c, here, "done")
    \/ /\ c \notin renewed
       /\ At(c, here, "refresh")
       /\ cookies' = [cookies EXCEPT ![c] = jar[From[c]]]
       /\ UNCHANGED <<fresh, renewed>>

(* authenticate, in front of an API route.                                 *)
Authenticate(c) ==
    /\ IF Valid(cookies[c].access, AccessTTL)
       THEN At(c, "api", "handle") /\ UNCHANGED call
       ELSE AskRenewal(c, "api")
    /\ UNCHANGED <<store, jar, raced>>

(* authenticate, in front of a page: no renewal is tried.                  *)
OpenPage(c) ==
    /\ "api" \in Purposes[c]
    /\ At(c, "idle", IF Valid(jar[From[c]].access, AccessTTL) THEN "done" ELSE "loginPage")
    /\ UNCHANGED <<store, jar, call, raced>>

(* GetUserId parses the token again.  When it has run out since, the       *)
(* answer is 401, although the handler still does its work.                *)
Handle(c) ==
    /\ IF Valid(cookies[c].access, AccessTTL) THEN Ends(c, "handle", "done")
       ELSE AskRenewal(c, "handle")
    /\ UNCHANGED <<store, jar, raced>>

(* Mutation of Known: deleted rows are found too (Unscoped).               *)
KnownUnscoped(token) == table[token] # "none"

Known(token) == table[token] = "live"

(* Refresh, up to the lookup in the table.                                 *)
LookUp(c) ==
    LET token == cookies[c].refresh
    IN  /\ IF Valid(token, RefreshTTL) /\ Known(token)
           THEN At(c, "refresh", "issue") /\ UNCHANGED call
           ELSE Ends(c, "refresh", "loginPage")
        /\ UNCHANGED <<store, jar, raced>>

IssueAccess(c) ==
    /\ At(c, "issue", "renewal")
    /\ fresh' = [fresh EXCEPT ![c] = Signed(cookies[c].refresh.sub)]
    /\ UNCHANGED <<store, jar, cookies, renewed, raced>>

(* The new access cookie arrives, and the call is made again.              *)
Renewed(c) ==
    /\ At(c, "renewal", "api")
    /\ jar' = [jar EXCEPT ![From[c]].access = fresh[c]]
    /\ cookies' = [cookies EXCEPT ![c] = jar'[From[c]]]
    /\ fresh' = [fresh EXCEPT ![c] = NoToken]
    /\ renewed' = renewed \cup {c}
    /\ UNCHANGED <<store, raced>>
-----------------------------------------------------------------------------
(* A command fails: the deletion or the creation of a session (the errors  *)
(* are dropped), the lookup, or the player's first state.                  *)
Fault(c) ==
    /\ faults < MaxFaults
    /\ faults' = faults + 1
    /\ \/ At(c, "setIdle", "done")
       \/ At(c, "delete", "create")
       \/ At(c, "create", "answer")
       \/ At(c, "logout", "revoked")
       \/ At(c, "refresh", "loginPage")
    /\ cookies' = IF pc[c] = "refresh" THEN [cookies EXCEPT ![c] = NoCookies] ELSE cookies
    /\ UNCHANGED <<users, table, crossed, jar, fresh, renewed, raced>>

(* The answer never arrives.                                               *)
Lost(c) ==
    /\ \E here \in {"answer", "revoked", "renewal"} : Ends(c, here, "done")
    /\ UNCHANGED <<store, jar, raced>>
-----------------------------------------------------------------------------
Issuing(c) ==
    \/ CreateUser(c) \/ SetIdle(c) \/ CheckPassword(c)
    \/ DeleteSessions(c) \/ CreateSession(c) \/ SignedIn(c)

Leaving(c) == Revoke(c) \/ SignedOut(c)

Visiting(c) ==
    \/ Authenticate(c) \/ OpenPage(c) \/ Handle(c)
    \/ LookUp(c) \/ IssueAccess(c) \/ Renewed(c)

CallStep(c) ==
    /\ Send(c) \/ Issuing(c) \/ Leaving(c) \/ Visiting(c) \/ Fault(c) \/ Lost(c)
    /\ UNCHANGED now

Finished ==
    /\ now = Horizon /\ \A c \in Calls : pc[c] \in {"idle", "done", "loginPage"}
    /\ UNCHANGED vars

Next == Tick \/ (\E c \in Calls : CallStep(c)) \/ Finished

Spec == Init /\ [][Next]_vars
-----------------------------------------------------------------------------
(* Everything has its type, and no token is from the future.               *)
TypeOK ==
    /\ now \in 0..Horizon
    /\ users \subseteq Users
    /\ table \in [Tokens -> {"none", "live", "deleted"}]
    /\ jar \in [Browsers -> [access : Tokens \cup {NoToken}, refresh : Tokens \cup {NoToken}]]
    /\ pc \in [Calls -> Renewing \cup
                        {"idle", "logout", "api", "setIdle", "delete", "create", "answer",
                         "revoked", "handle", "done", "loginPage"}]
    /\ cookies \in [Calls -> [access : Tokens \cup {NoToken}, refresh : Tokens \cup {NoToken}]]
    /\ fresh \in [Calls -> Tokens \cup {NoToken}]
    /\ \A c \in Calls : fresh[c].iat <= now
    /\ renewed \subseteq Calls
    /\ faults \in 0..MaxFaults
    /\ crossed \subseteq Users
    /\ raced \subseteq Browsers

(* A session that was revoked, by a logout or by a later login, is never   *)
(* valid again, not even when a login of the same second signs the very    *)
(* same refresh token.                                                     *)
RevokedStaysRevoked ==
    [][\A t \in Tokens : table[t] = "deleted" => table'[t] = "deleted"]_vars

(* A login leaves its user no session but its own: there is at most one,   *)
(* unless two logins of the user ran through issueTokens side by side.     *)
OneSession ==
    \A u \in Users : faults = 0 /\ u \notin crossed => Cardinality(Live(u)) <= 1

(* Nothing that was issued before leads back in: once a user has no        *)
(* session, and no login or renewal of the user is past its check, a token *)
(* can be had again only by a password.                                    *)
MayGetToken(u) ==
    \/ Live(u) # {}
    \/ \E c \in Calls : For[c] = u /\ pc[c] \in {"delete", "create"}
    \/ \E c \in Calls : cookies[c].refresh.sub = u /\ pc[c] = "issue"

OnlyPasswordsOpen ==
    [][\A u \in Users : ~MayGetToken(u) /\ MayGetToken(u)' =>
          \E c \in Calls : For[c] = u /\ pc[c] # "delete" /\ pc'[c] = "delete"]_vars

(* A browser is one user: its access cookie goes with its refresh cookie,  *)
(* unless it was signed in or out while a renewal was under way.           *)
CookiesAgree ==
    \A b \in Browsers \ raced :
        jar[b].access # NoToken => jar[b].refresh.sub = jar[b].access.sub
-----------------------------------------------------------------------------
(* What a comment promises and the code does not keep.                     *)

(* issueTokens "saves the new session": when both tokens are sent, the     *)
(* session of the refresh token is in the table.                           *)
SessionSaved ==
    [][\A c \in Calls : pc[c] = "create" /\ pc'[c] = "answer" => table'[fresh[c]] = "live"]_vars
=============================================================================
