----------------------------- MODULE OwnerLogin -----------------------------
(***************************************************************************)
(* Login: internal/auth/oidc.go and the directory that resolves a verified *)
(* address to the owner of credentials (user_directory.go). No session     *)
(* table exists: what a login remembers travels in two cookies of the      *)
(* browser, and several callbacks, of one browser or of many, on one       *)
(* server or on several, run at once.                                      *)
(***************************************************************************)
EXTENDS Naturals

CONSTANTS
  Browsers, Callbacks, \* Callbacks: handlers of /auth/callback under way
  Spellings,           \* addresses as the identity provider may spell them
  Normal(_),           \* the address lower-cased and trimmed
  MaxLogins            \* bound: logins ever begun

ASSUME MaxLoginsAssumption == MaxLogins \in Nat \ {0}
ASSUME NormalAssumption == \A s \in Spellings : Normal(s) \in Spellings /\ Normal(Normal(s)) = Normal(s)

Logins == 1..MaxLogins

VARIABLES
  users,    \* table users: address -> owner id, 0 for no row
  begunBy,  \* history: the browser in which each login was begun, so far
  cookies,  \* each browser: the login whose state and nonce it holds, 0 for none
  session,  \* each browser: its session, if any
  codes,    \* identity provider: the code of each login, until it is exchanged
  callback  \* each handler: its request and where it is

loginVars == <<users, begunBy, cookies, session, codes, callback>>

NoOwner == 0
NoSession == [owner |-> NoOwner]
NoCode == [state |-> "none"]
Spent == [state |-> "spent"]
Idle == [at |-> "idle"]

Identities == [state : {"given"}, email : Spellings, verified : BOOLEAN]
Sessions == [owner : Logins, email : Spellings, login : Logins]
Requests == [at : {"exchange"}, browser : Browsers, nonce : Logins, code : Logins]
Identified == [at : {"mint", "read"}, browser : Browsers, email : Spellings, login : Logins]

LoginTypeOK ==
  /\ users \in [Spellings -> 0..MaxLogins]
  /\ begunBy \in UNION {[1..n -> Browsers] : n \in 0..MaxLogins}
  /\ cookies \in [Browsers -> 0..MaxLogins]
  /\ session \in [Browsers -> Sessions \cup {NoSession}]
  /\ codes \in [Logins -> Identities \cup {NoCode, Spent}]
  /\ callback \in [Callbacks -> Requests \cup Identified \cup {Idle}]

LoginInit ==
  /\ users = [s \in Spellings |-> NoOwner]
  /\ begunBy = <<>>
  /\ cookies = [b \in Browsers |-> 0]
  /\ session = [b \in Browsers |-> NoSession]
  /\ codes = [n \in Logins |-> NoCode]
  /\ callback = [c \in Callbacks |-> Idle]

Begun == DOMAIN begunBy

(***************************************************************************)
(* The handlers                                                            *)
(***************************************************************************)
\* state and nonce are new, and replace those of an earlier login.
LoginHandler(b) ==
  \E n \in Logins :
    /\ Begun = 1..(n - 1)
    /\ begunBy' = [m \in 1..n |-> IF m = n THEN b ELSE begunBy[m]]
    /\ cookies' = [cookies EXCEPT ![b] = n]
    /\ UNCHANGED <<users, session, codes, callback>>

\* A callback URL, wherever it comes from: refused without a state cookie, or
\* one of another login. The cookies are cleared by the response, not now.
CallbackHandler(c, b, state, code) ==
  /\ callback[c] = Idle
  /\ cookies[b] # 0 /\ cookies[b] = state
  /\ callback' = [callback EXCEPT ![c] =
       [at |-> "exchange", browser |-> b, nonce |-> cookies[b], code |-> code]]
  /\ UNCHANGED <<users, begunBy, cookies, session, codes>>

\* The response, be it an error: it clears whatever login the browser holds.
Respond(c) ==
  /\ callback' = [callback EXCEPT ![c] = Idle]
  /\ cookies' = [cookies EXCEPT ![callback[c].browser] = 0]

Refuse(c) == Respond(c) /\ UNCHANGED session

MutNonceUnchecked(c) == TRUE
\* The token belongs to the login of this browser.
NonceMatches(c) == callback[c].code = callback[c].nonce

\* A code is exchanged once. An address that is not verified is refused.
Exchange(c) ==
  /\ callback[c].at = "exchange"
  /\ LET code == callback[c].code
         answer == codes[code] IN
     \/ /\ answer \in Identities /\ NonceMatches(c) /\ answer.verified
        /\ callback' = [callback EXCEPT ![c] =
             [at |-> "mint", browser |-> @.browser, email |-> Normal(answer.email), login |-> code]]
        /\ codes' = [codes EXCEPT ![code] = Spent]
        /\ UNCHANGED <<cookies, session>>
     \/ /\ answer \in Identities /\ (~NonceMatches(c) \/ ~answer.verified)
        /\ Refuse(c)
        /\ codes' = [codes EXCEPT ![code] = Spent]
     \/ Refuse(c) /\ UNCHANGED codes \* there is no such code, or no answer
  /\ UNCHANGED <<users, begunBy>>

MutInsertWins(e, id) == users' = [users EXCEPT ![e] = id]
\* ON CONFLICT (email) DO NOTHING. The id is new: that of the login, whose code
\* no other callback exchanged.
InsertUser(e, id) ==
  \/ users[e] = NoOwner /\ users' = [users EXCEPT ![e] = id]
  \/ users[e] # NoOwner /\ UNCHANGED users

\* ResolveOwner: insert, then read, either of which may fail.
Mint(c) ==
  /\ callback[c].at = "mint"
  /\ \/ InsertUser(callback[c].email, callback[c].login)
        /\ callback' = [callback EXCEPT ![c].at = "read"]
        /\ UNCHANGED <<cookies, session>>
     \/ Refuse(c) /\ UNCHANGED users
  /\ UNCHANGED <<begunBy, codes>>

\* NewSession and the signed cookie. Nothing about the subject matters here.
NewSession(c) == [owner |-> users[callback[c].email], email |-> callback[c].email,
                  login |-> callback[c].login]

ReadOwner(c) ==
  /\ callback[c].at = "read"
  /\ \/ Respond(c) /\ session' = [session EXCEPT ![callback[c].browser] = NewSession(c)]
     \/ Refuse(c)
  /\ UNCHANGED <<users, begunBy, codes>>

\* Logout, or the session's 24 hours are over.
LogoutHandler(b) ==
  /\ session[b] # NoSession
  /\ session' = [session EXCEPT ![b] = NoSession]
  /\ UNCHANGED <<users, begunBy, cookies, codes, callback>>

\* MaxAge of the cookies.
CookiesLapse(b) ==
  /\ cookies[b] # 0
  /\ cookies' = [cookies EXCEPT ![b] = 0]
  /\ UNCHANGED <<users, begunBy, session, codes, callback>>

\* The pod restarts: a callback under way is lost with its response.
RestartServer ==
  /\ \E c \in Callbacks : callback[c] # Idle
  /\ callback' = [c \in Callbacks |-> Idle]
  /\ UNCHANGED <<users, begunBy, cookies, session, codes>>

\* The identity provider (external): somebody answers an authorization request,
\* in whatever browser its URL was opened, once.
Authenticate(n, identity) ==
  /\ n \in Begun /\ codes[n] = NoCode
  /\ codes' = [codes EXCEPT ![n] = identity]
  /\ UNCHANGED <<users, begunBy, cookies, session, callback>>

-----------------------------------------------------------------------------
LoginNext ==
  \/ \E b \in Browsers : LoginHandler(b) \/ LogoutHandler(b) \/ CookiesLapse(b)
  \/ \E c \in Callbacks : Exchange(c) \/ Mint(c) \/ ReadOwner(c)
  \/ \E c \in Callbacks, b \in Browsers, state, code \in Logins : CallbackHandler(c, b, state, code)
  \/ \E n \in Logins, i \in Identities : Authenticate(n, i)
  \/ RestartServer

LoginSpec == LoginInit /\ [][LoginNext]_loginVars

-----------------------------------------------------------------------------
(***************************************************************************)
(* Properties                                                              *)
(***************************************************************************)

\* "A read-then-insert would produce two ids for one human and split their
\* credentials": whatever first logins run at once, and however the provider
\* spells the address, the sessions of one person have one owner, those of two
\* people two.
OneOwnerEach ==
  \A b, d \in Browsers : session[b] # NoSession /\ session[d] # NoSession =>
    (session[b].owner = session[d].owner <=> Normal(session[b].email) = Normal(session[d].email))

\* state and nonce together: the identity of a session was given for a login
\* that was begun in that very browser.
SessionBegunHere ==
  \A b \in Browsers : session[b] # NoSession => begunBy[session[b].login] = b
=============================================================================
