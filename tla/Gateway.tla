------------------------------ MODULE Gateway ------------------------------
(***************************************************************************)
(* rest-api-gateway in front of gameplay-service.  A client posts to a     *)
(* route; the guard looks at the access token, the gateway composes the    *)
(* gRPC request, the controller that serves the method gets what of it the *)
(* message type carries, and the answer goes back.  Access tokens are had  *)
(* by a login, a signature under a message handed out shortly before, or   *)
(* by the refresh token of a session.                                      *)
(*                                                                         *)
(* What the other services do with a request is in the modules about them: *)
(* here a request that reaches its controller is simply served.            *)
(***************************************************************************)
EXTENDS Naturals, GameplayApi

CONSTANTS
    Users,        \* users, each by the account of its own
    Nobody,       \* the user of no token, and of a body without userId
    Calls,        \* requests, each made once; what one hands out bears its name
    MessageTime,  \* how long a message can be signed: 60 s
    AccessTime,   \* accessTokenExpiration
    RefreshTime,  \* refreshTokenExpiration
    MaxClock      \* bound: the clock stops

VARIABLES
    now,       \* the time
    messages,  \* cache: until when the message a call handed out can be signed
    tokens,    \* access tokens handed out
    sessions,  \* rows of sessions, with their refresh tokens
    loggedIn,  \* history: users for whom a login has been served
    call       \* the requests

vars == <<now, messages, tokens, sessions, loggedIn, call>>

Grant(u, time) == [user |-> u, until |-> now + time]
NoGrant        == [user |-> Nobody, until |-> 0]
Idle(stage)    == [stage |-> stage, method |-> "none", bearer |-> NoGrant, shows |-> NoGrant,
                   fields |-> {}, userId |-> Nobody]

(* passport-jwt with ignoreExpiration: false                               *)
Valid(token) == now < token.until

At(c, stage) == call[c].stage = stage
Method(c)    == call[c].method

----------------------------------------------------------------------------
Init ==
    /\ now = 0
    /\ messages = [c \in Calls |-> 0]
    /\ tokens = [c \in Calls |-> NoGrant]
    /\ sessions = [c \in Calls |-> NoGrant]
    /\ loggedIn = {}
    /\ call = [c \in Calls |-> Idle("new")]

Tick ==
    /\ now < MaxClock
    /\ now' = now + 1
    /\ UNCHANGED <<messages, tokens, sessions, loggedIn, call>>

Answer(c, stage) == call' = [call EXCEPT ![c] = Idle(stage)]

(* RestJwtAuthGuard: no token, or one that has expired.                    *)
Refuse(c) ==
    /\ At(c, "new")
    /\ \E d \in Calls : ~Valid(tokens[d])
    /\ Answer(c, "unauthorized")
    /\ UNCHANGED <<now, messages, tokens, sessions, loggedIn>>

Passes(r, token) == r.guarded => Valid(token)

(* The client has no such function.                                        *)
FailToCall(c) ==
    /\ At(c, "new")
    /\ \E r \in GameplayController, d \in Calls : ~Callable(r.method) /\ Passes(r, tokens[d])
    /\ Answer(c, "internal error")
    /\ UNCHANGED <<now, messages, tokens, sessions, loggedIn>>

(* A body has the fields of the request that the API documents; it may     *)
(* name a user, too.  A login shows a message and the account of a user,   *)
(* and a refresh the refresh token of a session.                           *)
Body(r, u) == (RequestOf(r.method) \ {"userId", "deviceInfo"})
              \cup IF u = Nobody THEN {} ELSE {"userId"}
Shown(r) == IF r.method = "verifySignature"
            THEN {[user |-> u, until |-> messages[d]] : u \in Users, d \in Calls}
            ELSE IF r.method = "refresh" THEN {sessions[d] : d \in Calls}
            ELSE {NoGrant}

(* this.gameplayService.method({ ...request, userId: user?.id }): what the *)
(* gateway adds replaces what the body has, and the message made of the    *)
(* object has only the fields of its type.                                 *)
Send(c) ==
    /\ At(c, "new")
    /\ \E r \in GameplayController, d \in Calls, u \in Users \cup {Nobody} :
        /\ Callable(r.method) /\ Passes(r, tokens[d])
        /\ \E s \in Shown(r) :
            call' = [call EXCEPT ![c] =
                [stage |-> "sent", method |-> r.method, bearer |-> tokens[d], shows |-> s,
                 fields |-> Carried(r.method, Body(r, u) \cup r.adds),
                 userId |-> IF "userId" \in r.adds THEN tokens[d].user ELSE u]]
    /\ UNCHANGED <<now, messages, tokens, sessions, loggedIn>>

HandOutMessage(c) ==
    /\ messages' = [messages EXCEPT ![c] = now + MessageTime]
    /\ Answer(c, "served")
    /\ UNCHANGED <<now, tokens, sessions, loggedIn>>

RequestMessage(c) ==
    /\ At(c, "sent") /\ Method(c) = "requestMessage"
    /\ HandOutMessage(c)

(* A message signed with the key of a test account, of whatever chain      *)
GenerateSignature(c) ==
    /\ At(c, "sent") /\ Method(c) = "generateSignature"
    /\ HandOutMessage(c)

(* generateAuthCredentials and the session that goes with them             *)
Credentials(c, u) ==
    /\ tokens' = [tokens EXCEPT ![c] = Grant(u, AccessTime)]
    /\ sessions' = [sessions EXCEPT ![c] = Grant(u, RefreshTime)]
    /\ Answer(c, "served")

(* The message is in the cache and the chain's service finds it signed with*)
(* the key the request names.  The account is the one the request shows:   *)
(* on some chains the key itself, on Aptos, Polkadot and Near the field    *)
(* accountAddress, which nothing ties to the key.  The first login of an   *)
(* account makes its user (SignUp of Seeding).                             *)
VerifySignature(c) ==
    /\ At(c, "sent") /\ Method(c) = "verifySignature"
    /\ Valid(call[c].shows)
    /\ loggedIn' = loggedIn \cup {call[c].shows.user}
    /\ Credentials(c, call[c].shows.user)
    /\ UNCHANGED <<now, messages>>

(* The session of the token, which is not over.  It stays.                 *)
Refresh(c) ==
    /\ At(c, "sent") /\ Method(c) = "refresh"
    /\ call[c].shows # NoGrant /\ now <= call[c].shows.until
    /\ Credentials(c, call[c].shows.user)
    /\ UNCHANGED <<now, messages, loggedIn>>

(* No such message, a wrong signature, no such session or an expired one,  *)
(* or any failure of the service                                           *)
FailToServe(c) ==
    /\ At(c, "sent")
    /\ Answer(c, "failed")
    /\ UNCHANGED <<now, messages, tokens, sessions, loggedIn>>

Serve(c) ==
    /\ At(c, "sent")
    /\ Method(c) \notin {"requestMessage", "generateSignature", "verifySignature", "refresh"}
    /\ Controllers(Method(c)) # {}
    /\ Answer(c, "served")
    /\ UNCHANGED <<now, messages, tokens, sessions, loggedIn>>

----------------------------------------------------------------------------
Next ==
    \/ Tick
    \/ \E c \in Calls :
        \/ Refuse(c)
        \/ FailToCall(c)
        \/ Send(c)
        \/ RequestMessage(c)
        \/ GenerateSignature(c)
        \/ VerifySignature(c)
        \/ Refresh(c)
        \/ FailToServe(c)
        \/ Serve(c)

Spec == Init /\ [][Next]_vars

----------------------------------------------------------------------------
(* The API as its classes document it: a request with all its fields, and  *)
(* a token where one is needed, reaches its service with all of them.      *)
(* upgrade-building.spec.ts:47 sends placedItemBuildingId, for one.        *)
RequestsArriveWhole ==
    \A c \in Calls :
        /\ At(c, "sent") => RequestOf(Method(c)) \subseteq call[c].fields
        /\ ~At(c, "internal error")

(* Whatever user the body names, a service that acts for a user acts for   *)
(* the one the access token was handed out to, for whom a login was served,*)
(* whatever chain of sessions the token comes from.                        *)
ActsForCaller ==
    \A c \in Calls :
        At(c, "sent") /\ "userId" \in call[c].fields =>
            /\ call[c].userId = call[c].bearer.user
            /\ call[c].userId \in loggedIn
=============================================================================
