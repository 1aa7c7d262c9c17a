---------------------------- MODULE Credentials ----------------------------
(***************************************************************************)
(* Who may do what: login sessions, the content tokens minted from them for *)
(* the frames of shards, the integration tokens users hand to tools, and    *)
(* the middleware that makes a principal of what a request carries.         *)
(* Authentication and the work of a handler are steps of their own: a       *)
(* logout, an expiry or a revocation may come in between.                  *)
(***************************************************************************)
EXTENDS Naturals, FiniteSets

CONSTANTS
  People,          \* who may have an account
  SessionTokens,   \* the session tokens that may be drawn
  FrameTokens,     \* the content tokens that may be drawn
  ToolTokens,      \* the integration tokens that may be drawn
  Calls,           \* HTTP requests
  CallPlans,       \* instances: the route each request takes
  SignedIn,        \* the sessions there are as the instance begins, with their users
  NoToken,         \* a request without a cookie or without a bearer
  Nobody

ASSUME CredentialAssumption ==
  /\ NoToken \notin SessionTokens \cup FrameTokens \cup ToolTokens
  /\ SessionTokens \cap FrameTokens = {} /\ (SessionTokens \cup FrameTokens) \cap ToolTokens = {}
  /\ DOMAIN SignedIn \subseteq SessionTokens /\ \A s \in DOMAIN SignedIn : SignedIn[s] \in People
  /\ CallPlans \subseteq [Calls -> {"register", "login", "logout", "mint", "issue", "revoke", "read", "write", "content"}]

VARIABLES
  accounts,   \* users
  session,    \* user_sessions
  frame,      \* content_tokens: the session each was minted from
  grant,      \* integration_tokens
  call        \* what became of each request

credentialVars == <<accounts, session, frame, grant, call>>

Tokens == SessionTokens \cup FrameTokens \cup ToolTokens
Routes == {"register", "login", "logout", "mint", "issue", "revoke", "read", "write", "content"}
Scopes == {"artifacts:read", "artifacts:write", "*"}

NewCall == [at |-> "unsent", route |-> "read", cookie |-> NoToken, bearer |-> NoToken, by |-> NoToken, outcome |-> "none"]

\* The type invariant.
CredentialTypeOK ==
  /\ accounts \subseteq People
  /\ session \in [SessionTokens -> [of : People \cup {Nobody}, status : {"none", "live", "revoked", "expired"}]]
  /\ frame \in [FrameTokens -> [from : SessionTokens \cup {NoToken}, there : BOOLEAN]]
  /\ grant \in [ToolTokens -> [of : People \cup {Nobody}, scopes : SUBSET Scopes, status : {"none", "active", "revoked", "expired"}]]
  /\ \A c \in Calls : call[c].route \in Routes /\ {call[c].cookie, call[c].bearer, call[c].by} \subseteq Tokens \cup {NoToken}

CredentialInit ==
  /\ accounts = {SignedIn[s] : s \in DOMAIN SignedIn}
  /\ session = [s \in SessionTokens |-> IF s \in DOMAIN SignedIn THEN [of |-> SignedIn[s], status |-> "live"]
                                       ELSE [of |-> Nobody, status |-> "none"]]
  /\ frame = [f \in FrameTokens |-> [from |-> NoToken, there |-> FALSE]]
  /\ grant = [g \in ToolTokens |-> [of |-> Nobody, scopes |-> {}, status |-> "none"]]
  /\ \E plan \in CallPlans : call = [c \in Calls |-> [NewCall EXCEPT !.route = plan[c]]]

-----------------------------------------------------------------------------
(* Looking tokens up. *)

SessionLive(s) == session[s].status = "live"

\* GetContentTokenUser joins the issuing session: the token is worth what that is.
FrameLive(f) == frame[f].there /\ SessionLive(frame[f].from)

\* ResolveBearerToken: as a session, else as an integration token, else as a content token.
Resolves(t) ==
  \/ t \in SessionTokens /\ SessionLive(t)
  \/ t \in ToolTokens /\ grant[t].status = "active"
  \/ t \in FrameTokens /\ FrameLive(t)

OwnerOf(t) ==
  IF t \in SessionTokens THEN session[t].of
  ELSE IF t \in ToolTokens THEN grant[t].of ELSE session[frame[t].from].of

\* contentTokenAllowed, "the choke point that makes a shard's URL credential safe".
ContentTokenAllowed(t, route) == t \in FrameTokens => route = "content"

IsPublicRoute(route) == route \in {"register", "login", "logout"}

\* HasScope; a content token is given the right to read on the content route alone.
HasScope(t, scope) ==
  \/ t \in SessionTokens
  \/ t \in ToolTokens /\ grant[t].scopes \cap {scope, "*"} # {}

-----------------------------------------------------------------------------
(* A request. *)

\* What clients have been given: a token once drawn may be sent by anyone who has it.
Drawn == {s \in SessionTokens : session[s].status # "none"} \cup {f \in FrameTokens : frame[f].from # NoToken}
         \cup {g \in ToolTokens : grant[g].status # "none"}

SendCall(c) ==
  /\ call[c].at = "unsent"
  /\ \E cookie, bearer \in Drawn \cup {NoToken} :
       call' = [call EXCEPT ![c] = [@ EXCEPT !.at = "cookie", !.cookie = cookie, !.bearer = bearer]]
  /\ UNCHANGED <<accounts, session, frame, grant>>

Step(c, at) == call' = [call EXCEPT ![c].at = at]
Respond(c, outcome) == call' = [call EXCEPT ![c] = [@ EXCEPT !.at = "done", !.outcome = outcome]]
As(c, t) == call' = [call EXCEPT ![c] = [@ EXCEPT !.at = "act", !.by = t]]

\* authMiddleware: "a scoped bearer placed in a cookie must never be promoted".
AuthByCookie(c) ==
  /\ call[c].at = "cookie"
  /\ IF call[c].cookie \in SessionTokens /\ Resolves(call[c].cookie) THEN As(c, call[c].cookie) ELSE Step(c, "bearer")
  /\ UNCHANGED <<accounts, session, frame, grant>>

\* The Authorization header, or the parameter of a frame and a socket.
AuthByBearer(c) ==
  LET t == call[c].bearer
  IN /\ call[c].at = "bearer"
     /\ IF t # NoToken /\ Resolves(t)
        THEN IF ContentTokenAllowed(t, call[c].route) THEN As(c, t) ELSE Respond(c, "unauthenticated")
        ELSE IF IsPublicRoute(call[c].route) THEN As(c, NoToken) ELSE Respond(c, "unauthenticated")
     /\ UNCHANGED <<accounts, session, frame, grant>>

-----------------------------------------------------------------------------
(* The handlers. *)

Acting(c, routes) == call[c].at = "act" /\ call[c].route \in routes

\* createSession, with a token nobody has seen.
CreateSession(c, p) ==
  \E s \in SessionTokens :
    /\ session[s].status = "none" /\ session' = [session EXCEPT ![s] = [of |-> p, status |-> "live"]]
    /\ Respond(c, "ok")

\* The unique index on the address turns the second of two registrations away; a
\* crash leaves an account without a session, which can log in.
Register(c) ==
  /\ Acting(c, {"register"})
  /\ \E p \in People :
       IF p \in accounts THEN Respond(c, "refused") /\ UNCHANGED <<accounts, session>>
       ELSE accounts' = accounts \cup {p} /\ (CreateSession(c, p) \/ (Respond(c, "lost") /\ UNCHANGED session))
  /\ UNCHANGED <<frame, grant>>

Login(c) ==
  /\ Acting(c, {"login"})
  /\ \/ \E p \in accounts : CreateSession(c, p)
     \/ Respond(c, "unauthenticated") /\ UNCHANGED session   \* no such account, or another password
  /\ UNCHANGED <<accounts, frame, grant>>

\* RevokeSession, which finds sessions only.
Revoked(t) == IF t \in SessionTokens /\ SessionLive(t) THEN [session EXCEPT ![t].status = "revoked"] ELSE session

\* The session of the cookie and then that of the header, with or without a principal.
Logout(c) ==
  /\ call[c].route = "logout"
  /\ \/ call[c].at = "act" /\ session' = Revoked(call[c].cookie) /\ Step(c, "also")
     \/ call[c].at = "also" /\ session' = Revoked(call[c].bearer) /\ Respond(c, "ok")
  /\ UNCHANGED <<accounts, frame, grant>>

\* RequireUserSession.
Forbidden(c) == call[c].by \notin SessionTokens /\ Respond(c, "forbidden")

\* Mutant: the authentication of the request is relied upon.
BugCreateContentToken(c) ==
  \E f \in FrameTokens :
    /\ frame[f].from = NoToken /\ frame' = [frame EXCEPT ![f] = [from |-> call[c].by, there |-> TRUE]]
    /\ Step(c, "reap")

\* "Re-check at mint time: authentication and insertion can straddle logout."
CreateContentToken(c) ==
  IF SessionLive(call[c].by)
  THEN \E f \in FrameTokens :
         /\ frame[f].from = NoToken /\ frame' = [frame EXCEPT ![f] = [from |-> call[c].by, there |-> TRUE]]
         /\ Step(c, "reap")
  ELSE Respond(c, "unauthenticated") /\ UNCHANGED frame

\* DeleteExpiredContentTokens, once a token was minted, whether or not it fails.
Reap(c) ==
  /\ frame' = [f \in FrameTokens |-> [frame[f] EXCEPT !.there = FrameLive(f)]]
  /\ Respond(c, "ok")

MintContentToken(c) ==
  /\ call[c].route = "mint"
  /\ \/ call[c].at = "act" /\ Forbidden(c) /\ UNCHANGED frame
     \/ call[c].at = "act" /\ call[c].by \in SessionTokens /\ CreateContentToken(c)
     \/ call[c].at = "reap" /\ (Reap(c) \/ (Respond(c, "ok") /\ UNCHANGED frame))
  /\ UNCHANGED <<accounts, session, grant>>

\* An integration token is the account's: it does not end with the session.
CreateIntegrationToken(c) ==
  /\ Acting(c, {"issue"})
  /\ \/ Forbidden(c) /\ UNCHANGED grant
     \/ /\ call[c].by \in SessionTokens
        /\ \E g \in ToolTokens, scopes \in {{"artifacts:read"}, {"*"}} :
             /\ grant[g].status = "none"
             /\ grant' = [grant EXCEPT ![g] = [of |-> OwnerOf(call[c].by), scopes |-> scopes, status |-> "active"]]
             /\ Respond(c, "ok")
  /\ UNCHANGED <<accounts, session, frame>>

\* Only the owner's, and only once.
RevokeIntegrationToken(c) ==
  /\ Acting(c, {"revoke"})
  /\ \/ Forbidden(c) /\ UNCHANGED grant
     \/ /\ call[c].by \in SessionTokens
        /\ \E g \in ToolTokens :
             IF grant[g].status \in {"active", "expired"} /\ grant[g].of = OwnerOf(call[c].by)
             THEN grant' = [grant EXCEPT ![g].status = "revoked"] /\ Respond(c, "ok")
             ELSE Respond(c, "missing") /\ UNCHANGED grant
  /\ UNCHANGED <<accounts, session, frame>>

\* Any other handler, by the scope its service requires.
Serve(c) ==
  /\ Acting(c, {"read", "write", "content"})
  /\ IF \/ call[c].route = "content" /\ call[c].by \in FrameTokens
        \/ call[c].route # "write" /\ HasScope(call[c].by, "artifacts:read")
        \/ call[c].route = "write" /\ HasScope(call[c].by, "artifacts:write")
     THEN Respond(c, "ok") ELSE Respond(c, "forbidden")
  /\ UNCHANGED <<accounts, session, frame, grant>>

\* Time passes for a session or an integration token.
Expire ==
  /\ \/ \E s \in SessionTokens :
          SessionLive(s) /\ session' = [session EXCEPT ![s].status = "expired"] /\ UNCHANGED grant
     \/ \E g \in ToolTokens :
          grant[g].status = "active" /\ grant' = [grant EXCEPT ![g].status = "expired"] /\ UNCHANGED session
  /\ UNCHANGED <<accounts, frame, call>>

CredentialNext ==
  \/ Expire
  \/ \E c \in Calls :
       \/ SendCall(c) \/ AuthByCookie(c) \/ AuthByBearer(c)
       \/ Register(c) \/ Login(c) \/ Logout(c) \/ MintContentToken(c)
       \/ CreateIntegrationToken(c) \/ RevokeIntegrationToken(c) \/ Serve(c)

CredentialSpec == CredentialInit /\ [][CredentialNext]_credentialVars

-----------------------------------------------------------------------------
(* Properties. *)

\* server.go, service.go: whatever was carried in whichever place, and whatever was
\* revoked meanwhile, a content token only ever fetched documents, and what makes or
\* ends credentials was done by a session.
ActsWithinScope ==
  \A c \in Calls : call[c].outcome = "ok" /\ call[c].by # NoToken =>
    /\ call[c].by \in FrameTokens => call[c].route = "content"
    /\ call[c].route \in {"mint", "issue", "revoke"} => call[c].by \in SessionTokens

\* repository.go: a session that is over, also one that ended between the
\* authentication of a request and its insertion, leaves no content token behind.
MintsNeedLiveSession ==
  \A f \in FrameTokens : frame'[f].there /\ ~frame[f].there => SessionLive(frame'[f].from)

\* A credential is worth what it was given for, and no longer than that.
CredentialsStayScoped == [][ActsWithinScope' /\ MintsNeedLiveSession]_credentialVars
=============================================================================
