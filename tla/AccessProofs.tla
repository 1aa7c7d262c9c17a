---------------------------- MODULE AccessProofs ----------------------------
(* Credentials and connections: a request never does more than what it carried allows,
   and an answered disconnect holds, for any sets of people, tokens, rows and requests. *)
EXTENDS Credentials, Connections, TLAPS

---------------------------------------------------------------------------
(* Credentials. *)

Places == {"unsent", "cookie", "bearer", "act", "also", "reap", "done"}
CallType ==
  [at : Places, route : Routes, cookie : Tokens \cup {NoToken}, bearer : Tokens \cup {NoToken},
   by : Tokens \cup {NoToken}, outcome : {"none", "ok", "refused", "lost", "unauthenticated", "forbidden", "missing"}]

CredentialTypes == CredentialTypeOK /\ call \in [Calls -> CallType]

(* Once a request is answered nothing else becomes of it, a content token is let through
   on the content route alone, and what waits to be reaped was minted by a session. *)
CallsInScope ==
  \A c \in Calls :
    /\ call[c].outcome # "none" => call[c].at = "done"
    /\ call[c].by \in FrameTokens => call[c].route = "content"
    /\ call[c].at = "reap" => call[c].by \in SessionTokens

CredentialInv == CredentialTypes /\ CallsInScope /\ ActsWithinScope

LEMMA CredentialInitInv == CredentialInit => CredentialInv
<1> SUFFICES ASSUME CredentialInit PROVE CredentialInv
  OBVIOUS
<1> USE CredentialAssumption DEF CredentialInit
<1>1. PICK plan \in CallPlans : call = [c \in Calls |-> [NewCall EXCEPT !.route = plan[c]]]
  OBVIOUS
<1>2. \A c \in Calls : call[c] = [NewCall EXCEPT !.route = plan[c]] /\ plan[c] \in Routes
  BY <1>1 DEF Routes
<1>3. call \in [Calls -> CallType]
  BY <1>1, <1>2 DEF NewCall, CallType, Places
<1>4. session \in [SessionTokens -> [of : People \cup {Nobody}, status : {"none", "live", "revoked", "expired"}]]
  OBVIOUS
<1>5. CredentialTypeOK
  BY <1>3, <1>4 DEF CredentialTypeOK, CallType
<1>6. CallsInScope /\ ActsWithinScope
  <2>1. \A c \in Calls : call[c].at = "unsent" /\ call[c].outcome = "none" /\ call[c].by = NoToken
    BY <1>2 DEF NewCall
  <2> QED BY <2>1 DEF CallsInScope, ActsWithinScope
<1> QED BY <1>3, <1>5, <1>6 DEF CredentialInv, CredentialTypes

(* A step of one request, to a call that is in scope itself. *)
LEMMA CallKeeps ==
  ASSUME CredentialInv, NEW c \in Calls, NEW d \in CallType, call' = [call EXCEPT ![c] = d],
         accounts' \subseteq People,
         session' \in [SessionTokens -> [of : People \cup {Nobody}, status : {"none", "live", "revoked", "expired"}]],
         frame' \in [FrameTokens -> [from : SessionTokens \cup {NoToken}, there : BOOLEAN]],
         grant' \in [ToolTokens -> [of : People \cup {Nobody}, scopes : SUBSET Scopes,
                                    status : {"none", "active", "revoked", "expired"}]],
         d.outcome # "none" => d.at = "done",
         d.by \in FrameTokens => d.route = "content",
         d.at = "reap" => d.by \in SessionTokens,
         d.outcome = "ok" /\ d.by # NoToken /\ d.route \in {"mint", "issue", "revoke"} => d.by \in SessionTokens
  PROVE  CredentialInv'
<1>1. call' \in [Calls -> CallType]
  BY DEF CredentialInv, CredentialTypes
<1>2. \A e \in Calls : call'[e] = IF e = c THEN d ELSE call[e]
  BY DEF CredentialInv, CredentialTypes
<1>3. CredentialTypeOK'
  BY <1>1 DEF CredentialTypeOK, CallType
<1>4. CallsInScope' /\ ActsWithinScope'
  BY <1>2 DEF CredentialInv, CallsInScope, ActsWithinScope
<1> QED BY <1>1, <1>3, <1>4 DEF CredentialInv, CredentialTypes

(* The three ways a handler goes on keep its request as it was sent. *)
LEMMA RespondKeeps ==
  ASSUME CredentialInv, NEW c \in Calls,
         NEW outcome \in {"ok", "refused", "lost", "unauthenticated", "forbidden", "missing"},
         Respond(c, outcome),
         outcome = "ok" /\ call[c].route \in {"mint", "issue", "revoke"} => call[c].by \in SessionTokens,
         accounts' \subseteq People,
         session' \in [SessionTokens -> [of : People \cup {Nobody}, status : {"none", "live", "revoked", "expired"}]],
         frame' \in [FrameTokens -> [from : SessionTokens \cup {NoToken}, there : BOOLEAN]],
         grant' \in [ToolTokens -> [of : People \cup {Nobody}, scopes : SUBSET Scopes,
                                    status : {"none", "active", "revoked", "expired"}]]
  PROVE  CredentialInv'
<1> DEFINE d == [call[c] EXCEPT !.at = "done", !.outcome = outcome]
<1>1. call[c] \in CallType
  BY DEF CredentialInv, CredentialTypes
<1>2. /\ d \in CallType /\ d.at = "done" /\ d.route = call[c].route /\ d.by = call[c].by /\ d.outcome = outcome
  BY <1>1 DEF CallType, Places
<1>3. call' = [call EXCEPT ![c] = d]
  BY DEF Respond
<1>4. d.by \in FrameTokens => d.route = "content"
  BY <1>2 DEF CredentialInv, CallsInScope
<1> HIDE DEF d
<1> QED BY <1>2, <1>3, <1>4, CallKeeps

LEMMA StepKeeps ==
  ASSUME CredentialInv, NEW c \in Calls, NEW at \in Places, Step(c, at), call[c].at # "done",
         at = "reap" => call[c].by \in SessionTokens,
         UNCHANGED <<accounts, grant>>,
         session' \in [SessionTokens -> [of : People \cup {Nobody}, status : {"none", "live", "revoked", "expired"}]],
         frame' \in [FrameTokens -> [from : SessionTokens \cup {NoToken}, there : BOOLEAN]]
  PROVE  CredentialInv'
<1> DEFINE d == [call[c] EXCEPT !.at = at]
<1>1. call[c] \in CallType /\ call \in [Calls -> CallType]
  BY DEF CredentialInv, CredentialTypes
<1>2. /\ d \in CallType /\ d.at = at /\ d.route = call[c].route /\ d.by = call[c].by /\ d.outcome = call[c].outcome
  BY <1>1 DEF CallType
<1>3. call' = [call EXCEPT ![c] = d]
  BY <1>1 DEF Step
<1>4. d.by \in FrameTokens => d.route = "content"
  BY <1>2 DEF CredentialInv, CallsInScope
<1>5. d.outcome = "none"
  BY <1>2 DEF CredentialInv, CallsInScope
<1>6. accounts' \subseteq People /\ grant' \in [ToolTokens -> [of : People \cup {Nobody}, scopes : SUBSET Scopes,
                                    status : {"none", "active", "revoked", "expired"}]]
  BY DEF CredentialInv, CredentialTypes, CredentialTypeOK
<1> HIDE DEF d
<1> QED BY <1>2, <1>3, <1>4, <1>5, <1>6, CallKeeps

LEMMA AsKeeps ==
  ASSUME CredentialInv, NEW c \in Calls, NEW t \in Tokens \cup {NoToken}, As(c, t), call[c].at # "done",
         t \in FrameTokens => call[c].route = "content",
         UNCHANGED <<accounts, session, frame, grant>>
  PROVE  CredentialInv'
<1> DEFINE d == [call[c] EXCEPT !.at = "act", !.by = t]
<1>1. call[c] \in CallType
  BY DEF CredentialInv, CredentialTypes
<1>2. /\ d \in CallType /\ d.at = "act" /\ d.route = call[c].route /\ d.by = t /\ d.outcome = call[c].outcome
  BY <1>1 DEF CallType, Places
<1>3. call' = [call EXCEPT ![c] = d]
  BY DEF As
<1>4. d.outcome = "none"
  BY <1>2 DEF CredentialInv, CallsInScope
<1> HIDE DEF d
<1> QED BY <1>2, <1>3, <1>4, CallKeeps DEF CredentialInv, CredentialTypes, CredentialTypeOK

LEMMA CredentialNextInv == CredentialInv /\ [CredentialNext]_credentialVars => CredentialInv'
<1> SUFFICES ASSUME CredentialInv, [CredentialNext]_credentialVars PROVE CredentialInv'
  OBVIOUS
<1> USE DEF CredentialInv, CredentialTypes
<1> DEFINE SessionType == [of : People \cup {Nobody}, status : {"none", "live", "revoked", "expired"}]
           FrameType == [from : SessionTokens \cup {NoToken}, there : BOOLEAN]
           GrantType == [of : People \cup {Nobody}, scopes : SUBSET Scopes,
                         status : {"none", "active", "revoked", "expired"}]
<1>1. /\ accounts \subseteq People /\ session \in [SessionTokens -> SessionType]
      /\ frame \in [FrameTokens -> FrameType] /\ grant \in [ToolTokens -> GrantType]
  BY DEF CredentialTypeOK
<1>2. CASE UNCHANGED credentialVars
  BY <1>2 DEF credentialVars, CredentialTypeOK, CallsInScope, ActsWithinScope
<1>3. CASE Expire
  <2>1. session' \in [SessionTokens -> SessionType] /\ grant' \in [ToolTokens -> GrantType]
    <3>1. CASE \E t \in SessionTokens : session' = [session EXCEPT ![t].status = "expired"] /\ UNCHANGED grant
      BY <1>1, <3>1
    <3>2. CASE \E g \in ToolTokens : grant' = [grant EXCEPT ![g].status = "expired"] /\ UNCHANGED session
      BY SMTT(30), <1>1, <3>2
    <3> QED BY <1>3, <3>1, <3>2 DEF Expire
  <2> QED BY <1>1, <1>3, <2>1 DEF Expire, CredentialTypeOK, CallsInScope, ActsWithinScope
<1>4. ASSUME NEW c \in Calls, SendCall(c) PROVE CredentialInv'
  <2>1. PICK cookie, bearer \in Drawn \cup {NoToken} :
          call' = [call EXCEPT ![c] = [@ EXCEPT !.at = "cookie", !.cookie = cookie, !.bearer = bearer]]
    BY <1>4 DEF SendCall
  <2> DEFINE d == [call[c] EXCEPT !.at = "cookie", !.cookie = cookie, !.bearer = bearer]
  <2>2. cookie \in Tokens \cup {NoToken} /\ bearer \in Tokens \cup {NoToken} /\ call[c] \in CallType
    BY DEF Drawn, Tokens
  <2>3. d \in CallType /\ d.at = "cookie" /\ d.by = call[c].by /\ d.route = call[c].route
        /\ d.outcome = call[c].outcome /\ d.outcome = "none"
    BY <1>4, <2>2 DEF CallType, Places, SendCall, CallsInScope
  <2>4. call' = [call EXCEPT ![c] = d]
    BY <2>1
  <2>5. d.by \in FrameTokens => d.route = "content"
    BY <2>3 DEF CallsInScope
  <2> HIDE DEF d
  <2> QED BY <1>1, <1>4, <2>3, <2>4, <2>5, CallKeeps DEF SendCall
<1>5. ASSUME NEW c \in Calls, AuthByCookie(c) PROVE CredentialInv'
  <2>1. CASE As(c, call[c].cookie) /\ call[c].cookie \in SessionTokens
    BY <1>5, <2>1, AsKeeps, CredentialAssumption DEF AuthByCookie, Tokens
  <2>2. CASE Step(c, "bearer")
    BY <1>1, <1>5, <2>2, StepKeeps DEF AuthByCookie, Places
  <2> QED BY <1>5, <2>1, <2>2 DEF AuthByCookie
<1>6. ASSUME NEW c \in Calls, AuthByBearer(c) PROVE CredentialInv'
  <2> DEFINE t == call[c].bearer
  <2>1. call[c].at = "bearer" /\ t \in Tokens \cup {NoToken} /\ UNCHANGED <<accounts, session, frame, grant>>
    BY <1>6 DEF AuthByBearer, CallType
  <2>2. CASE As(c, t) /\ ContentTokenAllowed(t, call[c].route)
    BY <2>1, <2>2, AsKeeps DEF ContentTokenAllowed
  <2>3. CASE As(c, NoToken)
    BY <2>1, <2>3, AsKeeps, CredentialAssumption
  <2>4. CASE Respond(c, "unauthenticated")
    BY <1>1, <2>1, <2>4, RespondKeeps
  <2> QED BY <1>6, <2>2, <2>3, <2>4 DEF AuthByBearer
<1>7. ASSUME NEW c \in Calls, NEW p \in People, CreateSession(c, p),
             call[c].route \in {"register", "login"}, accounts' \subseteq People, UNCHANGED <<frame, grant>>
      PROVE  CredentialInv'
  <2>1. session' \in [SessionTokens -> SessionType] /\ Respond(c, "ok")
    BY <1>1, <1>7 DEF CreateSession
  <2> QED BY <1>1, <1>7, <2>1, RespondKeeps
<1>8. ASSUME NEW c \in Calls, Register(c) PROVE CredentialInv'
  <2>1. call[c].route = "register" /\ UNCHANGED <<frame, grant>>
    BY <1>8 DEF Register, Acting
  <2>2. PICK p \in People :
          IF p \in accounts THEN Respond(c, "refused") /\ UNCHANGED <<accounts, session>>
          ELSE accounts' = accounts \cup {p} /\ (CreateSession(c, p) \/ (Respond(c, "lost") /\ UNCHANGED session))
    BY <1>8 DEF Register
  <2>3. CASE p \in accounts
    BY <1>1, <2>1, <2>2, <2>3, RespondKeeps
  <2>4. CASE p \notin accounts /\ CreateSession(c, p)
    BY <1>1, <1>7, <2>1, <2>2, <2>4
  <2>5. CASE p \notin accounts /\ Respond(c, "lost") /\ UNCHANGED session
    BY <1>1, <2>1, <2>2, <2>5, RespondKeeps
  <2> QED BY <2>2, <2>3, <2>4, <2>5
<1>9. ASSUME NEW c \in Calls, Login(c) PROVE CredentialInv'
  <2>1. call[c].route = "login" /\ UNCHANGED <<accounts, frame, grant>>
    BY <1>9 DEF Login, Acting
  <2>2. CASE \E p \in accounts : CreateSession(c, p)
    BY <1>1, <1>7, <2>1, <2>2
  <2>3. CASE Respond(c, "unauthenticated") /\ UNCHANGED session
    BY <1>1, <2>1, <2>3, RespondKeeps
  <2> QED BY <1>9, <2>2, <2>3 DEF Login
<1>10. ASSUME NEW c \in Calls, Logout(c) PROVE CredentialInv'
  <2>1. session' \in [SessionTokens -> SessionType]
    <3>1. \A t : Revoked(t) \in [SessionTokens -> SessionType]
      BY <1>1 DEF Revoked
    <3> QED BY <1>10, <3>1 DEF Logout
  <2>2. CASE call[c].at = "act" /\ Step(c, "also")
    BY <1>1, <1>10, <2>1, <2>2, StepKeeps DEF Logout, Places
  <2>3. CASE Respond(c, "ok")
    BY <1>1, <1>10, <2>1, <2>3, RespondKeeps DEF Logout
  <2> QED BY <1>10, <2>2, <2>3 DEF Logout
<1>11. ASSUME NEW c \in Calls, MintContentToken(c) PROVE CredentialInv'
  <2>1. UNCHANGED <<accounts, session, grant>> /\ call[c].route = "mint"
    BY <1>11 DEF MintContentToken
  <2>2. CASE Respond(c, "forbidden") /\ UNCHANGED frame
    BY <1>1, <2>1, <2>2, RespondKeeps
  <2>3. CASE call[c].at = "act" /\ call[c].by \in SessionTokens /\ CreateContentToken(c)
    <3>1. CASE Respond(c, "unauthenticated") /\ UNCHANGED frame
      BY <1>1, <2>1, <3>1, RespondKeeps
    <3>2. CASE \E f \in FrameTokens :
                 frame' = [frame EXCEPT ![f] = [from |-> call[c].by, there |-> TRUE]] /\ Step(c, "reap")
      <4>1. frame' \in [FrameTokens -> FrameType]
        BY <1>1, <2>3, <3>2
      <4> QED BY <1>1, <2>1, <2>3, <3>2, <4>1, StepKeeps DEF Places
    <3> QED BY <2>3, <3>1, <3>2 DEF CreateContentToken
  <2>4. CASE call[c].at = "reap" /\ Respond(c, "ok")
    <3>1. call[c].by \in SessionTokens
      BY <2>4 DEF CallsInScope
    <3>2. frame' \in [FrameTokens -> FrameType]
      <4>1. CASE Reap(c)
        <5>1. \A f \in FrameTokens : [frame[f] EXCEPT !.there = FrameLive(f)] \in FrameType
          BY <1>1 DEF FrameLive, SessionLive
        <5> QED BY <4>1, <5>1 DEF Reap
      <4>2. CASE UNCHANGED frame
        BY <1>1, <4>2
      <4> QED BY <1>11, <2>4, <4>1, <4>2 DEF MintContentToken
    <3> QED BY <1>1, <2>1, <2>4, <3>1, <3>2, RespondKeeps
  <2> QED BY <1>11, <2>2, <2>3, <2>4 DEF MintContentToken, Forbidden, Reap
<1>12. ASSUME NEW c \in Calls, CreateIntegrationToken(c) PROVE CredentialInv'
  <2>1. UNCHANGED <<accounts, session, frame>>
    BY <1>12 DEF CreateIntegrationToken
  <2>2. CASE Respond(c, "forbidden") /\ UNCHANGED grant
    BY <1>1, <2>1, <2>2, RespondKeeps
  <2>3. CASE call[c].by \in SessionTokens /\ Respond(c, "ok") /\
             \E g \in ToolTokens, scopes \in {{"artifacts:read"}, {"*"}} :
               grant' = [grant EXCEPT ![g] = [of |-> OwnerOf(call[c].by), scopes |-> scopes, status |-> "active"]]
    <3>1. OwnerOf(call[c].by) \in People \cup {Nobody}
      BY <1>1, <2>3 DEF OwnerOf
    <3>2. grant' \in [ToolTokens -> GrantType]
      BY <1>1, <2>3, <3>1 DEF Scopes
    <3> QED BY <1>1, <2>1, <2>3, <3>2, RespondKeeps
  <2> QED BY <1>12, <2>2, <2>3 DEF CreateIntegrationToken, Forbidden
<1>13. ASSUME NEW c \in Calls, RevokeIntegrationToken(c) PROVE CredentialInv'
  <2>1. UNCHANGED <<accounts, session, frame>>
    BY <1>13 DEF RevokeIntegrationToken
  <2>2. CASE (Respond(c, "forbidden") \/ Respond(c, "missing")) /\ UNCHANGED grant
    BY <1>1, <2>1, <2>2, RespondKeeps
  <2>3. CASE call[c].by \in SessionTokens /\ Respond(c, "ok") /\
             \E g \in ToolTokens : grant' = [grant EXCEPT ![g].status = "revoked"]
    <3>1. grant' \in [ToolTokens -> GrantType]
      BY ZenonT(40), <1>1, <2>3
    <3> QED BY <1>1, <2>1, <2>3, <3>1, RespondKeeps
  <2> QED BY <1>13, <2>2, <2>3 DEF RevokeIntegrationToken, Forbidden
<1>14. ASSUME NEW c \in Calls, Serve(c) PROVE CredentialInv'
  BY <1>1, <1>14, RespondKeeps DEF Serve, Acting
<1> QED BY <1>2, <1>3, <1>4, <1>5, <1>6, <1>8, <1>9, <1>10, <1>11, <1>12, <1>13, <1>14 DEF CredentialNext

(* A content token only appears while its session lives. *)
LEMMA MintsAreLive == CredentialInv /\ [CredentialNext]_credentialVars => MintsNeedLiveSession
<1> SUFFICES ASSUME CredentialInv, [CredentialNext]_credentialVars, NEW f \in FrameTokens,
                    frame'[f].there, ~frame[f].there
             PROVE  SessionLive(frame'[f].from)
  BY DEF MintsNeedLiveSession
<1>1. frame \in [FrameTokens -> [from : SessionTokens \cup {NoToken}, there : BOOLEAN]]
  BY DEF CredentialInv, CredentialTypes, CredentialTypeOK
<1>2. PICK c \in Calls : MintContentToken(c)
  BY DEF CredentialNext, credentialVars, Expire, SendCall, AuthByCookie, AuthByBearer, Register, Login, Logout,
         CreateIntegrationToken, RevokeIntegrationToken, Serve
<1>3. CASE Reap(c)
  <2>1. frame'[f].there = FrameLive(f)
    BY <1>1, <1>3 DEF Reap
  <2> QED BY <2>1 DEF FrameLive
<1>4. CASE CreateContentToken(c)
  BY <1>1, <1>4 DEF CreateContentToken
<1> QED BY <1>2, <1>3, <1>4 DEF MintContentToken

(* Type correctness of the credentials. *)
THEOREM CredentialTypeCorrect == CredentialSpec => []CredentialTypeOK
<1>1. CredentialInv => CredentialTypeOK
  BY DEF CredentialInv, CredentialTypes
<1> QED BY <1>1, CredentialInitInv, CredentialNextInv, PTL DEF CredentialSpec

(* Whoever holds which tokens and whatever is revoked meanwhile: content tokens fetch
   documents only, what makes or ends credentials was done by a session, and no content
   token outlives the re-check of its session. *)
THEOREM CredentialsAreScoped == CredentialSpec => CredentialsStayScoped
<1>1. CredentialInv /\ [CredentialNext]_credentialVars => [ActsWithinScope' /\ MintsNeedLiveSession]_credentialVars
  BY CredentialNextInv, MintsAreLive DEF CredentialInv
<1> QED BY <1>1, CredentialInitInv, CredentialNextInv, PTL DEF CredentialSpec, CredentialsStayScoped

---------------------------------------------------------------------------
(* Connections. *)

AskType ==
  [op : {"sync", "webhook", "disconnect", "credentials"},
   at : {"unsent", "upsert", "insert", "update", "delete", "mark", "disable", "fetch", "done"},
   row : ConnectionRows \cup {0}, todo : SUBSET Linked, outcome : {"none", "ok", "failed", "missing"}]

ConnectionTypes == ConnectionTypeOK /\ asked \in [LinkCalls -> AskType]

(* What a disconnect has in hand keeps its external id, which Nango gave up before the
   row was marked; the streams of a row whose disconnect was answered rest. *)
AsksHold ==
  \A c \in LinkCalls :
    /\ asked[c].outcome # "none" => asked[c].at = "done"
    /\ asked[c].op = "disconnect" /\ asked[c].at \in {"delete", "mark", "disable"} =>
         asked[c].row \in ConnectionRows /\ link[asked[c].row].status # "none"
    /\ asked[c].op = "disconnect" /\ asked[c].at \in {"mark", "disable"} => link[asked[c].row].of \in remote.gone
    /\ asked[c].op = "disconnect" /\ asked[c].outcome = "ok" =>
         /\ asked[c].row \in ConnectionRows /\ link[asked[c].row].status # "none"
         /\ link[asked[c].row].of \in remote.gone /\ asked[c].row \notin streaming

ConnectionInv == ConnectionTypes /\ AsksHold

LEMMA ConnectionInitInv == ConnectionInit => ConnectionInv
<1> SUFFICES ASSUME ConnectionInit PROVE ConnectionInv
  OBVIOUS
<1> USE ConnectionAssumption DEF ConnectionInit
<1>1. PICK plan \in LinkPlans : asked = [c \in LinkCalls |-> NewAsk(plan[c])]
  OBVIOUS
<1>2. \A c \in LinkCalls : NewAsk(plan[c]) \in AskType /\ NewAsk(plan[c]).at = "unsent" /\ NewAsk(plan[c]).outcome = "none"
  BY DEF NewAsk, AskType
<1>3. asked \in [LinkCalls -> AskType]
  BY <1>1, <1>2
<1>4. ConnectionTypeOK
  BY DEF ConnectionTypeOK, NoConnection
<1>5. AsksHold
  BY <1>1, <1>2 DEF AsksHold
<1> QED BY <1>3, <1>4, <1>5 DEF ConnectionInv, ConnectionTypes

(* Steps that leave the rows' ids, Nango and the streams: only one request moves on. *)
LEMMA AskKeeps ==
  ASSUME ConnectionInv, NEW c \in LinkCalls, NEW d \in AskType, asked' = [asked EXCEPT ![c] = d],
         ConnectionTypeOK',
         \A r \in ConnectionRows : link[r].status # "none" => link'[r].status # "none" /\ link'[r].of = link[r].of,
         remote.gone \subseteq remote'.gone, streaming' \subseteq streaming,
         d.op = asked[c].op,
         d.outcome # "none" => d.at = "done",
         d.op = "disconnect" /\ d.at \in {"delete", "mark", "disable"} =>
           d.row \in ConnectionRows /\ link'[d.row].status # "none",
         d.op = "disconnect" /\ d.at \in {"mark", "disable"} => link'[d.row].of \in remote'.gone,
         d.op = "disconnect" /\ d.outcome = "ok" =>
           /\ d.row \in ConnectionRows /\ link'[d.row].status # "none"
           /\ link'[d.row].of \in remote'.gone /\ d.row \notin streaming'
  PROVE  ConnectionInv'
<1>1. asked' \in [LinkCalls -> AskType] /\ \A e \in LinkCalls : asked'[e] = IF e = c THEN d ELSE asked[e]
  BY DEF ConnectionInv, ConnectionTypes
<1>2. AsksHold'
  <2> SUFFICES ASSUME NEW e \in LinkCalls
               PROVE  /\ asked'[e].outcome # "none" => asked'[e].at = "done"
                      /\ asked'[e].op = "disconnect" /\ asked'[e].at \in {"delete", "mark", "disable"} =>
                           asked'[e].row \in ConnectionRows /\ link'[asked'[e].row].status # "none"
                      /\ asked'[e].op = "disconnect" /\ asked'[e].at \in {"mark", "disable"} =>
                           link'[asked'[e].row].of \in remote'.gone
                      /\ asked'[e].op = "disconnect" /\ asked'[e].outcome = "ok" =>
                           /\ asked'[e].row \in ConnectionRows /\ link'[asked'[e].row].status # "none"
                           /\ link'[asked'[e].row].of \in remote'.gone /\ asked'[e].row \notin streaming'
    BY DEF AsksHold
  <2>1. CASE e = c
    BY <1>1, <2>1
  <2>2. CASE e # c
    BY <1>1, <2>2 DEF ConnectionInv, AsksHold
  <2> QED BY <2>1, <2>2
<1> QED BY <1>1, <1>2 DEF ConnectionInv, ConnectionTypes

LEMMA DoneKeeps ==
  ASSUME ConnectionInv, NEW c \in LinkCalls, NEW outcome \in {"ok", "failed", "missing"}, Done(c, outcome),
         ConnectionTypeOK', UNCHANGED <<remote, link>>, streaming' \subseteq streaming,
         outcome = "ok" => asked[c].op # "disconnect"
  PROVE  ConnectionInv'
<1> DEFINE d == [asked[c] EXCEPT !.at = "done", !.outcome = outcome]
<1>1. asked[c] \in AskType
  BY DEF ConnectionInv, ConnectionTypes
<1>2. d \in AskType /\ d.op = asked[c].op /\ d.at = "done" /\ d.outcome = outcome
  BY <1>1 DEF AskType
<1>3. asked' = [asked EXCEPT ![c] = d]
  BY DEF Done, Now
<1> HIDE DEF d
<1> QED BY <1>2, <1>3, AskKeeps

(* An upsert makes a row active, or a free row of a connection; no row changes its id. *)
LEMMA UpsertKeeps ==
  ASSUME ConnectionInv, NEW x \in Linked, NEW saw \in SUBSET ConnectionRows, UpsertProviderConnection(x, saw),
         UNCHANGED <<remote, streaming>>, mishaps' = mishaps
  PROVE  /\ ConnectionTypeOK'
         /\ \A r \in ConnectionRows : link[r].status # "none" => link'[r].status # "none" /\ link'[r].of = link[r].of
<1>1. link \in [ConnectionRows -> [of : Linked \cup {NoLink}, status : {"none", "active", "disconnected"}]]
  BY DEF ConnectionInv, ConnectionTypes, ConnectionTypeOK
<1>2. PICK r \in ConnectionRows :
        \/ link' = [link EXCEPT ![r].status = "active"]
        \/ link[r].status = "none" /\ link' = [link EXCEPT ![r] = [of |-> x, status |-> "active"]]
  BY DEF UpsertProviderConnection, Free
<1>3. link' \in [ConnectionRows -> [of : Linked \cup {NoLink}, status : {"none", "active", "disconnected"}]]
  BY <1>1, <1>2
<1>4. \A s \in ConnectionRows : link[s].status # "none" => link'[s].status # "none" /\ link'[s].of = link[s].of
  BY <1>1, <1>2
<1> QED BY <1>3, <1>4 DEF ConnectionInv, ConnectionTypes, ConnectionTypeOK

LEMMA ConnectionNextInv == ConnectionInv /\ [ConnectionNext]_connectionVars => ConnectionInv'
<1> SUFFICES ASSUME ConnectionInv, [ConnectionNext]_connectionVars PROVE ConnectionInv'
  OBVIOUS
<1>1. ConnectionTypeOK /\ AsksHold /\ \A c \in LinkCalls : asked[c] \in AskType
  BY DEF ConnectionInv, ConnectionTypes
<1>2. CASE UNCHANGED connectionVars
  BY <1>2 DEF connectionVars, ConnectionInv, ConnectionTypes, ConnectionTypeOK, AsksHold
<1>3. CASE Consent
  <2>1. PICK x \in Linked \ (remote.held \cup remote.gone) : remote' = [remote EXCEPT !.held = @ \cup {x}]
    BY <1>3 DEF Consent
  <2>2. remote'.gone = remote.gone /\ remote' \in [held : SUBSET Linked, gone : SUBSET Linked]
        /\ remote'.held \cap remote'.gone = {}
    BY <1>1, <2>1 DEF ConnectionTypeOK
  <2> QED BY <1>3, <2>2 DEF Consent, ConnectionInv, ConnectionTypes, ConnectionTypeOK, AsksHold
<1>4. CASE Subscribe
  <2>1. PICK r \in ConnectionRows : /\ link[r].status = "active" /\ link[r].of \in remote.held
                                    /\ streaming' = streaming \cup {r}
    BY <1>4 DEF Subscribe
  <2>2. r \notin Disconnected
    BY <1>1, <2>1 DEF Disconnected, AsksHold, ConnectionTypeOK
  <2> QED BY <1>4, <2>1, <2>2 DEF Subscribe, ConnectionInv, ConnectionTypes, ConnectionTypeOK, AsksHold, Disconnected
<1>5. ASSUME NEW c \in LinkCalls, ListRemote(c) PROVE ConnectionInv'
  <2>1. UNCHANGED <<remote, link, streaming>> /\ asked[c].op = "sync"
    BY <1>5 DEF ListRemote
  <2>2. CASE Now(c, [asked[c] EXCEPT !.at = "upsert", !.todo = remote.held]) /\ UNCHANGED mishaps
    <3> DEFINE d == [asked[c] EXCEPT !.at = "upsert", !.todo = remote.held]
    <3>1. d \in AskType /\ d.op = asked[c].op /\ d.at = "upsert" /\ d.outcome = asked[c].outcome
      BY <1>1 DEF AskType, ConnectionTypeOK
    <3>2. d.outcome = "none" /\ asked' = [asked EXCEPT ![c] = d]
      BY <1>1, <1>5, <2>2, <3>1 DEF AsksHold, ListRemote, Now
    <3>3. ConnectionTypeOK'
      BY <1>1, <2>1, <2>2 DEF ConnectionTypeOK
    <3> HIDE DEF d
    <3> QED BY <2>1, <3>1, <3>2, <3>3, AskKeeps
  <2>3. CASE Mishap(c, "failed")
    <3>1. ConnectionTypeOK'
      BY <1>1, <2>1, <2>3, ConnectionAssumption DEF ConnectionTypeOK, Mishap
    <3> QED BY <2>1, <2>3, <3>1, DoneKeeps DEF Mishap
  <2> QED BY <1>5, <2>2, <2>3 DEF ListRemote, Now
<1>6. ASSUME NEW c \in LinkCalls, UpsertListed(c) PROVE ConnectionInv'
  <2>1. UNCHANGED <<remote, streaming>> /\ asked[c].op = "sync" /\ asked[c].at = "upsert" /\ asked[c].outcome = "none"
    BY <1>1, <1>6 DEF UpsertListed, AsksHold
  <2>2. CASE Done(c, "ok") /\ UNCHANGED <<link, mishaps>>
    BY <1>1, <2>1, <2>2, DoneKeeps DEF ConnectionTypeOK
  <2>3. CASE Mishap(c, "failed") /\ UNCHANGED link
    <3>1. ConnectionTypeOK'
      BY <1>1, <2>1, <2>3, ConnectionAssumption DEF ConnectionTypeOK, Mishap
    <3> QED BY <2>1, <2>3, <3>1, DoneKeeps DEF Mishap
  <2>4. CASE \E x \in asked[c].todo :
               /\ UpsertProviderConnection(x, RowsOf(x))
               /\ Now(c, [asked[c] EXCEPT !.todo = @ \ {x}]) /\ UNCHANGED mishaps
    <3>1. PICK x \in asked[c].todo :
               /\ UpsertProviderConnection(x, RowsOf(x))
               /\ Now(c, [asked[c] EXCEPT !.todo = @ \ {x}]) /\ UNCHANGED mishaps
      BY <2>4
    <3> DEFINE d == [asked[c] EXCEPT !.todo = @ \ {x}]
    <3>2. x \in Linked /\ RowsOf(x) \in SUBSET ConnectionRows
      BY <1>1 DEF AskType, RowsOf
    <3>3. /\ ConnectionTypeOK'
          /\ \A r \in ConnectionRows : link[r].status # "none" => link'[r].status # "none" /\ link'[r].of = link[r].of
      BY <2>1, <3>1, <3>2, UpsertKeeps
    <3>4. d \in AskType /\ d.op = asked[c].op /\ d.at = asked[c].at /\ d.outcome = "none"
      BY <1>1, <2>1 DEF AskType
    <3>5. asked' = [asked EXCEPT ![c] = d]
      BY <3>1 DEF Now
    <3> HIDE DEF d
    <3> QED BY <2>1, <3>3, <3>4, <3>5, AskKeeps
  <2> QED BY <1>6, <2>2, <2>3, <2>4 DEF UpsertListed, Now
<1>7. ASSUME NEW c \in LinkCalls, ReadForWebhook(c) PROVE ConnectionInv'
  <2>1. UNCHANGED <<remote, link, streaming, mishaps>> /\ asked[c].op = "webhook" /\ asked[c].outcome = "none"
    BY <1>1, <1>7 DEF ReadForWebhook, AsksHold
  <2>2. PICK x \in remote.held \cup remote.gone, at \in {"insert", "update"} :
          asked' = [asked EXCEPT ![c] = [asked[c] EXCEPT !.at = at, !.todo = {x}]]
    BY <1>7 DEF ReadForWebhook, Now
  <2> DEFINE d == [asked[c] EXCEPT !.at = at, !.todo = {x}]
  <2>3. d \in AskType /\ d.op = "webhook" /\ d.op = asked[c].op /\ d.outcome = "none"
    BY <1>1, <2>1 DEF AskType, ConnectionTypeOK
  <2>4. ConnectionTypeOK'
    BY <1>1, <2>1 DEF ConnectionTypeOK
  <2> HIDE DEF d
  <2> QED BY <2>1, <2>2, <2>3, <2>4, AskKeeps DEF d
<1>8. ASSUME NEW c \in LinkCalls, HandleNangoWebhook(c) PROVE ConnectionInv'
  <2>1. UNCHANGED <<remote, streaming, mishaps>> /\ asked[c].op = "webhook" /\ Done(c, "ok")
    BY <1>8 DEF HandleNangoWebhook
  <2>2. PICK x \in asked[c].todo, saw \in SUBSET ConnectionRows : UpsertProviderConnection(x, saw)
    <3>1. \A x : RowsOf(x) \in SUBSET ConnectionRows
      BY DEF RowsOf
    <3> QED BY <1>8, <3>1 DEF HandleNangoWebhook
  <2>3. x \in Linked
    BY <1>1 DEF AskType
  <2>4. /\ ConnectionTypeOK'
        /\ \A r \in ConnectionRows : link[r].status # "none" => link'[r].status # "none" /\ link'[r].of = link[r].of
    BY <2>1, <2>2, <2>3, UpsertKeeps
  <2> DEFINE d == [asked[c] EXCEPT !.at = "done", !.outcome = "ok"]
  <2>5. d \in AskType /\ d.op = "webhook" /\ d.op = asked[c].op /\ d.at = "done"
    BY <1>1, <2>1 DEF AskType
  <2>6. asked' = [asked EXCEPT ![c] = d]
    BY <2>1 DEF Done, Now
  <2> HIDE DEF d
  <2> QED BY <2>1, <2>4, <2>5, <2>6, AskKeeps
<1>9. ASSUME NEW c \in LinkCalls, FindActive(c) PROVE ConnectionInv'
  <2>1. UNCHANGED <<remote, link, streaming, mishaps>> /\ asked[c].outcome = "none" /\ ConnectionTypeOK'
    BY <1>1, <1>9 DEF FindActive, AsksHold, ConnectionTypeOK
  <2>2. CASE Done(c, "missing")
    BY <2>1, <2>2, DoneKeeps
  <2>3. CASE \E r \in ConnectionRows : link[r].status = "active" /\ Now(c, [asked[c] EXCEPT !.at = "delete", !.row = r])
    <3>1. PICK r \in ConnectionRows :
            link[r].status = "active" /\ asked' = [asked EXCEPT ![c] = [asked[c] EXCEPT !.at = "delete", !.row = r]]
      BY <2>3 DEF Now
    <3> DEFINE d == [asked[c] EXCEPT !.at = "delete", !.row = r]
    <3>2. d \in AskType /\ d.op = asked[c].op /\ d.at = "delete" /\ d.row = r /\ d.outcome = "none"
      BY <1>1, <2>1 DEF AskType
    <3>3. asked' = [asked EXCEPT ![c] = d]
      BY <3>1
    <3> HIDE DEF d
    <3> QED BY <2>1, <3>1, <3>2, <3>3, AskKeeps
  <2> QED BY <1>9, <2>2, <2>3 DEF FindActive
<1>10. ASSUME NEW c \in LinkCalls, DeleteRemote(c) PROVE ConnectionInv'
  <2> DEFINE x == link[asked[c].row].of
  <2>1. UNCHANGED <<link, streaming>> /\ asked[c].op = "disconnect" /\ asked[c].at = "delete" /\ asked[c].outcome = "none"
        /\ asked[c].row \in ConnectionRows /\ link[asked[c].row].status # "none"
    BY <1>1, <1>10 DEF DeleteRemote, AsksHold
  <2>2. CASE /\ x \in remote.held /\ remote' = [held |-> remote.held \ {x}, gone |-> remote.gone \cup {x}]
             /\ Now(c, [asked[c] EXCEPT !.at = "mark"]) /\ UNCHANGED mishaps
    <3> DEFINE d == [asked[c] EXCEPT !.at = "mark"]
    <3>1. d \in AskType /\ d.op = asked[c].op /\ d.at = "mark" /\ d.row = asked[c].row /\ d.outcome = "none"
      BY <1>1, <2>1 DEF AskType
    <3>2. asked' = [asked EXCEPT ![c] = d]
      BY <2>2 DEF Now
    <3>3. ConnectionTypeOK' /\ remote.gone \subseteq remote'.gone /\ x \in remote'.gone
      BY <1>1, <2>1, <2>2 DEF ConnectionTypeOK
    <3> HIDE DEF d
    <3> QED BY <2>1, <3>1, <3>2, <3>3, AskKeeps
  <2>3. CASE Done(c, "failed") /\ UNCHANGED <<remote, mishaps>>
    BY <1>1, <2>1, <2>3, DoneKeeps DEF ConnectionTypeOK
  <2>4. CASE Mishap(c, "failed") /\ UNCHANGED remote
    <3>1. ConnectionTypeOK'
      BY <1>1, <2>1, <2>4, ConnectionAssumption DEF ConnectionTypeOK, Mishap
    <3> QED BY <2>1, <2>4, <3>1, DoneKeeps DEF Mishap
  <2> QED BY <1>10, <2>2, <2>3, <2>4 DEF DeleteRemote
<1>11. ASSUME NEW c \in LinkCalls, MarkDisconnected(c) PROVE ConnectionInv'
  <2> DEFINE r == asked[c].row
  <2>1. UNCHANGED <<remote, streaming>> /\ asked[c].op = "disconnect" /\ asked[c].at = "mark" /\ asked[c].outcome = "none"
        /\ r \in ConnectionRows /\ link[r].status # "none" /\ link[r].of \in remote.gone
    BY <1>1, <1>11 DEF MarkDisconnected, AsksHold
  <2>2. CASE /\ link' = [link EXCEPT ![r].status = "disconnected"]
             /\ Now(c, [asked[c] EXCEPT !.at = "disable"]) /\ UNCHANGED mishaps
    <3> DEFINE d == [asked[c] EXCEPT !.at = "disable"]
    <3>1. d \in AskType /\ d.op = asked[c].op /\ d.at = "disable" /\ d.row = asked[c].row /\ d.outcome = "none"
      BY <1>1, <2>1 DEF AskType
    <3>2. asked' = [asked EXCEPT ![c] = d]
      BY <2>2 DEF Now
    <3>3. /\ ConnectionTypeOK'
          /\ \A s \in ConnectionRows : link[s].status # "none" => link'[s].status # "none" /\ link'[s].of = link[s].of
      BY <1>1, <2>1, <2>2 DEF ConnectionTypeOK
    <3> HIDE DEF d
    <3> QED BY <2>1, <3>1, <3>2, <3>3, AskKeeps
  <2>3. CASE Done(c, "missing") /\ UNCHANGED <<link, mishaps>>
    BY <1>1, <2>1, <2>3, DoneKeeps DEF ConnectionTypeOK
  <2>4. CASE Mishap(c, "failed") /\ UNCHANGED link
    <3>1. ConnectionTypeOK'
      BY <1>1, <2>1, <2>4, ConnectionAssumption DEF ConnectionTypeOK, Mishap
    <3> QED BY <2>1, <2>4, <3>1, DoneKeeps DEF Mishap
  <2> QED BY <1>11, <2>2, <2>3, <2>4 DEF MarkDisconnected
<1>12. ASSUME NEW c \in LinkCalls, DisableProviderStreams(c) PROVE ConnectionInv'
  <2>1. UNCHANGED <<remote, link>> /\ asked[c].op = "disconnect" /\ asked[c].at = "disable" /\ asked[c].outcome = "none"
        /\ asked[c].row \in ConnectionRows /\ link[asked[c].row].status # "none" /\ link[asked[c].row].of \in remote.gone
    BY <1>1, <1>12 DEF DisableProviderStreams, AsksHold
  <2>2. CASE streaming' = streaming \ {asked[c].row} /\ Done(c, "ok") /\ UNCHANGED mishaps
    <3> DEFINE d == [asked[c] EXCEPT !.at = "done", !.outcome = "ok"]
    <3>1. d \in AskType /\ d.op = asked[c].op /\ d.at = "done" /\ d.row = asked[c].row /\ d.outcome = "ok"
      BY <1>1, <2>1 DEF AskType
    <3>2. asked' = [asked EXCEPT ![c] = d]
      BY <2>2 DEF Done, Now
    <3>3. ConnectionTypeOK'
      BY <1>1, <2>1, <2>2 DEF ConnectionTypeOK
    <3> HIDE DEF d
    <3> QED BY <2>1, <2>2, <3>1, <3>2, <3>3, AskKeeps
  <2>3. CASE Mishap(c, "failed") /\ UNCHANGED streaming
    <3>1. ConnectionTypeOK'
      BY <1>1, <2>1, <2>3, ConnectionAssumption DEF ConnectionTypeOK, Mishap
    <3> QED BY <2>1, <2>3, <3>1, DoneKeeps DEF Mishap
  <2> QED BY <1>12, <2>2, <2>3 DEF DisableProviderStreams
<1>13. ASSUME NEW c \in LinkCalls, FindForCredentials(c) PROVE ConnectionInv'
  <2>1. UNCHANGED <<remote, link, streaming, mishaps>> /\ asked[c].outcome = "none" /\ asked[c].op = "credentials"
        /\ ConnectionTypeOK'
    BY <1>1, <1>13 DEF FindForCredentials, AsksHold, ConnectionTypeOK
  <2>2. CASE Done(c, "missing")
    BY <2>1, <2>2, DoneKeeps
  <2>3. CASE \E r \in ConnectionRows : Now(c, [asked[c] EXCEPT !.at = "fetch", !.row = r])
    <3>1. PICK r \in ConnectionRows : asked' = [asked EXCEPT ![c] = [asked[c] EXCEPT !.at = "fetch", !.row = r]]
      BY <2>3 DEF Now
    <3> DEFINE d == [asked[c] EXCEPT !.at = "fetch", !.row = r]
    <3>2. d \in AskType /\ d.op = asked[c].op /\ d.at = "fetch" /\ d.outcome = "none"
      BY <1>1, <2>1 DEF AskType
    <3>3. asked' = [asked EXCEPT ![c] = d]
      BY <3>1
    <3> HIDE DEF d
    <3> QED BY <2>1, <3>2, <3>3, AskKeeps
  <2> QED BY <1>13, <2>2, <2>3 DEF FindForCredentials
<1>14. ASSUME NEW c \in LinkCalls, GetConnectionCredentials(c) PROVE ConnectionInv'
  BY <1>1, <1>14, DoneKeeps DEF GetConnectionCredentials, ConnectionTypeOK
<1> QED BY <1>2, <1>3, <1>4, <1>5, <1>6, <1>7, <1>8, <1>9, <1>10, <1>11, <1>12, <1>13, <1>14 DEF ConnectionNext

(* Credentials are only answered while Nango holds them. *)
LEMMA CredentialsAreHeld == ConnectionInv /\ [ConnectionNext]_connectionVars => NoCredentialsAfter
<1> SUFFICES ASSUME ConnectionInv, [ConnectionNext]_connectionVars, NEW c \in LinkCalls,
                    asked'[c].op = "credentials", asked'[c].outcome = "ok", asked[c].outcome # "ok"
             PROVE  asked[c].row \notin Disconnected
  BY DEF NoCredentialsAfter
<1>1. ConnectionTypeOK /\ AsksHold /\ asked \in [LinkCalls -> AskType]
  BY DEF ConnectionInv, ConnectionTypes
<1>2. PICK d \in LinkCalls :
        \/ ListRemote(d) \/ UpsertListed(d) \/ ReadForWebhook(d) \/ HandleNangoWebhook(d) \/ FindActive(d)
        \/ DeleteRemote(d) \/ MarkDisconnected(d) \/ DisableProviderStreams(d) \/ FindForCredentials(d)
        \/ GetConnectionCredentials(d)
  BY DEF ConnectionNext, connectionVars, Consent, Subscribe
<1>3. PICK e : asked' = [asked EXCEPT ![d] = e]
  BY <1>2 DEF ListRemote, UpsertListed, ReadForWebhook, HandleNangoWebhook, FindActive, DeleteRemote, MarkDisconnected,
              DisableProviderStreams, FindForCredentials, GetConnectionCredentials, Done, Now, Mishap
<1>4. d = c
  BY <1>1, <1>3
<1>5. CASE GetConnectionCredentials(d)
  <2>1. link[asked[c].row].of \in remote.held
    <3>1. asked'[c].outcome = IF link[asked[c].row].of \in remote.held THEN "ok" ELSE "failed"
      BY <1>1, <1>4, <1>5 DEF GetConnectionCredentials, Done, Now, AskType
    <3> QED BY <3>1
  <2> QED BY <1>1, <2>1 DEF Disconnected, AsksHold, ConnectionTypeOK
<1>6. CASE FindForCredentials(d)
  BY <1>1, <1>4, <1>6 DEF FindForCredentials, Done, Now, AskType, AsksHold
<1>7. CASE ~GetConnectionCredentials(d) /\ ~FindForCredentials(d)
  <2>1. asked[c].op # "credentials"
    BY <1>2, <1>4, <1>7 DEF ListRemote, UpsertListed, ReadForWebhook, HandleNangoWebhook, FindActive, DeleteRemote,
                            MarkDisconnected, DisableProviderStreams
  <2>2. ASSUME NEW outcome, Done(c, outcome) \/ Mishap(c, outcome) PROVE asked'[c].op = asked[c].op
    <3>1. asked' = [asked EXCEPT ![c] = [asked[c] EXCEPT !.at = "done", !.outcome = outcome]]
      BY <2>2 DEF Done, Now, Mishap
    <3> QED BY <1>1, <3>1 DEF AskType
  <2>3. ASSUME ListRemote(c) PROVE asked'[c].op = asked[c].op
    <3>1. CASE \E o \in {"ok", "failed", "missing"} : Done(c, o) \/ Mishap(c, o)
      BY <2>2, <3>1
    <3>2. CASE Now(c, [asked[c] EXCEPT !.at = "upsert", !.todo = remote.held])
      BY <1>1, <3>2 DEF Now, AskType
    <3> QED BY <2>3, <3>1, <3>2 DEF ListRemote
  <2>4. ASSUME UpsertListed(c) PROVE asked'[c].op = asked[c].op
    <3>1. CASE \E o \in {"ok", "failed", "missing"} : Done(c, o) \/ Mishap(c, o)
      BY <2>2, <3>1
    <3>2. CASE \E x \in asked[c].todo : Now(c, [asked[c] EXCEPT !.todo = @ \ {x}])
      BY <1>1, <3>2 DEF Now, AskType
    <3> QED BY <2>4, <3>1, <3>2 DEF UpsertListed
  <2>5. ASSUME ReadForWebhook(c) PROVE asked'[c].op = asked[c].op
    BY <1>1, <2>5 DEF ReadForWebhook, Now, AskType
  <2>6. ASSUME HandleNangoWebhook(c) PROVE asked'[c].op = asked[c].op
    BY <2>2, <2>6 DEF HandleNangoWebhook
  <2>7. ASSUME FindActive(c) PROVE asked'[c].op = asked[c].op
    <3>1. CASE \E o \in {"ok", "failed", "missing"} : Done(c, o) \/ Mishap(c, o)
      BY <2>2, <3>1
    <3>2. CASE \E r \in ConnectionRows : Now(c, [asked[c] EXCEPT !.at = "delete", !.row = r])
      BY <1>1, <3>2 DEF Now, AskType
    <3> QED BY <2>7, <3>1, <3>2 DEF FindActive
  <2>8. ASSUME DeleteRemote(c) PROVE asked'[c].op = asked[c].op
    <3>1. CASE \E o \in {"ok", "failed", "missing"} : Done(c, o) \/ Mishap(c, o)
      BY <2>2, <3>1
    <3>2. CASE Now(c, [asked[c] EXCEPT !.at = "mark"])
      BY <1>1, <3>2 DEF Now, AskType
    <3> QED BY <2>8, <3>1, <3>2 DEF DeleteRemote
  <2>9. ASSUME MarkDisconnected(c) PROVE asked'[c].op = asked[c].op
    <3>1. CASE \E o \in {"ok", "failed", "missing"} : Done(c, o) \/ Mishap(c, o)
      BY <2>2, <3>1
    <3>2. CASE Now(c, [asked[c] EXCEPT !.at = "disable"])
      BY <1>1, <3>2 DEF Now, AskType
    <3> QED BY <2>9, <3>1, <3>2 DEF MarkDisconnected
  <2>10. ASSUME DisableProviderStreams(c) PROVE asked'[c].op = asked[c].op
    BY <2>2, <2>10 DEF DisableProviderStreams
  <2>11. asked'[c].op = asked[c].op
    BY <1>2, <1>4, <1>7, <2>3, <2>4, <2>5, <2>6, <2>7, <2>8, <2>9, <2>10
  <2> QED BY <2>1, <2>11
<1> QED BY <1>5, <1>6, <1>7

(* Type correctness of the connections. *)
THEOREM ConnectionTypeCorrect == ConnectionSpec => []ConnectionTypeOK
<1>1. ConnectionInv => ConnectionTypeOK
  BY DEF ConnectionInv, ConnectionTypes
<1> QED BY <1>1, ConnectionInitInv, ConnectionNextInv, PTL DEF ConnectionSpec

(* Once a disconnect has answered, Nango does not hold the connection's secrets, its
   streams rest and nobody is given credentials of it, whatever webhooks come late,
   synchronisations list and other disconnects race. *)
THEOREM DisconnectsAreWhole == ConnectionSpec => DisconnectsHold
<1>1. ConnectionInv => DisconnectIsWhole
  BY DEF ConnectionInv, ConnectionTypes, ConnectionTypeOK, AsksHold, DisconnectIsWhole, Disconnected
<1>2. ConnectionInv /\ [ConnectionNext]_connectionVars => [DisconnectIsWhole' /\ NoCredentialsAfter]_connectionVars
  <2>1. ConnectionInv' => DisconnectIsWhole'
    BY DEF ConnectionInv, ConnectionTypes, ConnectionTypeOK, AsksHold, DisconnectIsWhole, Disconnected
  <2> QED BY <2>1, ConnectionNextInv, CredentialsAreHeld
<1> QED BY <1>2, ConnectionInitInv, ConnectionNextInv, PTL DEF ConnectionSpec, DisconnectsHold

=============================================================================
