---------------------------- MODULE TokenRefresh ----------------------------
(***************************************************************************)
(* Access and refresh tokens of one browser: what auth-state.ts keeps in    *)
(* the memory of each tab, in localStorage and on the BroadcastChannel,     *)
(* what connect.ts does before and after every request, and the rotation of *)
(* the refresh cookie by auth_service_session.go.  One user is signed in;   *)
(* several tabs share the cookie and the storage.                           *)
(*                                                                         *)
(* An access token is told apart by the time it expires; a refresh token    *)
(* by its id.  A page that is left stops listening to its refresh, which    *)
(* the server still completes.                                              *)
(***************************************************************************)
EXTENDS Naturals, Sequences

CONSTANTS Tab,             \* the tabs of the browser
          Caller,          \* the tabs the user acts in; the others only come into view
          Lifetime,        \* how long an access token is valid
          RequestBuffer,   \* REQUEST_TOKEN_EXPIRY_BUFFER_MS
          FocusBuffer,     \* FOCUS_TOKEN_EXPIRY_BUFFER_MS
          MaxTime,         \* bound on the clock
          MaxId            \* bound on the refresh tokens ever issued

ASSUME BuffersAssumption ==
    /\ {Lifetime, RequestBuffer, FocusBuffer, MaxTime, MaxId} \subseteq Nat
    /\ Caller \subseteq Tab
    /\ 0 < RequestBuffer /\ RequestBuffer <= FocusBuffer /\ FocusBuffer < Lifetime

VARIABLES now,           \* the clock of browser and server
          accessToken,   \* accessToken[t]: the token in the tab's memory
          stored,        \* the token in localStorage
          inbox,         \* inbox[t]: broadcast tokens the tab has not handled
          cookie,        \* the refresh token in the cookie jar
          live,          \* the refresh tokens the server accepts
          issued,        \* how many refresh tokens were issued
          refresh,       \* refresh[t]: the refresh in flight, if any
          request,       \* request[t]: one API call of the tab
          page,          \* page[t]: what the tab shows
          endedEarly     \* a sign-out reached the server, or the answer to a
                         \* rotation did not reach the browser

vars == <<now, accessToken, stored, inbox, cookie, live, issued, refresh,
          request, page, endedEarly>>

NoToken == 0

\* A document that is being loaded, after a sign-out or after a redirect.
Loading == {"boot", "redirected"}

NoRefresh == [phase |-> "none", old |-> NoToken, new |-> NoToken,
              token |-> NoToken, wanted |-> FALSE]
NoRequest == [phase |-> "idle", token |-> NoToken, failed |-> FALSE,
              stale |-> FALSE, guest |-> FALSE]

-----------------------------------------------------------------------------
(* auth-state.ts                                                           *)

\* getAccessToken: the token in memory, or a stored one that is still valid.
Loaded(t) ==
    IF accessToken[t] # NoToken THEN accessToken[t]
    ELSE IF stored > now THEN stored ELSE NoToken

HasStoredToken(t) == accessToken[t] # NoToken \/ stored # NoToken

\* isTokenExpired looks at the expiry the tab has in memory, and no further.
IsTokenExpired(token, buffer) == token = NoToken \/ now + buffer >= token

\* setAccessToken: memory, storage and a message to every other tab.
SetAccessToken(t, token) ==
    /\ accessToken' = [accessToken EXCEPT ![t] = token]
    /\ stored' = token
    /\ inbox' = [o \in Tab |-> IF o = t THEN inbox[o] ELSE Append(inbox[o], token)]

ClearAccessToken(t) ==
    /\ accessToken' = [accessToken EXCEPT ![t] = NoToken]
    /\ stored' = NoToken
    /\ UNCHANGED inbox

\* The channel's onmessage: adopt the token of another tab.
AdoptToken(t) ==
    /\ inbox[t] # <<>>
    /\ accessToken' = [accessToken EXCEPT ![t] = Head(inbox[t])]
    /\ inbox' = [inbox EXCEPT ![t] = Tail(@)]
    /\ UNCHANGED <<now, stored, cookie, live, issued, refresh, request, page, endedEarly>>

-----------------------------------------------------------------------------
(* connect.ts                                                              *)

\* tokenRefreshManager.refresh: one refresh per tab; a later caller waits for
\* the one in flight.  A page that has just replaced another starts its own.
JoinRefresh(t) ==
    /\ refresh[t].phase # "none" => refresh[t].wanted
    /\ refresh' = IF refresh[t].phase # "none" THEN refresh
                  ELSE [refresh EXCEPT ![t] =
                          [NoRefresh EXCEPT !.phase = "sent", !.old = cookie, !.wanted = TRUE]]

\* A request leaves the tab with the token it was given.
Send(t, phase, token, failed, guest) ==
    request' = [request EXCEPT ![t] =
        [phase |-> phase, token |-> token, failed |-> failed,
         stale |-> IsTokenExpired(token, RequestBuffer), guest |-> guest]]

NoPreflight(t) ==
    /\ page[t] \notin Loading /\ request[t].phase = "idle"
    /\ accessToken' = [accessToken EXCEPT ![t] = Loaded(t)]
    /\ Send(t, "sent", Loaded(t), FALSE, ~HasStoredToken(t))
    /\ UNCHANGED <<now, stored, inbox, cookie, live, issued, refresh, page, endedEarly>>

\* authInterceptor and getRequestToken, up to the first await: a missing or
\* expiring token is refreshed before the request is sent.
BeginRequest(t) ==
    /\ page[t] \notin Loading /\ request[t].phase = "idle"
    /\ accessToken' = [accessToken EXCEPT ![t] = Loaded(t)]
    /\ IF HasStoredToken(t) /\ IsTokenExpired(Loaded(t), RequestBuffer)
       THEN /\ request' = [request EXCEPT ![t] =
                  [NoRequest EXCEPT !.phase = "preflight", !.token = Loaded(t)]]
            /\ JoinRefresh(t)
       ELSE /\ Send(t, "sent", Loaded(t), FALSE, ~HasStoredToken(t))
            /\ UNCHANGED refresh
    /\ UNCHANGED <<now, stored, inbox, cookie, live, issued, page, endedEarly>>

\* The server answers, or the call fails for a reason that is not the session.
RequestDone(t) ==
    /\ \/ request[t].phase = "sent"
       \/ request[t].phase = "retried" /\ request[t].token > now
    /\ request' = [request EXCEPT ![t] = NoRequest]
    /\ UNCHANGED <<now, accessToken, stored, inbox, cookie, live, issued, refresh, page, endedEarly>>

\* A protected method refuses a request whose token is missing or expired;
\* the interceptor refreshes and waits to retry.
Unauthenticated(t) ==
    /\ request[t].phase = "sent" /\ request[t].token <= now
    /\ request' = [request EXCEPT ![t].phase = "refreshing"]
    /\ JoinRefresh(t)
    /\ UNCHANGED <<now, accessToken, stored, inbox, cookie, live, issued, page, endedEarly>>

\* redirectOnAuthFailure: nothing on the auth page, nor when the page the tab
\* shows is a public one; otherwise the tokens are cleared and the document is
\* replaced.
RedirectOnAuthFailure(t) ==
    \/ UNCHANGED <<accessToken, stored, inbox, page>>
    \/ /\ page[t] = "app"
       /\ ClearAccessToken(t)
       /\ page' = [page EXCEPT ![t] = "redirected"]

\* The retried request fails, for whatever reason: the session counts as gone.
RetryFails(t) ==
    /\ request[t].phase = "retried"
    /\ RedirectOnAuthFailure(t)
    /\ request' = [request EXCEPT ![t] = NoRequest]
    /\ refresh' = [refresh EXCEPT ![t].wanted = @ /\ page'[t] = page[t]]
    /\ UNCHANGED <<now, cookie, live, issued, endedEarly>>

\* useTokenRefreshOnFocus: a tab that becomes visible refreshes early.
Focus(t) ==
    /\ page[t] = "app" /\ HasStoredToken(t)
    /\ IsTokenExpired(accessToken[t], FocusBuffer)
    /\ JoinRefresh(t)
    /\ UNCHANGED <<now, accessToken, stored, inbox, cookie, live, issued, request, page, endedEarly>>

-----------------------------------------------------------------------------
(* RefreshToken and SignOut on the server                                  *)

\* AuthenticateByRefreshToken, with the cookie as the request carried it.
CheckRefresh(t) ==
    /\ refresh[t].phase = "sent"
    /\ refresh' = [refresh EXCEPT ![t].phase =
                      IF refresh[t].old \in live THEN "valid" ELSE "refused"]
    /\ UNCHANGED <<now, accessToken, stored, inbox, cookie, live, issued, request, page, endedEarly>>

Rotated(t, tokens) ==
    /\ refresh[t].phase = "valid" /\ issued < MaxId
    /\ issued' = issued + 1
    /\ live' = tokens
    /\ refresh' = [refresh EXCEPT ![t].phase = "answered", ![t].new = issued + 1,
                                  ![t].token = now + Lifetime]
    /\ UNCHANGED <<now, accessToken, stored, inbox, cookie, request, page, endedEarly>>

RotateAlone(t) == Rotated(t, {issued + 1})

\* The rotation: the new token is added before the old one is removed.
Rotate(t) == Rotated(t, (live \cup {issued + 1}) \ {refresh[t].old})

-----------------------------------------------------------------------------
(* The answer to a refresh                                                 *)

RefreshStaysOpen(t) ==
    /\ refresh[t].phase = "answered" /\ refresh[t].wanted
    /\ cookie' = refresh[t].new
    /\ SetAccessToken(t, refresh[t].token)
    /\ UNCHANGED <<now, live, issued, endedEarly, refresh, request, page>>

\* doRefreshAccessToken ends well: the cookie is replaced, the token set, and
\* whoever waited for the refresh goes on with it.
RefreshSucceeds(t) ==
    /\ refresh[t].phase = "answered" /\ refresh[t].wanted
    /\ cookie' = refresh[t].new
    /\ SetAccessToken(t, refresh[t].token)
    /\ refresh' = [refresh EXCEPT ![t] = NoRefresh]
    /\ CASE request[t].phase = "preflight"  -> Send(t, "sent", refresh[t].token, FALSE, FALSE)
         [] request[t].phase = "refreshing" -> Send(t, "retried", refresh[t].token, FALSE, FALSE)
         [] OTHER -> UNCHANGED request
    /\ page' = [page EXCEPT ![t] = IF @ \in Loading THEN "app" ELSE @]
    /\ UNCHANGED <<now, live, issued, endedEarly>>

\* The refresh is refused, the server cannot store the new token, or the
\* connection fails before or after the server has rotated.  A preflight falls back on the token it has; a reactive refresh
\* gives up; a page that was starting is unauthenticated.
RefreshFails(t) ==
    /\ refresh[t].phase # "none" /\ refresh[t].wanted
    /\ endedEarly' = (endedEarly \/ refresh[t].phase = "answered")
    /\ refresh' = [refresh EXCEPT ![t] = NoRefresh]
    /\ CASE request[t].phase = "preflight" ->
              /\ Send(t, "sent", request[t].token, TRUE, FALSE)
              /\ UNCHANGED <<accessToken, stored, inbox, page>>
         [] request[t].phase = "refreshing" ->
              /\ request' = [request EXCEPT ![t] = NoRequest]
              /\ RedirectOnAuthFailure(t)
         [] page[t] \in Loading ->
              /\ page' = [page EXCEPT ![t] = "auth"]
              /\ UNCHANGED <<accessToken, stored, inbox, request>>
         [] OTHER -> UNCHANGED <<accessToken, stored, inbox, request, page>>
    /\ UNCHANGED <<now, cookie, live, issued>>

\* Nobody listens any more: the page that asked has been replaced.
RefreshIgnored(t) ==
    /\ refresh[t].phase \in {"valid", "answered", "refused"} /\ ~refresh[t].wanted
    /\ endedEarly' = (endedEarly \/ refresh[t].phase = "answered")
    /\ refresh' = [refresh EXCEPT ![t] = NoRefresh]
    /\ UNCHANGED <<now, accessToken, stored, inbox, cookie, live, issued, request, page>>

-----------------------------------------------------------------------------
(* Pages                                                                   *)

\* The token half of AuthContext.initialize, when a document is loaded.
Boot(t) ==
    /\ page[t] \in Loading
    /\ accessToken' = [accessToken EXCEPT ![t] = Loaded(t)]
    /\ IF Loaded(t) # NoToken
       THEN page' = [page EXCEPT ![t] = "app"] /\ UNCHANGED refresh
       ELSE refresh[t].phase = "none" /\ JoinRefresh(t) /\ UNCHANGED page
    /\ UNCHANGED <<now, stored, inbox, cookie, live, issued, request, endedEarly>>

\* SignOut revokes the token of the cookie, for a caller it knows, and clears
\* the cookie; or the call does not reach the server.
SignOut(t) ==
    \/ /\ cookie' = NoToken
       /\ live' = IF accessToken[t] > now THEN live \ {cookie} ELSE live
       /\ endedEarly' = TRUE
    \/ UNCHANGED <<cookie, live, endedEarly>>

\* logout clears the tab whether or not the call succeeded, and the menu loads
\* a new document, which ends whatever the tab was waiting for.
Logout(t) ==
    /\ page[t] = "app" /\ accessToken[t] # NoToken
    /\ SignOut(t)
    /\ ClearAccessToken(t)
    /\ page' = [page EXCEPT ![t] = "boot"]
    /\ request' = [request EXCEPT ![t] = NoRequest]
    /\ refresh' = [refresh EXCEPT ![t].wanted = FALSE]
    /\ UNCHANGED <<now, issued>>

\* Time passes; an answer does not take as long as the token it carries lasts.
Tick ==
    /\ now < MaxTime
    /\ \A t \in Tab : refresh[t].phase = "answered" =>
                         refresh[t].token > now + 1 + RequestBuffer
    /\ now' = now + 1
    /\ UNCHANGED <<accessToken, stored, inbox, cookie, live, issued, refresh, request, page, endedEarly>>

-----------------------------------------------------------------------------
\* doSignIn has just answered the first tab; the others were opened since.
Init ==
    /\ now = 0
    /\ stored = Lifetime
    /\ accessToken \in [Tab -> {NoToken, Lifetime}]
    /\ inbox = [t \in Tab |-> <<>>]
    /\ cookie = 1 /\ live = {1} /\ issued = 1
    /\ refresh = [t \in Tab |-> NoRefresh]
    /\ request = [t \in Tab |-> NoRequest]
    /\ page = [t \in Tab |-> "app"]
    /\ endedEarly = FALSE

\* Steps that the browser and the server take by themselves.
System(t) ==
    \/ AdoptToken(t) \/ Unauthenticated(t) \/ RequestDone(t) \/ RetryFails(t)
    \/ CheckRefresh(t) \/ Rotate(t) \/ RefreshSucceeds(t) \/ RefreshFails(t)
    \/ RefreshIgnored(t) \/ Boot(t)

Next ==
    \/ Tick
    \/ \E t \in Caller : BeginRequest(t) \/ Logout(t)
    \/ \E t \in Tab : System(t) \/ Focus(t)

\* Timers of the browser end every call: an answer, a refusal or a failure
\* comes in the end, and a request that is served is completed.
Fairness ==
    \A t \in Tab :
        /\ WF_vars(CheckRefresh(t) \/ Rotate(t))
        /\ WF_vars(RefreshSucceeds(t) \/ RefreshFails(t) \/ RefreshIgnored(t))
        /\ t \in Caller => WF_vars(RequestDone(t) \/ Unauthenticated(t) \/ RetryFails(t))

Spec == Init /\ [][Next]_vars /\ Fairness

-----------------------------------------------------------------------------
(* Properties                                                              *)

\* However many tabs rotate the cookie at once, and in whatever order their
\* answers arrive, the browser has a refresh token that the server accepts, or
\* is about to be given one, until somebody signs out or an answer is lost (RefreshToken adds before it removes).
SessionSurvives ==
    \/ endedEarly
    \/ cookie \in live
    \/ \E t \in Tab : refresh[t].phase = "answered" /\ refresh[t].new \in live

\* A signed-in tab sends a request with a missing or expiring access token
\* only after a refresh has failed, so that public endpoints do not answer it
\* as they answer a guest (getRequestToken).
GuestOnlyAfterFailure ==
    \A t \in Caller : request[t].phase = "sent" =>
        ~request[t].stale \/ request[t].failed \/ request[t].guest

\* Every request comes to an end: nobody waits for a refresh that is never
\* settled, whoever started it (tokenRefreshManager).
RequestsSettle == \A t \in Caller : request[t].phase # "idle" ~> request[t].phase = "idle"

\* A tab is redirected after an Unauthenticated refresh only when the session
\* is gone (the comment on shouldRetry in query-client.ts says so).
RedirectMeansSessionGone ==
    [][\A t \in Tab :
          page[t] # "redirected" /\ page'[t] = "redirected" /\ refresh[t].phase = "refused"
            => cookie \notin live]_vars
=============================================================================
