------------------------- MODULE TokenRefreshProofs -------------------------
(***************************************************************************)
(* Proofs about TokenRefresh, for any number of tabs, any lifetimes and     *)
(* buffers with RequestBuffer < Lifetime, and any bounds: concurrent        *)
(* rotations never leave the browser without a refresh token, and a         *)
(* signed-in tab does not act as a guest.                                  *)
(***************************************************************************)
EXTENDS TokenRefresh, TLAPS

-----------------------------------------------------------------------------
(* Types.                                                                  *)

RefreshState ==
    [phase : {"none", "sent", "valid", "refused", "answered"}, old : Nat, new : Nat,
     token : Nat, wanted : BOOLEAN]

RequestState ==
    [phase : {"idle", "preflight", "sent", "refreshing", "retried"}, token : Nat,
     failed : BOOLEAN, stale : BOOLEAN, guest : BOOLEAN]

ServerTyped ==
    /\ now \in Nat /\ cookie \in Nat /\ issued \in Nat
    /\ refresh \in [Tab -> RefreshState]

TabsTyped ==
    /\ accessToken \in [Tab -> Nat] /\ stored \in Nat
    /\ inbox \in [Tab -> Seq(Nat)]
    /\ request \in [Tab -> RequestState]

\* The next two tell what becomes of the refresh of tab t in a step.
Carries(t) ==
    /\ refresh'[t].old = refresh[t].old
    /\ refresh'[t].new = refresh[t].new
    /\ refresh'[t].token = refresh[t].token
    /\ refresh'[t].phase = "answered" <=> refresh[t].phase = "answered"

Restarts(t) ==
    /\ refresh'[t].phase # "answered"
    /\ refresh'[t].old \in {NoToken, cookie}

\* A later caller joins the refresh of its tab; the first one begins it with
\* the cookie there is.
LEMMA JoinEffect ==
  ASSUME ServerTyped, NEW t \in Tab, JoinRefresh(t)
  PROVE  /\ refresh' \in [Tab -> RefreshState]
         /\ \A x \in Tab : Carries(x) \/ (refresh[x].phase # "answered" /\ Restarts(x))
<1> DEFINE new == [NoRefresh EXCEPT !.phase = "sent", !.old = cookie, !.wanted = TRUE]
<1>1. new \in RefreshState /\ new.phase = "sent" /\ new.old = cookie
  BY DEF NoRefresh, RefreshState, NoToken, ServerTyped
<1>2. \/ refresh' = refresh
      \/ refresh[t].phase = "none" /\ refresh' = [refresh EXCEPT ![t] = new]
  BY DEF JoinRefresh
<1> HIDE DEF new
<1> QED
  BY <1>1, <1>2 DEF ServerTyped, Carries, Restarts

\* A page that is left stops listening, which changes nothing on the server.
LEMMA WantedEffect ==
  ASSUME ServerTyped, NEW t \in Tab, NEW b \in BOOLEAN,
         refresh' = [refresh EXCEPT ![t].wanted = b]
  PROVE  /\ refresh' \in [Tab -> RefreshState]
         /\ \A x \in Tab : Carries(x)
BY DEF ServerTyped, RefreshState, Carries

\* A refresh that is over leaves nothing behind.
LEMMA ForgetEffect ==
  ASSUME ServerTyped, NEW t \in Tab, refresh' = [refresh EXCEPT ![t] = NoRefresh]
  PROVE  /\ refresh' \in [Tab -> RefreshState]
         /\ Restarts(t)
         /\ \A x \in Tab \ {t} : Carries(x)
BY DEF ServerTyped, RefreshState, Carries, Restarts, NoRefresh, NoToken

-----------------------------------------------------------------------------
(* The session.  SessionSurvives is not inductive alone: the answer that is *)
(* under way must still be live when it arrives.  It is, because its token  *)
(* has been in nobody's hands: it is neither the cookie nor the token that  *)
(* another refresh will remove, nor the one of another answer.              *)

\* Ids are handed out in order.
IdsAreIssued ==
    /\ cookie <= issued
    /\ \A t \in Tab : refresh[t].old <= issued
    /\ \A t \in Tab : refresh[t].phase = "answered" =>
         0 < refresh[t].new /\ refresh[t].new <= issued

\* The token of an answer is live, and only the answer carries it.
AnswersAreLive ==
    \A t \in Tab : refresh[t].phase = "answered" =>
        /\ refresh[t].new \in live
        /\ refresh[t].new # cookie
        /\ \A x \in Tab : refresh[x].old # refresh[t].new
        /\ \A x \in Tab \ {t} : refresh[x].phase = "answered" =>
             refresh[x].new # refresh[t].new

CookieOrAnswer ==
    endedEarly \/ cookie \in live \/ \E t \in Tab : refresh[t].phase = "answered"

SessionInv == ServerTyped /\ IdsAreIssued /\ AnswersAreLive /\ CookieOrAnswer

\* A step that neither rotates nor ends well keeps the session, unless it
\* loses an answer, which is what endedEarly records.
LEMMA QuietKeeps ==
  ASSUME SessionInv, UNCHANGED <<cookie, live, issued>>, now' \in Nat,
         refresh' \in [Tab -> RefreshState],
         \A t \in Tab : Carries(t) \/ Restarts(t),
         endedEarly => endedEarly',
         endedEarly' \/ \A t \in Tab : refresh[t].phase = "answered" => Carries(t)
  PROVE  SessionInv'
<1>1. ServerTyped'
  BY DEF SessionInv, ServerTyped
<1>2. refresh \in [Tab -> RefreshState] /\ cookie \in Nat /\ issued \in Nat
  BY DEF SessionInv, ServerTyped
<1>3. IdsAreIssued'
  BY <1>2 DEF SessionInv, IdsAreIssued, Carries, Restarts, NoToken, RefreshState
<1>4. AnswersAreLive'
  BY <1>2 DEF SessionInv, IdsAreIssued, AnswersAreLive, Carries, Restarts, NoToken, RefreshState
<1>5. CookieOrAnswer'
  BY DEF SessionInv, CookieOrAnswer, Carries
<1> QED
  BY <1>1, <1>3, <1>4, <1>5 DEF SessionInv

\* The rotation turns the refresh of its tab into an answer.
LEMMA RotateEffect ==
  ASSUME ServerTyped, NEW t \in Tab, Rotate(t)
  PROVE  /\ refresh'[t].phase = "answered" /\ refresh'[t].new = issued + 1
         /\ refresh'[t].old = refresh[t].old
         /\ refresh'[t].token = now + Lifetime
         /\ refresh' \in [Tab -> RefreshState]
         /\ \A x \in Tab \ {t} : refresh'[x] = refresh[x]
<1>0. /\ now \in Nat /\ issued \in Nat /\ refresh \in [Tab -> RefreshState]
      /\ Lifetime \in Nat
  BY BuffersAssumption DEF ServerTyped
<1> DEFINE r1 == [refresh[t] EXCEPT !.phase = "answered"]
<1> DEFINE r2 == [r1 EXCEPT !.new = issued + 1]
<1> DEFINE row == [r2 EXCEPT !.token = now + Lifetime]
<1>1. r1 \in RefreshState /\ r1.phase = "answered" /\ r1.old = refresh[t].old
  BY <1>0 DEF RefreshState
<1> HIDE DEF r1
<1>2. /\ r2 \in RefreshState /\ r2.phase = "answered" /\ r2.old = refresh[t].old
      /\ r2.new = issued + 1
  BY <1>0, <1>1 DEF RefreshState
<1> HIDE DEF r2
<1>3. /\ row \in RefreshState /\ row.phase = "answered" /\ row.old = refresh[t].old
      /\ row.new = issued + 1 /\ row.token = now + Lifetime
  BY <1>0, <1>2 DEF RefreshState
<1>4. refresh' = [refresh EXCEPT ![t] = row]
  BY <1>0 DEF Rotate, Rotated, r1, r2
<1> HIDE DEF row
<1> QED
  BY <1>0, <1>3, <1>4

\* The rotation hands out a new id and removes only what its own request
\* carried.
LEMMA RotateKeeps ==
  ASSUME SessionInv, NEW t \in Tab, Rotate(t)
  PROVE  SessionInv'
<1> USE DEF NoToken
<1>1. /\ now \in Nat /\ issued \in Nat /\ cookie \in Nat /\ refresh \in [Tab -> RefreshState]
      /\ Lifetime \in Nat
  BY BuffersAssumption DEF SessionInv, ServerTyped
<1>2. /\ issued' = issued + 1 /\ cookie' = cookie /\ now' = now
      /\ live' = (live \cup {issued + 1}) \ {refresh[t].old}
  BY DEF Rotate, Rotated
<1>3. /\ refresh'[t].phase = "answered" /\ refresh'[t].new = issued + 1
      /\ refresh'[t].old = refresh[t].old
      /\ refresh' \in [Tab -> RefreshState]
      /\ \A x \in Tab \ {t} : refresh'[x] = refresh[x]
  BY <1>1, RotateEffect DEF SessionInv
<1>4. ServerTyped'
  BY <1>1, <1>2, <1>3 DEF ServerTyped
<1>5. \A x \in Tab : /\ refresh[x].old \in Nat /\ refresh[x].old <= issued
                     /\ refresh[x].new \in Nat
                     /\ refresh[x].phase = "answered" => refresh[x].new <= issued
  BY <1>1 DEF SessionInv, IdsAreIssued, RefreshState
<1>6. IdsAreIssued'
  BY <1>1, <1>2, <1>3, <1>5 DEF SessionInv, IdsAreIssued
<1>7. AnswersAreLive'
  <2>1. ASSUME NEW y \in Tab, y # t, refresh[y].phase = "answered"
        PROVE  /\ refresh[y].new \in live' /\ refresh[y].new # cookie
               /\ refresh[y].new # issued + 1
               /\ \A x \in Tab : refresh[x].old # refresh[y].new
               /\ \A x \in Tab \ {y} : refresh[x].phase = "answered" =>
                    refresh[x].new # refresh[y].new
    BY <1>1, <1>2, <1>5, <2>1 DEF SessionInv, AnswersAreLive
  <2>2. /\ issued + 1 \in live' /\ issued + 1 # cookie
        /\ \A x \in Tab : refresh[x].old # issued + 1
    BY <1>1, <1>2, <1>5 DEF SessionInv, IdsAreIssued
  <2> QED
    BY <1>2, <1>3, <2>1, <2>2 DEF AnswersAreLive
<1>8. CookieOrAnswer'
  BY <1>3 DEF CookieOrAnswer
<1> QED
  BY <1>4, <1>6, <1>7, <1>8 DEF SessionInv

\* The end of a refresh: the cookie becomes the token of the answer.
LEMMA SucceedsKeeps ==
  ASSUME SessionInv, NEW t \in Tab, RefreshSucceeds(t)
  PROVE  SessionInv'
<1>1. /\ refresh[t].phase = "answered" /\ cookie' = refresh[t].new
      /\ refresh' = [refresh EXCEPT ![t] = NoRefresh]
      /\ UNCHANGED <<now, live, issued, endedEarly>>
  BY DEF RefreshSucceeds
<1>2. ServerTyped /\ refresh \in [Tab -> RefreshState] /\ issued \in Nat
  BY DEF SessionInv, ServerTyped
<1>3. /\ refresh' \in [Tab -> RefreshState]
      /\ refresh'[t].phase = "none" /\ refresh'[t].old = 0
      /\ \A x \in Tab \ {t} : refresh'[x] = refresh[x]
  BY <1>1, <1>2, ForgetEffect DEF NoRefresh, NoToken
<1>4. ServerTyped'
  BY <1>1, <1>2, <1>3 DEF ServerTyped, RefreshState
<1>5. IdsAreIssued'
  BY <1>1, <1>2, <1>3 DEF SessionInv, IdsAreIssued
<1>6. AnswersAreLive'
  BY <1>1, <1>2, <1>3 DEF SessionInv, AnswersAreLive, IdsAreIssued, RefreshState
<1>7. CookieOrAnswer'
  BY <1>1 DEF SessionInv, AnswersAreLive, CookieOrAnswer
<1> QED
  BY <1>4, <1>5, <1>6, <1>7 DEF SessionInv

\* A sign-out revokes the cookie, which is the token of no answer.
LEMMA LogoutKeeps ==
  ASSUME SessionInv, NEW t \in Tab, Logout(t)
  PROVE  SessionInv'
<1>1. /\ refresh' \in [Tab -> RefreshState]
      /\ \A x \in Tab : Carries(x)
      /\ now' = now /\ issued' = issued
  BY WantedEffect DEF SessionInv, Logout
<1>2. CASE UNCHANGED <<cookie, live, endedEarly>>
  <2>1. now' \in Nat
    BY <1>1 DEF SessionInv, ServerTyped
  <2> QED
    BY <1>1, <1>2, <2>1, QuietKeeps
<1>3. CASE cookie' = NoToken /\ live' \in {live, live \ {cookie}} /\ endedEarly'
  <2>1. ServerTyped'
    BY <1>1, <1>3 DEF SessionInv, ServerTyped, NoToken
  <2>2. refresh \in [Tab -> RefreshState] /\ issued \in Nat
    BY DEF SessionInv, ServerTyped
  <2>3. IdsAreIssued'
    BY <1>1, <1>3, <2>2 DEF SessionInv, IdsAreIssued, Carries, NoToken
  <2>4. AnswersAreLive'
    BY <1>1, <1>3, <2>2 DEF SessionInv, IdsAreIssued, AnswersAreLive, Carries, NoToken
  <2> QED
    BY <1>3, <2>1, <2>3, <2>4 DEF SessionInv, CookieOrAnswer
<1> QED
  BY <1>2, <1>3 DEF Logout, SignOut

\* Every step keeps the session's invariant.
LEMMA SessionStep == SessionInv /\ [Next]_vars => SessionInv'
<1> SUFFICES ASSUME SessionInv, [Next]_vars PROVE SessionInv'
  OBVIOUS
<1>1. ServerTyped /\ now \in Nat
  BY DEF SessionInv, ServerTyped
<1>2. CASE UNCHANGED <<cookie, live, issued, refresh, endedEarly>> /\ now' \in Nat
  BY <1>1, <1>2, QuietKeeps DEF ServerTyped, Carries
<1>3. ASSUME NEW t \in Tab, JoinRefresh(t), UNCHANGED <<now, cookie, live, issued, endedEarly>>
      PROVE  SessionInv'
  <2>1. /\ refresh' \in [Tab -> RefreshState]
        /\ \A x \in Tab : Carries(x) \/ (refresh[x].phase # "answered" /\ Restarts(x))
    BY <1>1, <1>3, JoinEffect
  <2> QED
    BY <1>1, <1>3, <2>1, QuietKeeps
<1>4. ASSUME NEW t \in Tab, RetryFails(t) PROVE SessionInv'
  <2> DEFINE b == refresh[t].wanted /\ page'[t] = page[t]
  <2>1. refresh' = [refresh EXCEPT ![t].wanted = b]
    BY <1>1, <1>4 DEF RetryFails, ServerTyped
  <2>2. b \in BOOLEAN
    OBVIOUS
  <2> HIDE DEF b
  <2>3. refresh' \in [Tab -> RefreshState] /\ \A x \in Tab : Carries(x)
    BY <1>1, <2>1, <2>2, WantedEffect
  <2> QED
    BY <1>1, <1>4, <2>3, QuietKeeps DEF RetryFails
<1>5. ASSUME NEW t \in Tab, CheckRefresh(t) PROVE SessionInv'
  <2>1. refresh' \in [Tab -> RefreshState] /\ \A x \in Tab : Carries(x)
    BY <1>1, <1>5 DEF CheckRefresh, ServerTyped, RefreshState, Carries
  <2> QED
    BY <1>1, <1>5, <2>1, QuietKeeps DEF CheckRefresh
<1>6. ASSUME NEW t \in Tab, RefreshFails(t) \/ RefreshIgnored(t) PROVE SessionInv'
  <2>1. /\ UNCHANGED <<now, cookie, live, issued>>
        /\ endedEarly' = (endedEarly \/ refresh[t].phase = "answered")
        /\ refresh' = [refresh EXCEPT ![t] = NoRefresh]
    BY <1>6 DEF RefreshFails, RefreshIgnored
  <2>2. /\ refresh' \in [Tab -> RefreshState] /\ Restarts(t)
        /\ \A x \in Tab \ {t} : Carries(x)
    BY <1>1, <2>1, ForgetEffect
  <2>3. CASE endedEarly \/ refresh[t].phase = "answered"
    BY <1>1, <2>1, <2>2, <2>3, QuietKeeps
  <2>4. CASE ~endedEarly /\ refresh[t].phase # "answered"
    BY <1>1, <2>1, <2>2, <2>4, QuietKeeps
  <2> QED
    BY <2>3, <2>4
<1>7. CASE Tick
  BY <1>1, <1>2, <1>7 DEF Tick
<1>8. ASSUME NEW t \in Tab, Boot(t) PROVE SessionInv'
  BY <1>1, <1>2, <1>3, <1>8 DEF Boot
<1>9. ASSUME NEW t \in Tab, BeginRequest(t) PROVE SessionInv'
  BY <1>1, <1>2, <1>3, <1>9 DEF BeginRequest
<1>10. ASSUME NEW t \in Tab, AdoptToken(t) \/ RequestDone(t) PROVE SessionInv'
  BY <1>1, <1>2, <1>10 DEF AdoptToken, RequestDone
<1>11. ASSUME NEW t \in Tab, Unauthenticated(t) \/ Focus(t) PROVE SessionInv'
  BY <1>3, <1>11 DEF Unauthenticated, Focus
<1>12. CASE UNCHANGED vars
  BY <1>1, <1>2, <1>12 DEF vars
<1> QED
  BY <1>4, <1>5, <1>6, <1>7, <1>8, <1>9, <1>10, <1>11, <1>12, RotateKeeps, SucceedsKeeps,
     LogoutKeeps, BuffersAssumption DEF Next, System

\* Sign-in has left one live refresh token, the cookie.
LEMMA SessionStarts == Init => SessionInv /\ \A t \in Tab : refresh[t].phase = "none"
<1> SUFFICES ASSUME Init PROVE SessionInv /\ \A t \in Tab : refresh[t].phase = "none"
  OBVIOUS
<1>1. NoRefresh \in RefreshState /\ NoRefresh.phase = "none" /\ NoRefresh.old = 0
  BY DEF NoRefresh, RefreshState, NoToken
<1>2. /\ refresh \in [Tab -> RefreshState]
      /\ \A t \in Tab : refresh[t].phase = "none" /\ refresh[t].old = 0
  BY <1>1 DEF Init
<1>3. ServerTyped /\ IdsAreIssued
  BY <1>2 DEF Init, ServerTyped, IdsAreIssued
<1>4. AnswersAreLive /\ CookieOrAnswer
  BY <1>2 DEF Init, AnswersAreLive, CookieOrAnswer
<1> QED
  BY <1>2, <1>3, <1>4 DEF SessionInv

\* SessionSurvives: through any number of concurrent rotations and any order of
\* their answers the browser keeps a refresh token the server accepts, or has
\* one under way, until a sign-out or a lost answer (RefreshToken).
THEOREM SessionSurvivesAlways == Spec => []SessionSurvives
<1>1. SessionInv => SessionSurvives
  BY DEF SessionInv, CookieOrAnswer, AnswersAreLive, SessionSurvives
<1> QED
  BY <1>1, SessionStarts, SessionStep, PTL DEF Spec

-----------------------------------------------------------------------------
(* Requests.  A request that leaves after a successful refresh is sent with *)
(* the token of the answer, which must not have aged on its way; every      *)
(* other request is judged when it begins.                                  *)

FreshAnswers ==
    \A t \in Tab : refresh[t].phase = "answered" => refresh[t].token > now + RequestBuffer

\* The request of tab t is idle or waits, or it was sent for a good reason.
WellSent(t) ==
    request[t].phase = "sent" => ~request[t].stale \/ request[t].failed \/ request[t].guest

RequestsInv == SessionInv /\ TabsTyped /\ FreshAnswers /\ \A t \in Tab : WellSent(t)

\* A tab reads a token, or none, from its storage.
LEMMA LoadedIsToken ==
  ASSUME TabsTyped, NEW t \in Tab
  PROVE  Loaded(t) \in Nat
BY DEF TabsTyped, Loaded, NoToken

\* What is sent, and how it is judged.
LEMMA SendEffect ==
  ASSUME TabsTyped, NEW t \in Tab, NEW phase \in {"sent", "retried"}, NEW token \in Nat,
         NEW failed \in BOOLEAN, NEW guest \in BOOLEAN,
         Send(t, phase, token, failed, guest),
         phase = "sent" => failed \/ guest \/ ~IsTokenExpired(token, RequestBuffer)
  PROVE  request' \in [Tab -> RequestState] /\ WellSent(t)'
         /\ \A x \in Tab \ {t} : request'[x] = request[x]
<1> DEFINE sent == [phase |-> phase, token |-> token, failed |-> failed,
                    stale |-> IsTokenExpired(token, RequestBuffer), guest |-> guest]
<1>1. sent \in RequestState
  BY DEF RequestState, IsTokenExpired
<1>2. sent.phase = "sent" => ~sent.stale \/ sent.failed \/ sent.guest
  OBVIOUS
<1>3. request' = [request EXCEPT ![t] = sent]
  BY DEF Send
<1> HIDE DEF sent
<1> QED
  BY <1>1, <1>2, <1>3 DEF TabsTyped, WellSent

\* Only the rotation produces an answer; every other step carries a refresh on,
\* begins it or forgets it.
LEMMA OnlyRotationAnswers ==
  ASSUME ServerTyped, Next, ~\E t \in Tab : Rotate(t)
  PROVE  \A x \in Tab : Carries(x) \/ Restarts(x)
<1>1. CASE UNCHANGED refresh
  BY <1>1 DEF Carries
<1>2. ASSUME NEW t \in Tab, JoinRefresh(t) PROVE \A x \in Tab : Carries(x) \/ Restarts(x)
  BY <1>2, JoinEffect
<1>3. ASSUME NEW t \in Tab, RetryFails(t) PROVE \A x \in Tab : Carries(x)
  <2> DEFINE b == refresh[t].wanted /\ page'[t] = page[t]
  <2>1. refresh' = [refresh EXCEPT ![t].wanted = b]
    BY <1>3 DEF RetryFails, ServerTyped
  <2>2. b \in BOOLEAN
    OBVIOUS
  <2> HIDE DEF b
  <2> QED
    BY <2>1, <2>2, WantedEffect
<1>4. ASSUME NEW t \in Tab, Logout(t) PROVE \A x \in Tab : Carries(x)
  BY <1>4, WantedEffect DEF Logout
<1>5. ASSUME NEW t \in Tab, CheckRefresh(t) PROVE \A x \in Tab : Carries(x)
  BY <1>5 DEF CheckRefresh, ServerTyped, RefreshState, Carries
<1>6. ASSUME NEW t \in Tab, RefreshSucceeds(t) \/ RefreshFails(t) \/ RefreshIgnored(t)
      PROVE  \A x \in Tab : Carries(x) \/ Restarts(x)
  <2>1. refresh' = [refresh EXCEPT ![t] = NoRefresh]
    BY <1>6 DEF RefreshSucceeds, RefreshFails, RefreshIgnored
  <2> QED
    BY <2>1, ForgetEffect
<1>7. ASSUME NEW t \in Tab, BeginRequest(t) \/ Boot(t) \/ Unauthenticated(t) \/ Focus(t)
      PROVE  \A x \in Tab : Carries(x) \/ Restarts(x)
  BY <1>1, <1>2, <1>7 DEF BeginRequest, Boot, Unauthenticated, Focus
<1>8. ASSUME NEW t \in Tab, AdoptToken(t) \/ RequestDone(t) PROVE UNCHANGED refresh
  BY <1>8 DEF AdoptToken, RequestDone
<1>9. CASE Tick
  BY <1>1, <1>9 DEF Tick
<1> QED
  BY <1>1, <1>3, <1>4, <1>5, <1>6, <1>7, <1>8, <1>9, BuffersAssumption DEF Next, System

\* A token that an answer carries does not expire before the tab reads it.
LEMMA FreshStep ==
  ASSUME SessionInv, FreshAnswers, [Next]_vars
  PROVE  FreshAnswers'
<1>1. ServerTyped /\ now \in Nat /\ refresh \in [Tab -> RefreshState]
  BY DEF SessionInv, ServerTyped
<1>2. /\ Lifetime \in Nat /\ RequestBuffer \in Nat
      /\ RequestBuffer < Lifetime
  BY BuffersAssumption
<1>3. CASE Tick
  BY <1>3 DEF Tick, FreshAnswers
<1>4. ASSUME NEW t \in Tab, Rotate(t) PROVE FreshAnswers'
  <2>1. /\ refresh'[t].token = now + Lifetime
        /\ \A x \in Tab \ {t} : refresh'[x] = refresh[x]
        /\ now' = now
    BY <1>1, <1>4, RotateEffect DEF Rotate, Rotated
  <2> QED
    BY <1>1, <1>2, <2>1 DEF FreshAnswers
<1>5. CASE now' = now /\ \A x \in Tab : Carries(x) \/ Restarts(x)
  BY <1>5 DEF FreshAnswers, Carries, Restarts
<1>6. CASE UNCHANGED vars
  BY <1>6 DEF vars, FreshAnswers
<1>7. ASSUME Next, ~Tick PROVE now' = now
  BY <1>7 DEF Next, System, AdoptToken, BeginRequest, RequestDone, Unauthenticated, RetryFails,
     Focus, CheckRefresh, Rotate, Rotated, RefreshSucceeds, RefreshFails, RefreshIgnored, Boot, Logout
<1> QED
  BY <1>1, <1>3, <1>4, <1>5, <1>6, <1>7, OnlyRotationAnswers

-----------------------------------------------------------------------------
\* What a step does to the tokens in the tabs.
TokensTyped ==
    /\ accessToken \in [Tab -> Nat] /\ stored \in Nat
    /\ inbox \in [Tab -> Seq(Nat)]

\* Storing a token keeps the tokens of all tabs well typed.
LEMMA SetKeepsTokens ==
  ASSUME TabsTyped, NEW t \in Tab, NEW token \in Nat, SetAccessToken(t, token)
  PROVE  TokensTyped'
<1>1. \A x \in Tab : Append(inbox[x], token) \in Seq(Nat) /\ inbox[x] \in Seq(Nat)
  BY DEF TabsTyped
<1> QED
  BY <1>1 DEF TabsTyped, TokensTyped, SetAccessToken

\* So does signing a tab out.
LEMMA RedirectKeepsTokens ==
  ASSUME TabsTyped, NEW t \in Tab, RedirectOnAuthFailure(t)
  PROVE  TokensTyped'
BY DEF TabsTyped, TokensTyped, RedirectOnAuthFailure, ClearAccessToken, NoToken

\* A request that ends leaves its tab idle.
LEMMA IdleIsWellSent ==
  ASSUME TabsTyped, \A x \in Tab : WellSent(x), NEW t \in Tab,
         request' = [request EXCEPT ![t] = NoRequest]
  PROVE  request' \in [Tab -> RequestState] /\ \A x \in Tab : WellSent(x)'
<1>1. NoRequest \in RequestState /\ NoRequest.phase = "idle"
  BY DEF NoRequest, RequestState, NoToken
<1> QED
  BY <1>1 DEF TabsTyped, WellSent

RequestsGood == TabsTyped /\ \A t \in Tab : WellSent(t)

\* A new request is not sent with a token that is about to expire.
LEMMA BeginKeepsRequests ==
  ASSUME RequestsGood, NEW t \in Tab, BeginRequest(t)
  PROVE  RequestsGood'
<1>1. TabsTyped /\ Loaded(t) \in Nat
  BY LoadedIsToken DEF RequestsGood
<1>2. TokensTyped'
  BY <1>1 DEF TabsTyped, TokensTyped, BeginRequest
<1>3. CASE HasStoredToken(t) /\ IsTokenExpired(Loaded(t), RequestBuffer)
  <2> DEFINE row == [NoRequest EXCEPT !.phase = "preflight", !.token = Loaded(t)]
  <2>1. row \in RequestState /\ row.phase = "preflight"
    BY <1>1 DEF NoRequest, RequestState, NoToken
  <2>2. request' = [request EXCEPT ![t] = row]
    BY <1>3 DEF BeginRequest
  <2> HIDE DEF row
  <2> QED
    BY <1>1, <1>2, <2>1, <2>2 DEF RequestsGood, TabsTyped, TokensTyped, WellSent
<1>4. CASE ~(HasStoredToken(t) /\ IsTokenExpired(Loaded(t), RequestBuffer))
  <2> DEFINE guest == ~HasStoredToken(t)
  <2>1. Send(t, "sent", Loaded(t), FALSE, guest) /\ guest \in BOOLEAN
    BY <1>4 DEF BeginRequest
  <2>2. guest \/ ~IsTokenExpired(Loaded(t), RequestBuffer)
    BY <1>4
  <2> HIDE DEF guest
  <2>3. /\ request' \in [Tab -> RequestState] /\ WellSent(t)'
        /\ \A x \in Tab \ {t} : request'[x] = request[x]
    BY <1>1, <2>1, <2>2, SendEffect
  <2> QED
    BY <1>2, <2>3 DEF RequestsGood, TabsTyped, TokensTyped, WellSent
<1> QED
  BY <1>3, <1>4

\* A refresh that succeeds gives the waiting request a fresh token.
LEMMA SucceedsKeepsRequests ==
  ASSUME RequestsInv, NEW t \in Tab, RefreshSucceeds(t)
  PROVE  RequestsGood'
<1>1. /\ TabsTyped /\ now \in Nat /\ RequestBuffer \in Nat
      /\ refresh[t].token \in Nat /\ refresh[t].token > now + RequestBuffer
  BY BuffersAssumption DEF RequestsInv, SessionInv, ServerTyped, RefreshState, FreshAnswers,
     RefreshSucceeds
<1>2. ~IsTokenExpired(refresh[t].token, RequestBuffer)
  BY <1>1 DEF IsTokenExpired, NoToken
<1>3. TokensTyped'
  BY <1>1, SetKeepsTokens DEF RefreshSucceeds
<1>4. ASSUME NEW phase \in {"sent", "retried"}, Send(t, phase, refresh[t].token, FALSE, FALSE)
      PROVE  RequestsGood'
  <2>1. /\ request' \in [Tab -> RequestState] /\ WellSent(t)'
        /\ \A x \in Tab \ {t} : request'[x] = request[x]
    BY <1>1, <1>2, <1>4, SendEffect
  <2> QED
    BY <1>3, <2>1 DEF RequestsInv, RequestsGood, TabsTyped, TokensTyped, WellSent
<1>5. CASE UNCHANGED request
  BY <1>3, <1>5 DEF RequestsInv, RequestsGood, TabsTyped, TokensTyped, WellSent
<1> QED
  BY <1>4, <1>5 DEF RefreshSucceeds

\* A refresh that fails marks the request that is sent after it.
LEMMA FailsKeepsRequests ==
  ASSUME RequestsGood, NEW t \in Tab, RefreshFails(t)
  PROVE  RequestsGood'
<1>1. TabsTyped /\ request[t].token \in Nat
  BY DEF RequestsGood, TabsTyped, RequestState
<1>2. CASE Send(t, "sent", request[t].token, TRUE, FALSE) /\ UNCHANGED <<accessToken, stored, inbox>>
  <2>1. /\ request' \in [Tab -> RequestState] /\ WellSent(t)'
        /\ \A x \in Tab \ {t} : request'[x] = request[x]
    BY <1>1, <1>2, SendEffect
  <2> QED
    BY <1>2, <2>1 DEF RequestsGood, TabsTyped, WellSent
<1>3. CASE request' = [request EXCEPT ![t] = NoRequest] /\ RedirectOnAuthFailure(t)
  <2>1. request' \in [Tab -> RequestState] /\ \A x \in Tab : WellSent(x)'
    BY <1>3, IdleIsWellSent DEF RequestsGood
  <2>2. TokensTyped'
    BY <1>1, <1>3, RedirectKeepsTokens
  <2> QED
    BY <2>1, <2>2 DEF RequestsGood, TabsTyped, TokensTyped
<1>4. CASE UNCHANGED <<accessToken, stored, inbox, request>>
  BY <1>4 DEF RequestsGood, TabsTyped, WellSent
<1> QED
  BY <1>2, <1>3, <1>4 DEF RefreshFails

\* Every step keeps the reasons for which requests are sent.
LEMMA RequestsStep ==
  ASSUME RequestsInv, [Next]_vars
  PROVE  RequestsGood'
<1>1. RequestsGood /\ TabsTyped
  BY DEF RequestsInv, RequestsGood
<1>2. CASE UNCHANGED <<accessToken, stored, inbox, request>>
  BY <1>1, <1>2 DEF RequestsGood, TabsTyped, WellSent
<1>3. ASSUME NEW t \in Tab, AdoptToken(t) PROVE RequestsGood'
  <2>1. inbox[t] \in Seq(Nat) /\ inbox[t] # <<>>
    BY <1>1, <1>3 DEF TabsTyped, AdoptToken
  <2>2. Head(inbox[t]) \in Nat /\ Tail(inbox[t]) \in Seq(Nat)
    BY <2>1
  <2> QED
    BY <1>1, <1>3, <2>2 DEF RequestsGood, TabsTyped, WellSent, AdoptToken
<1>4. ASSUME NEW t \in Tab, RequestDone(t) PROVE RequestsGood'
  BY <1>1, <1>4, IdleIsWellSent DEF RequestsGood, TabsTyped, RequestDone
<1>5. ASSUME NEW t \in Tab, RetryFails(t) PROVE RequestsGood'
  <2>1. request' \in [Tab -> RequestState] /\ \A x \in Tab : WellSent(x)'
    BY <1>1, <1>5, IdleIsWellSent DEF RequestsGood, RetryFails
  <2>2. TokensTyped'
    BY <1>1, <1>5, RedirectKeepsTokens DEF RetryFails
  <2> QED
    BY <2>1, <2>2 DEF RequestsGood, TabsTyped, TokensTyped
<1>6. ASSUME NEW t \in Tab, Logout(t) PROVE RequestsGood'
  <2>1. request' \in [Tab -> RequestState] /\ \A x \in Tab : WellSent(x)'
    BY <1>1, <1>6, IdleIsWellSent DEF RequestsGood, Logout
  <2> QED
    BY <1>1, <1>6, <2>1 DEF RequestsGood, TabsTyped, Logout, ClearAccessToken, NoToken
<1>7. ASSUME NEW t \in Tab, Boot(t) PROVE RequestsGood'
  BY <1>1, <1>7, LoadedIsToken DEF Boot, RequestsGood, TabsTyped, WellSent
<1>8. ASSUME NEW t \in Tab, Unauthenticated(t) PROVE RequestsGood'
  BY <1>1, <1>8 DEF Unauthenticated, RequestsGood, TabsTyped, RequestState, WellSent
<1>9. ASSUME NEW t \in Tab, CheckRefresh(t) \/ Rotate(t) \/ RefreshIgnored(t) \/ Focus(t)
      PROVE  RequestsGood'
  BY <1>2, <1>9 DEF CheckRefresh, Rotate, Rotated, RefreshIgnored, Focus
<1>10. CASE Tick
  BY <1>2, <1>10 DEF Tick
<1>11. CASE UNCHANGED vars
  BY <1>2, <1>11 DEF vars
<1> QED
  BY <1>1, <1>3, <1>4, <1>5, <1>6, <1>7, <1>8, <1>9, <1>10, <1>11, BeginKeepsRequests,
     SucceedsKeepsRequests, FailsKeepsRequests, BuffersAssumption DEF Next, System

\* GuestOnlyAfterFailure: a tab that has a session sends a request with a
\* missing or expiring access token only after a refresh has failed
\* (getRequestToken, refreshAndRetry), whatever the other tabs do.
THEOREM NoGuestWithoutFailure == Spec => []GuestOnlyAfterFailure
<1>1. Init => RequestsInv
  <2> SUFFICES ASSUME Init PROVE RequestsInv
    OBVIOUS
  <2>3. SessionInv /\ FreshAnswers
    BY SessionStarts DEF FreshAnswers
  <2>4. NoRequest \in RequestState /\ NoRequest.phase = "idle"
    BY DEF NoRequest, RequestState, NoToken
  <2>5. request \in [Tab -> RequestState] /\ \A t \in Tab : request[t].phase = "idle"
    BY <2>4 DEF Init
  <2>6. TokensTyped
    BY BuffersAssumption DEF Init, TokensTyped, NoToken
  <2> QED
    BY <2>3, <2>5, <2>6 DEF RequestsInv, TabsTyped, TokensTyped, WellSent
<1>2. RequestsInv /\ [Next]_vars => RequestsInv'
  BY SessionStep, FreshStep, RequestsStep DEF RequestsInv, RequestsGood
<1>3. RequestsInv => GuestOnlyAfterFailure
  BY BuffersAssumption DEF RequestsInv, WellSent, GuestOnlyAfterFailure
<1> QED
  BY <1>1, <1>2, <1>3, PTL DEF Spec
=============================================================================
