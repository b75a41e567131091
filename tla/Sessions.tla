------------------------------ MODULE Sessions ------------------------------
(***************************************************************************)
(* A user's session (auth.service.ts, auth.controller.ts and, in the web   *)
(* application, api-client.ts, auth-bootstrap.tsx, auth.store.ts): the     *)
(* server keeps the hash of one refresh token per user, the browser the    *)
(* token in a cookie, and the page an access token in memory, which it     *)
(* renews when a request is answered 401.  A refresh is several steps of   *)
(* the server, its answer is one more, and other requests, logouts and     *)
(* page loads come in between.                                             *)
(***************************************************************************)
EXTENDS Naturals, FiniteSets

CONSTANTS
    Requests, \* API requests the pages will send
    Calls,    \* session calls in flight at a time
    Allowed   \* the sets of perils a session may be under

(* What the session may meet: a login on another device, a password reset, *)
(* a change of page during the bootstrap, a reload during a call, failures *)
(* of network or database, and logouts or password changes while a refresh *)
(* is in flight.                                                           *)
Perils == {"device", "reset", "navigate", "reload", "fault", "overlap"}

ASSUME SessionAssumption == Allowed \subseteq SUBSET Perils

VARIABLES
    stored,     \* a refresh token's hash is under the user's key
    ended,      \* nobody gave the password since the last logout or reset
    cookie,     \* refresh_token of the browser
    user,       \* auth store: somebody is signed in
    access,     \* auth store: the access token
    refreshing, \* api-client: isRefreshing
    req,        \* API requests of the page
    call,       \* refreshes and logins in flight
    resetting,  \* a reset has stored the new password, and goes on
    perils

vars == <<stored, ended, cookie, user, access, refreshing, req, call, resetting, perils>>

-----------------------------------------------------------------------------
(* A refresh token is live while its hash is the stored one, and never     *)
(* again afterwards: each is drawn with a random key id.                   *)
RefreshTokens == {"none", "live", "old"}
AccessTokens == {"none", "fresh", "stale"}
RequestKinds == {"read", "logout", "change"}
RequestRecords ==
    [at : {"idle", "sent", "waits", "changing", "served", "left", "settled"}, kind : RequestKinds,
     token : AccessTokens, retried : BOOLEAN, result : RefreshTokens]
IdleRequest ==
    [at |-> "idle", kind |-> "read", token |-> "none", retried |-> FALSE, result |-> "none"]
Settled == [IdleRequest EXCEPT !.at = "settled"]
Left == [Settled EXCEPT !.at = "left", !.kind = "change"]
Pending == {r \in Requests : req[r].at \in {"sent", "waits", "changing", "served"}}

(* heard: the page that made the call still waits for its answer.          *)
CallRecords ==
    [by : {"nobody", "interceptor", "bootstrap", "form", "device"}, heard : BOOLEAN,
     token : RefreshTokens, at : {"idle", "compare", "issue", "granted", "refused"}]
IdleCall == [by |-> "nobody", heard |-> FALSE, token |-> "none", at |-> "idle"]

Init ==
    /\ stored = FALSE /\ cookie = "none"
    /\ ended = TRUE
    /\ user = FALSE /\ access = "none" /\ refreshing = FALSE
    /\ req = [r \in Requests |-> IdleRequest]
    /\ call = [c \in Calls |-> IdleCall]
    /\ resetting = FALSE
    /\ perils \in Allowed

-----------------------------------------------------------------------------
(* Handlers that change the session, and what may run beside them.         *)

InFlight == {c \in Calls : call[c].at # "idle"}
Handled == {"sent", "changing", "served", "left"}
Changing == {r \in Requests : req[r].kind # "read" /\ req[r].at \in Handled}
MayRefresh == "overlap" \in perils \/ (Changing = {} /\ ~resetting)
MayChange ==
    \/ "overlap" \in perils
    \/ InFlight = {} /\ Changing = {} /\ ~refreshing /\ ~resetting
Quiet == InFlight = {} /\ Pending = {} /\ Changing = {}

(* The stored hash is replaced or deleted: the token it was of is dead.    *)
Dead(token) == IF token = "live" THEN "old" ELSE token
CallsRetired == [c \in Calls |-> [call[c] EXCEPT !.token = Dead(@)]]
RequestsRetired == [r \in Requests |-> [req[r] EXCEPT !.result = Dead(@)]]

Calling(c, by) ==
    /\ call[c].at = "idle"
    /\ call' = [call EXCEPT ![c] =
                  [by |-> by, heard |-> by # "device", token |-> cookie,
                   at |-> IF by \in {"form", "device"} THEN "issue" ELSE "compare"]]

(* The page stops waiting for a request; a password change that is half    *)
(* done on the server goes on there.                                       *)
Forsaken(r) == IF req[r].at = "changing" THEN Left ELSE Settled

(* The page is left: nothing it waits for is heard any more.               *)
Unload_KeepsFlag ==
    /\ access' = "none" /\ UNCHANGED refreshing
    /\ req' = [r \in Requests |-> IF r \in Pending THEN Forsaken(r) ELSE req[r]]
Unload ==
    /\ access' = "none"
    /\ refreshing' = FALSE
    /\ req' = [r \in Requests |-> IF r \in Pending THEN Forsaken(r) ELSE req[r]]

Unheard == [c \in Calls |-> [call[c] EXCEPT !.heard = FALSE]]
ClearAuth == user' = FALSE /\ Unload

-----------------------------------------------------------------------------
(* refreshTokens, login and verifyEmail on the server                      *)

Valid_Signed(token) == token # "none"
Valid(token) == token = "live"

CompareRefreshToken(c) ==
    /\ call[c].at = "compare"
    /\ call' = [call EXCEPT ![c].at = IF Valid(call[c].token) THEN "issue" ELSE "refused"]
    /\ UNCHANGED <<stored, ended, cookie, user, access, refreshing, req, resetting, perils>>

IssueSessionTokens(c) ==
    /\ call[c].at = "issue"
    /\ stored' = TRUE
    /\ ended' = (ended /\ call[c].by \notin {"form", "device"})
    /\ call' = [CallsRetired EXCEPT ![c].at = "granted", ![c].token = "live"]
    /\ req' = RequestsRetired /\ cookie' = Dead(cookie)
    /\ UNCHANGED <<user, access, refreshing, resetting, perils>>

(* Any error of the database is answered like a bad token.                 *)
RefreshThrows(c) ==
    /\ "fault" \in perils
    /\ call[c].at \in {"compare", "issue"}
    /\ call' = [call EXCEPT ![c].at = "refused"]
    /\ UNCHANGED <<stored, ended, cookie, user, access, refreshing, req, resetting, perils>>

(* The new password is stored first, the refresh token deleted afterwards: *)
(* when that fails, the session goes on under the old password's login.    *)
ResetPassword ==
    /\ "reset" \in perils /\ MayChange /\ ~resetting
    /\ resetting' = TRUE
    /\ UNCHANGED <<stored, ended, cookie, user, access, refreshing, req, call, perils>>

DeleteRefreshToken ==
    /\ resetting /\ resetting' = FALSE
    /\ stored' = FALSE /\ ended' = TRUE
    /\ call' = CallsRetired /\ req' = RequestsRetired /\ cookie' = Dead(cookie)
    /\ UNCHANGED <<user, access, refreshing, perils>>

ResetThrows ==
    /\ "fault" \in perils
    /\ resetting /\ resetting' = FALSE
    /\ UNCHANGED <<stored, ended, cookie, user, access, refreshing, req, call, perils>>

-----------------------------------------------------------------------------
(* The answers of these calls in the page                                  *)

(* processQueue hands the new token to every request that waits, the one   *)
(* that started the refresh included.                                      *)
Resumed_Owner(r) ==
    IF req[r].at = "waits" /\ req[r].retried
    THEN [req[r] EXCEPT !.at = "sent", !.token = "fresh"] ELSE req[r]
Resumed(r) ==
    IF req[r].at = "waits" THEN [req[r] EXCEPT !.at = "sent", !.token = "fresh"] ELSE req[r]

Hears(c, by) == call[c].by = by /\ call[c].heard
Restores(c) == Hears(c, "bootstrap") /\ user /\ access = "none"

Granted(c) ==
    /\ call[c].at = "granted"
    /\ cookie' \in IF call[c].by = "device" THEN {cookie}
                   ELSE IF call[c].heard THEN {call[c].token} ELSE {call[c].token, cookie}
    /\ user' = (user \/ Hears(c, "form"))
    /\ access' = IF Hears(c, "form") \/ Hears(c, "interceptor") \/ Restores(c) THEN "fresh" ELSE access
    /\ IF Hears(c, "interceptor")
       THEN refreshing' = FALSE /\ req' = [r \in Requests |-> Resumed(r)]
       ELSE UNCHANGED <<refreshing, req>>
    /\ call' = [call EXCEPT ![c] = IdleCall]
    /\ UNCHANGED <<stored, ended, resetting, perils>>

(* A refresh that fails for whatever reason ends in the login page.        *)
Refused(c) ==
    /\ \/ call[c].at = "refused"
       \/ (call[c].at = "granted" /\ "fault" \in perils)
    /\ IF Hears(c, "interceptor") \/ Restores(c)
       THEN ClearAuth /\ call' = [Unheard EXCEPT ![c] = IdleCall]
       ELSE /\ call' = [call EXCEPT ![c] = IdleCall]
            /\ UNCHANGED <<user, access, refreshing, req>>
    /\ UNCHANGED <<stored, ended, cookie, resetting, perils>>

-----------------------------------------------------------------------------
(* API requests and the interceptor of their answers                       *)

Send(r, kind) ==
    /\ user /\ req[r].at = "idle"
    /\ kind # "read" => MayChange
    /\ req' = [req EXCEPT ![r] = [IdleRequest EXCEPT !.at = "sent", !.kind = kind, !.token = access]]
    /\ UNCHANGED <<stored, ended, cookie, user, access, refreshing, call, resetting, perils>>

Serve(r) ==
    /\ req[r].at = "sent" /\ req[r].token = "fresh"
    /\ IF req[r].kind = "logout"
       THEN /\ stored' = FALSE /\ ended' = TRUE
            /\ req' = [RequestsRetired EXCEPT ![r].at = "served"]
            /\ call' = CallsRetired /\ cookie' = Dead(cookie)
       ELSE /\ ended' = (ended /\ req[r].kind = "read")
            /\ req' = [req EXCEPT ![r].at = IF req[r].kind = "read" THEN "served" ELSE "changing"]
            /\ UNCHANGED <<stored, cookie, call>>
    /\ UNCHANGED <<user, access, refreshing, resetting, perils>>

(* A password change has stored the new password, and issues new tokens.   *)
(* The browser may keep the cookie of an answer its page no longer hears.  *)
ChangeIssues(r) ==
    /\ req[r].at \in {"changing", "left"}
    /\ stored' = TRUE
    /\ req' = [RequestsRetired EXCEPT ![r] =
                  IF req[r].at = "left" THEN Settled ELSE [@ EXCEPT !.at = "served", !.result = "live"]]
    /\ call' = CallsRetired
    /\ cookie' \in {Dead(cookie)} \cup (IF req[r].at = "left" THEN {"live"} ELSE {})
    /\ UNCHANGED <<ended, user, access, refreshing, resetting, perils>>

Finished(r) == [req EXCEPT ![r] = Settled]

(* Issuing the tokens fails: the password is changed, the session the old. *)
ChangeThrows(r) ==
    /\ "fault" \in perils
    /\ req[r].at \in {"changing", "left"}
    /\ req' = Finished(r)
    /\ UNCHANGED <<stored, ended, cookie, user, access, refreshing, call, resetting, perils>>

(* handleLogout leaves the page whatever the answer is.                    *)
Leaves == ClearAuth /\ call' = Unheard

Answered(r) ==
    /\ req[r].at = "served"
    /\ CASE req[r].kind = "read" ->
              req' = Finished(r) /\ UNCHANGED <<cookie, user, access, refreshing, call>>
         [] req[r].kind = "change" ->
              /\ cookie' = req[r].result /\ access' = "fresh"
              /\ req' = Finished(r)
              /\ UNCHANGED <<user, refreshing, call>>
         [] req[r].kind = "logout" -> cookie' = "none" /\ Leaves
    /\ UNCHANGED <<stored, ended, resetting, perils>>

AnswerLost(r) ==
    /\ "fault" \in perils
    /\ req[r].at \in {"sent", "changing", "served"}
    /\ IF req[r].kind = "logout" THEN Leaves
       ELSE /\ req' = [req EXCEPT ![r] = Forsaken(r)]
            /\ UNCHANGED <<user, access, refreshing, call>>
    /\ UNCHANGED <<stored, ended, cookie, resetting, perils>>

Queues_Never == FALSE
Queues == refreshing

(* 401 (also for a wrong current password): the first such request         *)
(* refreshes, those that fail meanwhile wait for it; one that has been     *)
(* retried, or had no token, is given up.                                  *)
Unauthorized(r) ==
    /\ req[r].at = "sent" /\ (req[r].token # "fresh" \/ req[r].kind = "change")
    /\ IF req[r].retried \/ req[r].token = "none"
       THEN IF req[r].kind = "logout" THEN Leaves
            ELSE /\ req' = Finished(r)
                 /\ UNCHANGED <<user, access, refreshing, call>>
       ELSE IF Queues
       THEN req' = [req EXCEPT ![r].at = "waits"] /\ UNCHANGED <<user, access, refreshing, call>>
       ELSE /\ "overlap" \in perils \/ (Changing \subseteq {r} /\ ~resetting)
            /\ req' = [req EXCEPT ![r] = [@ EXCEPT !.at = "waits", !.retried = TRUE]]
            /\ refreshing' = TRUE
            /\ \E c \in Calls : Calling(c, "interceptor")
            /\ UNCHANGED <<user, access>>
    /\ UNCHANGED <<stored, ended, cookie, resetting, perils>>

-----------------------------------------------------------------------------
(* The page                                                                *)

Bootstrapping == {c \in Calls : Hears(c, "bootstrap")}

RestoreSession(c) ==
    /\ user /\ access = "none" /\ Bootstrapping = {} /\ MayRefresh
    /\ Calling(c, "bootstrap")
    /\ UNCHANGED <<stored, ended, cookie, user, access, refreshing, req, resetting, perils>>

(* The effect of AuthBootstrap depends on the path: it is cancelled and    *)
(* run again.                                                              *)
Navigate ==
    /\ "navigate" \in perils
    /\ call' = [c \in Calls |-> [call[c] EXCEPT !.heard = @ /\ call[c].by # "bootstrap"]]
    /\ UNCHANGED <<stored, ended, cookie, user, access, refreshing, req, resetting, perils>>

Reload ==
    /\ "reload" \in perils \/ Quiet
    /\ Unload
    /\ call' = Unheard
    /\ UNCHANGED <<stored, ended, cookie, user, resetting, perils>>

SignIn(c) ==
    /\ ~user /\ MayChange
    /\ Calling(c, "form")
    /\ UNCHANGED <<stored, ended, cookie, user, access, refreshing, req, resetting, perils>>

SignInElsewhere(c) ==
    /\ "device" \in perils /\ MayChange
    /\ Calling(c, "device")
    /\ UNCHANGED <<stored, ended, cookie, user, access, refreshing, req, resetting, perils>>

AccessTokenExpires ==
    /\ access' = IF access = "fresh" THEN "stale" ELSE access
    /\ req' = [r \in Requests |-> IF req[r].token = "fresh" THEN [req[r] EXCEPT !.token = "stale"] ELSE req[r]]
    /\ UNCHANGED <<stored, ended, cookie, user, refreshing, call, resetting, perils>>

-----------------------------------------------------------------------------
CallStep(c) ==
    CompareRefreshToken(c) \/ IssueSessionTokens(c) \/ RefreshThrows(c) \/ Granted(c) \/ Refused(c)
RequestStep(r) ==
    Serve(r) \/ ChangeIssues(r) \/ ChangeThrows(r) \/ Answered(r) \/ AnswerLost(r) \/ Unauthorized(r)
ResetStep == DeleteRefreshToken \/ ResetThrows

Next ==
    \/ \E c \in Calls : CallStep(c) \/ RestoreSession(c) \/ SignIn(c) \/ SignInElsewhere(c)
    \/ \E r \in Requests : RequestStep(r) \/ \E kind \in RequestKinds : Send(r, kind)
    \/ ResetPassword \/ ResetStep \/ Navigate \/ Reload \/ AccessTokenExpires

Spec == Init /\ [][Next]_vars

(* Network and server answer or fail.  Resets that follow each other, whose *)
(* overlap with a refresh is a peril, keep no request waiting for ever.    *)
FairSpec ==
    /\ Spec
    /\ \A c \in Calls : WF_vars(CallStep(c))
    /\ \A r \in Requests : SF_vars(RequestStep(r))
    /\ WF_vars(ResetStep)

-----------------------------------------------------------------------------
(* Session, page and calls are well formed, and a page that waits for its  *)
(* refresh has one in flight that it listens to.                           *)
TypeOK ==
    /\ {stored, ended, user, refreshing, resetting} \subseteq BOOLEAN
    /\ cookie \in RefreshTokens
    /\ access \in AccessTokens
    /\ req \in [Requests -> RequestRecords]
    /\ call \in [Calls -> CallRecords]
    /\ perils \in SUBSET Perils
    /\ refreshing => \E c \in Calls : Hears(c, "interceptor")

(* A session in no peril is kept: whatever expires and however requests,   *)
(* retries and refreshes follow each other, nobody is sent to the login    *)
(* page who did not log out.  Not covered: a second device or tab, a page  *)
(* reloaded or left while a call or request is on, resets, failures, and a *)
(* refresh that overlaps a password change.                                *)
SessionKept ==
    [][perils = {} /\ user /\ ~user' =>
         \E r \in Pending : req[r].kind = "logout"]_vars

(* After a logout or a password reset that deleted the refresh token no    *)
(* refresh succeeds until the next login, with lost answers, old cookies   *)
(* and reloads; only a refresh or a password change that overlaps it can   *)
(* bring the session back.  A reset whose deletion fails ends nothing.     *)
EndedStaysEnded == ended /\ "overlap" \notin perils => ~stored

(* No request waits for ever for a refresh: it is retried or rejected.     *)
RequestsSettle ==
    \A r \in Requests : r \in Pending ~> r \notin Pending

=============================================================================
