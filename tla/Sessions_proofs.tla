--------------------------- MODULE Sessions_proofs ---------------------------
(***************************************************************************)
(* Theorems about Sessions, for any number of requests of the page, any    *)
(* number of refreshes and logins in flight, and any sets of perils.       *)
(***************************************************************************)
EXTENDS Sessions, TLAPS

-----------------------------------------------------------------------------
(* Types.                                                                  *)

(* Nobody hears a call that is not there.                                  *)
IdleUnheard == \A c \in Calls : call[c].at = "idle" => ~call[c].heard

LEMMA RecordFacts ==
  /\ IdleRequest \in RequestRecords /\ Settled \in RequestRecords
  /\ Settled.at = "settled" /\ Settled.token = "none" /\ Settled.result = "none"
  /\ Left \in RequestRecords /\ Left.at = "left" /\ Left.token = "none" /\ Left.result = "none"
  /\ Left.kind = "change"
  /\ Settled.kind = "read" /\ IdleRequest.at = "idle" /\ IdleRequest.result = "none"
  /\ IdleCall \in CallRecords
  /\ IdleCall.by = "nobody" /\ IdleCall.heard = FALSE
  /\ IdleCall.token = "none" /\ IdleCall.at = "idle"
  BY DEF IdleRequest, Settled, Left, RequestRecords, RequestKinds, AccessTokens, RefreshTokens,
         IdleCall, CallRecords

LEMMA DeadFacts ==
  ASSUME NEW token \in RefreshTokens
  PROVE  Dead(token) \in RefreshTokens /\ Dead(token) # "live"
  BY DEF Dead, RefreshTokens

(* A call begins.                                                          *)
LEMMA CallingFacts ==
  ASSUME TypeOK, NEW c \in Calls, NEW by \in {"interceptor", "bootstrap", "form", "device"},
         Calling(c, by)
  PROVE  /\ call' \in [Calls -> CallRecords]
         /\ call[c].at = "idle"
         /\ call'[c].by = by /\ call'[c].heard = (by # "device") /\ call'[c].token = cookie
         /\ call'[c].at = IF by \in {"form", "device"} THEN "issue" ELSE "compare"
         /\ \A d \in Calls : d # c => call'[d] = call[d]
  <1> DEFINE k == [by |-> by, heard |-> by # "device", token |-> cookie,
                   at |-> IF by \in {"form", "device"} THEN "issue" ELSE "compare"]
  <1>1. k \in CallRecords
    BY DEF TypeOK, CallRecords, RefreshTokens
  <1>2. call' = [call EXCEPT ![c] = k] /\ call[c].at = "idle"
    BY DEF Calling
  <1> QED
    BY <1>1, <1>2 DEF TypeOK

(* What calls and requests keep when their tokens die.                     *)
LEMMA RetiredFacts ==
  ASSUME TypeOK
  PROVE  /\ CallsRetired \in [Calls -> CallRecords]
         /\ \A c \in Calls : /\ CallsRetired[c].by = call[c].by
                             /\ CallsRetired[c].heard = call[c].heard
                             /\ CallsRetired[c].at = call[c].at
                             /\ CallsRetired[c].token # "live"
         /\ RequestsRetired \in [Requests -> RequestRecords]
         /\ \A r \in Requests : /\ RequestsRetired[r].at = req[r].at
                                /\ RequestsRetired[r].kind = req[r].kind
                                /\ RequestsRetired[r].token = req[r].token
                                /\ RequestsRetired[r].retried = req[r].retried
                                /\ RequestsRetired[r].result # "live"
         /\ Dead(cookie) \in RefreshTokens /\ Dead(cookie) # "live"
  <1>1. \A c \in Calls : call[c] \in CallRecords /\ Dead(call[c].token) \in RefreshTokens
                          /\ Dead(call[c].token) # "live"
    BY DeadFacts DEF TypeOK, CallRecords
  <1>2. \A r \in Requests : req[r] \in RequestRecords /\ Dead(req[r].result) \in RefreshTokens
                          /\ Dead(req[r].result) # "live"
    BY DeadFacts DEF TypeOK, RequestRecords
  <1>3. \A c \in Calls : /\ [call[c] EXCEPT !.token = Dead(@)] \in CallRecords
                         /\ CallsRetired[c] = [call[c] EXCEPT !.token = Dead(@)]
    BY <1>1 DEF CallRecords, CallsRetired
  <1>4. \A r \in Requests : /\ [req[r] EXCEPT !.result = Dead(@)] \in RequestRecords
                            /\ RequestsRetired[r] = [req[r] EXCEPT !.result = Dead(@)]
    BY <1>2 DEF RequestRecords, RequestsRetired
  <1>5. CallsRetired \in [Calls -> CallRecords] /\ RequestsRetired \in [Requests -> RequestRecords]
    BY <1>3, <1>4 DEF CallsRetired, RequestsRetired
  <1>6. Dead(cookie) \in RefreshTokens /\ Dead(cookie) # "live"
    BY DeadFacts DEF TypeOK
  <1>7. \A c \in Calls : /\ CallsRetired[c].by = call[c].by
                         /\ CallsRetired[c].heard = call[c].heard
                         /\ CallsRetired[c].at = call[c].at
                         /\ CallsRetired[c].token = Dead(call[c].token)
    BY <1>1, <1>3 DEF CallRecords
  <1>8. \A r \in Requests : /\ RequestsRetired[r].at = req[r].at
                            /\ RequestsRetired[r].kind = req[r].kind
                            /\ RequestsRetired[r].token = req[r].token
                            /\ RequestsRetired[r].retried = req[r].retried
                            /\ RequestsRetired[r].result = Dead(req[r].result)
    BY <1>2, <1>4 DEF RequestRecords
  <1> QED
    BY <1>1, <1>2, <1>5, <1>6, <1>7, <1>8

LEMMA UnheardFacts ==
  ASSUME TypeOK
  PROVE  /\ Unheard \in [Calls -> CallRecords]
         /\ \A c \in Calls : /\ Unheard[c].by = call[c].by /\ Unheard[c].at = call[c].at
                             /\ Unheard[c].token = call[c].token /\ Unheard[c].heard = FALSE
  BY DEF TypeOK, Unheard, CallRecords

LEMMA UnloadFacts ==
  ASSUME TypeOK, Unload
  PROVE  /\ access' = "none" /\ refreshing' = FALSE
         /\ req' \in [Requests -> RequestRecords]
         /\ \A r \in Requests :
              \/ r \in Pending /\ req'[r] = IF req[r].at = "changing" THEN Left ELSE Settled
              \/ r \notin Pending /\ req'[r] = req[r]
  BY RecordFacts DEF TypeOK, Unload, Forsaken

(* The new session is handed to who waits for it.                          *)
LEMMA ResumedFacts ==
  ASSUME TypeOK
  PROVE  \A r \in Requests :
           /\ Resumed(r) \in RequestRecords
           /\ Resumed(r).kind = req[r].kind /\ Resumed(r).result = req[r].result
           /\ req[r].at = "waits" => Resumed(r).at = "sent" /\ Resumed(r).token = "fresh"
           /\ req[r].at # "waits" => Resumed(r) = req[r]
  BY DEF TypeOK, Resumed, RequestRecords, AccessTokens

(* The steps of a call: its own fields, the other calls'.                  *)
LEMMA CompareFacts ==
  ASSUME TypeOK, NEW c \in Calls, NEW at \in {"issue", "refused"},
         call' = [call EXCEPT ![c].at = at]
  PROVE  /\ call' \in [Calls -> CallRecords]
         /\ call'[c].at = at /\ call'[c].by = call[c].by
         /\ call'[c].heard = call[c].heard /\ call'[c].token = call[c].token
         /\ \A d \in Calls : d # c => call'[d] = call[d]
  BY DEF TypeOK, CallRecords

LEMMA IssueFacts ==
  ASSUME TypeOK, NEW c \in Calls, IssueSessionTokens(c)
  PROVE  /\ call' \in [Calls -> CallRecords]
         /\ call'[c].at = "granted" /\ call'[c].by = call[c].by
         /\ call'[c].heard = call[c].heard /\ call'[c].token = "live"
         /\ \A d \in Calls : d # c => call'[d] = CallsRetired[d]
  <1>1. call' = [CallsRetired EXCEPT ![c].at = "granted", ![c].token = "live"]
    BY DEF IssueSessionTokens
  <1>2. CallsRetired \in [Calls -> CallRecords] /\ CallsRetired[c].by = call[c].by
        /\ CallsRetired[c].heard = call[c].heard
    BY RetiredFacts
  <1> QED
    BY <1>1, <1>2 DEF CallRecords, RefreshTokens

LEMMA IdledFacts ==
  ASSUME TypeOK, NEW c \in Calls, NEW f \in [Calls -> CallRecords]
  PROVE  LET g == [f EXCEPT ![c] = IdleCall]
         IN  g \in [Calls -> CallRecords] /\ g[c] = IdleCall /\ \A d \in Calls : d # c => g[d] = f[d]
  BY RecordFacts

(* The steps of a request.                                                 *)
LEMMA SentFacts ==
  ASSUME TypeOK, NEW r \in Requests, NEW kind \in RequestKinds, Send(r, kind)
  PROVE  /\ req' \in [Requests -> RequestRecords]
         /\ req'[r].at = "sent" /\ req'[r].kind = kind /\ req'[r].token = access
         /\ req'[r].result = "none"
         /\ \A s \in Requests : s # r => req'[s] = req[s]
  BY DEF TypeOK, Send, RequestRecords, RefreshTokens, IdleRequest

LEMMA ReadFacts ==
  ASSUME TypeOK, NEW r \in Requests, NEW at \in {"served", "changing", "waits"},
         req' = [req EXCEPT ![r].at = at]
  PROVE  /\ req' \in [Requests -> RequestRecords]
         /\ req'[r].at = at /\ req'[r].kind = req[r].kind /\ req'[r].token = req[r].token
         /\ req'[r].result = req[r].result
         /\ \A s \in Requests : s # r => req'[s] = req[s]
  BY DEF TypeOK, RequestRecords

LEMMA RetryFacts ==
  ASSUME TypeOK, NEW r \in Requests,
         req' = [req EXCEPT ![r] = [@ EXCEPT !.at = "waits", !.retried = TRUE]]
  PROVE  /\ req' \in [Requests -> RequestRecords]
         /\ req'[r].at = "waits" /\ req'[r].kind = req[r].kind /\ req'[r].token = req[r].token
         /\ req'[r].result = req[r].result
         /\ \A s \in Requests : s # r => req'[s] = req[s]
  BY DEF TypeOK, RequestRecords

LEMMA ServedFacts ==
  ASSUME TypeOK, NEW r \in Requests, Serve(r), req[r].kind = "logout"
  PROVE  /\ req' \in [Requests -> RequestRecords]
         /\ req'[r].at = "served" /\ req'[r].kind = "logout" /\ req'[r].token = req[r].token
         /\ req'[r].result # "live"
         /\ \A s \in Requests : s # r => req'[s] = RequestsRetired[s]
  <1>1. req' = [RequestsRetired EXCEPT ![r].at = "served"]
    BY DEF Serve
  <1>2. RequestsRetired \in [Requests -> RequestRecords] /\ RequestsRetired[r].kind = req[r].kind
        /\ RequestsRetired[r].token = req[r].token /\ RequestsRetired[r].result # "live"
    BY RetiredFacts
  <1> QED
    BY <1>1, <1>2 DEF RequestRecords

LEMMA IssuesFacts ==
  ASSUME TypeOK, NEW r \in Requests, ChangeIssues(r)
  PROVE  /\ req' \in [Requests -> RequestRecords]
         /\ \/ req[r].at = "left" /\ req'[r] = Settled
            \/ /\ req[r].at = "changing" /\ req'[r].at = "served" /\ req'[r].kind = req[r].kind
               /\ req'[r].token = req[r].token /\ req'[r].result = "live"
         /\ \A s \in Requests : s # r => req'[s] = RequestsRetired[s]
  <1> DEFINE q == IF req[r].at = "left" THEN Settled
                  ELSE [RequestsRetired[r] EXCEPT !.at = "served", !.result = "live"]
  <1>1. req' = [RequestsRetired EXCEPT ![r] = q] /\ req[r].at \in {"changing", "left"}
    BY RetiredFacts DEF ChangeIssues
  <1>2. RequestsRetired \in [Requests -> RequestRecords] /\ RequestsRetired[r].kind = req[r].kind
        /\ RequestsRetired[r].token = req[r].token
    BY RetiredFacts
  <1>3. /\ q \in RequestRecords
        /\ req[r].at # "left" => q.at = "served" /\ q.kind = req[r].kind /\ q.token = req[r].token
                                /\ q.result = "live"
    BY <1>2, RecordFacts DEF RequestRecords, RefreshTokens
  <1> QED
    BY <1>1, <1>2, <1>3

LEMMA FinishedFacts ==
  ASSUME TypeOK, NEW r \in Requests
  PROVE  /\ Finished(r) \in [Requests -> RequestRecords] /\ Finished(r)[r] = Settled
         /\ \A s \in Requests : s # r => Finished(r)[s] = req[s]
  BY RecordFacts DEF TypeOK, Finished

LEMMA ForsakenFacts ==
  ASSUME TypeOK, NEW r \in Requests, req' = [req EXCEPT ![r] = Forsaken(r)]
  PROVE  /\ req' \in [Requests -> RequestRecords]
         /\ req'[r] = IF req[r].at = "changing" THEN Left ELSE Settled
         /\ \A s \in Requests : s # r => req'[s] = req[s]
  BY RecordFacts DEF TypeOK, Forsaken

(* Access tokens expire on both sides of the answer.                       *)
LEMMA ExpiredFacts ==
  ASSUME TypeOK, AccessTokenExpires
  PROVE  /\ access' \in AccessTokens /\ (access' = "none" <=> access = "none")
         /\ req' \in [Requests -> RequestRecords]
         /\ \A r \in Requests : /\ req'[r].at = req[r].at /\ req'[r].kind = req[r].kind
                                /\ req'[r].result = req[r].result
                                /\ req'[r].token = "none" <=> req[r].token = "none"
  BY DEF TypeOK, AccessTokenExpires, RequestRecords, AccessTokens

-----------------------------------------------------------------------------
TypeInv == TypeOK /\ IdleUnheard

(* A refresh somebody waits for is not forgotten when other calls move.    *)
Awaited == refreshing => \E c \in Calls : Hears(c, "interceptor")

LEMMA AwaitedKept ==
  ASSUME TypeInv, refreshing' = refreshing \/ refreshing' = FALSE,
         \A c \in Calls : Hears(c, "interceptor") => Hears(c, "interceptor")'
  PROVE  Awaited'
  BY DEF TypeInv, TypeOK, Awaited

(* Leaving the page.                                                       *)
LEMMA LeftFacts ==
  ASSUME TypeInv, Unload, UNCHANGED <<stored, ended, cookie, resetting, perils>>, user' \in BOOLEAN,
         call' \in [Calls -> CallRecords],
         \A c \in Calls : call'[c].at = "idle" => ~call'[c].heard
  PROVE  TypeInv'
  BY UnloadFacts DEF TypeInv, TypeOK, IdleUnheard, AccessTokens

LEMMA TypeLeaves ==
  ASSUME TypeInv, ClearAuth, call' = Unheard,
         cookie' \in RefreshTokens, stored' \in BOOLEAN, ended' \in BOOLEAN, UNCHANGED <<resetting, perils>>
  PROVE  TypeInv'
  BY UnloadFacts, UnheardFacts DEF TypeInv, TypeOK, IdleUnheard, AccessTokens, ClearAuth

LEMMA TypeCallStep ==
  ASSUME TypeInv, NEW c \in Calls, CallStep(c)
  PROVE  TypeInv'
  <1>0. TypeOK /\ IdleUnheard
    BY DEF TypeInv
  <1>1. CASE CompareRefreshToken(c) \/ RefreshThrows(c)
    <2>1. PICK at \in {"issue", "refused"} : call' = [call EXCEPT ![c].at = at]
      BY <1>1 DEF CompareRefreshToken, RefreshThrows
    <2>2. UNCHANGED <<stored, ended, cookie, user, access, refreshing, req, resetting, perils>>
      BY <1>1 DEF CompareRefreshToken, RefreshThrows
    <2>3. \A d \in Calls : call'[d].by = call[d].by /\ call'[d].heard = call[d].heard
      BY <1>0, <2>1, CompareFacts
    <2>4. call' \in [Calls -> CallRecords] /\ call'[c].at = at /\ \A d \in Calls : d # c => call'[d] = call[d]
      BY <1>0, <2>1, CompareFacts
    <2>5. Awaited'
      BY <2>2, <2>3, AwaitedKept DEF Hears
    <2> QED
      BY <1>0, <2>2, <2>4, <2>5 DEF TypeInv, TypeOK, IdleUnheard, Awaited
  <1>2. CASE IssueSessionTokens(c)
    <2>1. UNCHANGED <<user, access, refreshing, resetting, perils>> /\ stored' = TRUE /\ ended' \in BOOLEAN
          /\ req' = RequestsRetired /\ cookie' = Dead(cookie)
      BY <1>0, <1>2 DEF IssueSessionTokens, TypeOK
    <2>2. call' \in [Calls -> CallRecords] /\ call'[c].at = "granted"
      BY <1>0, <1>2, IssueFacts
    <2>3. \A d \in Calls : /\ call'[d].by = call[d].by /\ call'[d].heard = call[d].heard
                           /\ d # c => call'[d].at = call[d].at
      BY <1>0, <1>2, IssueFacts, RetiredFacts
    <2>4. req' \in [Requests -> RequestRecords] /\ cookie' \in RefreshTokens
      BY <1>0, <2>1, RetiredFacts
    <2>5. Awaited'
      BY <2>1, <2>3, AwaitedKept DEF Hears
    <2> QED
      BY <1>0, <2>1, <2>2, <2>3, <2>4, <2>5 DEF TypeInv, TypeOK, IdleUnheard, Awaited
  <1>3. CASE Granted(c)
    <2>1. call' \in [Calls -> CallRecords] /\ call'[c] = IdleCall
          /\ \A d \in Calls : d # c => call'[d] = call[d]
      BY <1>0, <1>3, IdledFacts DEF Granted, TypeOK
    <2>2. cookie' \in RefreshTokens /\ access' \in AccessTokens /\ user' \in BOOLEAN
      BY <1>0, <1>3 DEF Granted, TypeOK, CallRecords, AccessTokens, Hears
    <2>3. UNCHANGED <<stored, ended, resetting, perils>>
      BY <1>3 DEF Granted
    <2>4. req' \in [Requests -> RequestRecords] /\ refreshing' \in BOOLEAN
      BY <1>0, <1>3, ResumedFacts DEF Granted, TypeOK
    <2>5. Awaited'
      BY <1>0, <1>3, <2>1 DEF Granted, Awaited, Hears, TypeOK
    <2>6. IdleUnheard'
      BY <1>0, <2>1, RecordFacts DEF IdleUnheard
    <2> QED
      BY <1>0, <2>1, <2>2, <2>3, <2>4, <2>5, <2>6 DEF TypeInv, TypeOK, Awaited
  <1>4. CASE Refused(c)
    <2>1. UNCHANGED <<stored, ended, cookie, resetting, perils>>
      BY <1>4 DEF Refused
    <2>2. CASE Hears(c, "interceptor") \/ Restores(c)
      <3>1. ClearAuth /\ call' = [Unheard EXCEPT ![c] = IdleCall]
        BY <1>4, <2>2 DEF Refused
      <3>2. call' \in [Calls -> CallRecords] /\ call'[c] = IdleCall
            /\ \A d \in Calls : d # c => call'[d] = Unheard[d]
        BY <1>0, <3>1, IdledFacts, UnheardFacts
      <3>3. \A d \in Calls : ~call'[d].heard
        BY <1>0, <3>2, UnheardFacts, RecordFacts
      <3> QED
        BY <2>1, <3>1, <3>2, <3>3, LeftFacts DEF ClearAuth
    <2>3. CASE ~(Hears(c, "interceptor") \/ Restores(c))
      <3>1. UNCHANGED <<user, access, refreshing, req>> /\ call' = [call EXCEPT ![c] = IdleCall]
        BY <1>4, <2>3 DEF Refused
      <3>2. call' \in [Calls -> CallRecords] /\ call'[c] = IdleCall
            /\ \A d \in Calls : d # c => call'[d] = call[d]
        BY <1>0, <3>1, IdledFacts DEF TypeOK
      <3>3. Awaited'
        BY <1>0, <2>3, <3>1, <3>2 DEF Awaited, Hears, TypeOK
      <3>4. IdleUnheard'
        BY <1>0, <3>2, RecordFacts DEF IdleUnheard
      <3> QED
        BY <1>0, <2>1, <3>1, <3>2, <3>3, <3>4 DEF TypeInv, TypeOK, Awaited
    <2> QED
      BY <2>2, <2>3
  <1> QED
    BY <1>1, <1>2, <1>3, <1>4 DEF CallStep

LEMMA TypeCalling ==
  ASSUME TypeInv, NEW c \in Calls, NEW by \in {"interceptor", "bootstrap", "form", "device"},
         Calling(c, by),
         refreshing' = refreshing \/ (refreshing' = TRUE /\ by = "interceptor")
  PROVE  /\ call' \in [Calls -> CallRecords] /\ refreshing' \in BOOLEAN
         /\ Awaited' /\ IdleUnheard'
  <1>0. TypeOK /\ IdleUnheard
    BY DEF TypeInv
  <1>1. call' \in [Calls -> CallRecords] /\ call[c].at = "idle" /\ call'[c].at # "idle"
        /\ call'[c].by = by /\ call'[c].heard = (by # "device")
        /\ \A d \in Calls : d # c => call'[d] = call[d]
    BY <1>0, CallingFacts
  <1>2. Awaited'
    BY <1>0, <1>1 DEF Awaited, Hears, TypeOK, IdleUnheard
  <1> QED
    BY <1>0, <1>1, <1>2 DEF IdleUnheard, TypeOK

LEMMA TypeRequestStep ==
  ASSUME TypeInv, NEW r \in Requests, RequestStep(r)
  PROVE  TypeInv'
  <1>0. TypeOK /\ IdleUnheard
    BY DEF TypeInv
  <1>1. CASE Serve(r) \/ ChangeIssues(r)
    <2>1. UNCHANGED <<user, access, refreshing, resetting, perils>>
      BY <1>1 DEF Serve, ChangeIssues
    <2>2. CASE Serve(r) /\ req[r].kind # "logout"
      <3>1. PICK at \in {"served", "changing"} : req' = [req EXCEPT ![r].at = at]
        BY <2>2 DEF Serve
      <3>2. UNCHANGED <<stored, cookie, call>> /\ ended' \in BOOLEAN
        BY <1>0, <2>2 DEF Serve, TypeOK
      <3> QED
        BY <1>0, <2>1, <3>1, <3>2, ReadFacts DEF TypeInv, TypeOK, IdleUnheard, Hears
    <2>3. CASE (Serve(r) /\ req[r].kind = "logout") \/ ChangeIssues(r)
      <3>1. stored' \in BOOLEAN /\ ended' \in BOOLEAN /\ call' = CallsRetired
            /\ cookie' \in {Dead(cookie), "live"}
        BY <1>0, <2>3 DEF Serve, ChangeIssues, TypeOK
      <3>2. call' \in [Calls -> CallRecords] /\ cookie' \in RefreshTokens
        BY <1>0, <3>1, RetiredFacts DEF RefreshTokens
      <3>3. \A c \in Calls : /\ call'[c].by = call[c].by /\ call'[c].heard = call[c].heard
                             /\ call'[c].at = call[c].at
        BY <1>0, <3>1, RetiredFacts
      <3>4. req' \in [Requests -> RequestRecords]
        BY <1>0, <2>3, ServedFacts, IssuesFacts
      <3>5. Awaited'
        BY <2>1, <3>3, AwaitedKept DEF Hears
      <3> QED
        BY <1>0, <2>1, <3>1, <3>2, <3>3, <3>4, <3>5 DEF TypeInv, TypeOK, IdleUnheard, Awaited
    <2> QED
      BY <1>1, <2>2, <2>3
  <1>5. CASE ChangeThrows(r)
    BY <1>0, <1>5, FinishedFacts DEF ChangeThrows, TypeInv, TypeOK, IdleUnheard, Hears
  <1>2. CASE Answered(r)
    <2>1. req[r] \in RequestRecords /\ UNCHANGED <<stored, ended, resetting, perils>>
      BY <1>0, <1>2 DEF Answered, TypeOK
    <2>2. CASE req[r].kind = "logout"
      BY <1>0, <1>2, <2>1, <2>2, TypeLeaves DEF Answered, Leaves, TypeOK, RefreshTokens
    <2>3. CASE req[r].kind # "logout"
      <3>1. req' = Finished(r) /\ UNCHANGED <<user, refreshing, call>>
        BY <1>2, <2>1, <2>3 DEF Answered, RequestRecords, RequestKinds
      <3>2. cookie' \in RefreshTokens /\ access' \in AccessTokens
        BY <1>0, <1>2, <2>1, <2>3 DEF Answered, RequestRecords, RequestKinds, AccessTokens, TypeOK
      <3> QED
        BY <1>0, <2>1, <3>1, <3>2, FinishedFacts DEF TypeInv, TypeOK, IdleUnheard, Hears
    <2> QED
      BY <2>2, <2>3
  <1>3. CASE AnswerLost(r)
    <2>1. UNCHANGED <<stored, ended, cookie, resetting, perils>>
      BY <1>3 DEF AnswerLost
    <2>2. CASE req[r].kind = "logout"
      BY <1>0, <1>3, <2>1, <2>2, TypeLeaves DEF AnswerLost, Leaves, TypeOK
    <2>3. CASE req[r].kind # "logout"
      BY <1>0, <1>3, <2>1, <2>3, ForsakenFacts DEF AnswerLost, TypeInv, TypeOK, IdleUnheard, Hears
    <2> QED
      BY <2>2, <2>3
  <1>4. CASE Unauthorized(r)
    <2>1. UNCHANGED <<stored, ended, cookie, resetting, perils>>
      BY <1>4 DEF Unauthorized
    <2>2. CASE req[r].retried \/ req[r].token = "none"
      <3>1. CASE req[r].kind = "logout"
        BY <1>0, <1>4, <2>1, <2>2, <3>1, TypeLeaves DEF Unauthorized, Leaves, TypeOK
      <3>2. CASE req[r].kind # "logout"
        BY <1>0, <1>4, <2>1, <2>2, <3>2, FinishedFacts DEF Unauthorized, TypeInv, TypeOK, IdleUnheard, Hears
      <3> QED
        BY <3>1, <3>2
    <2>3. CASE ~(req[r].retried \/ req[r].token = "none") /\ Queues
      BY <1>0, <1>4, <2>1, <2>3, ReadFacts DEF Unauthorized, TypeInv, TypeOK, IdleUnheard, Hears
    <2>4. CASE ~(req[r].retried \/ req[r].token = "none") /\ ~Queues
      <3>1. /\ req' = [req EXCEPT ![r] = [@ EXCEPT !.at = "waits", !.retried = TRUE]]
            /\ refreshing' = TRUE /\ UNCHANGED <<user, access>>
            /\ \E c \in Calls : Calling(c, "interceptor")
        BY <1>4, <2>4 DEF Unauthorized
      <3>2. req' \in [Requests -> RequestRecords]
        BY <1>0, <3>1, RetryFacts
      <3>3. call' \in [Calls -> CallRecords] /\ Awaited' /\ IdleUnheard'
        BY <3>1, TypeCalling
      <3> QED
        BY <1>0, <2>1, <3>1, <3>2, <3>3 DEF TypeInv, TypeOK, Awaited
    <2> QED
      BY <2>2, <2>3, <2>4
  <1> QED
    BY <1>1, <1>2, <1>3, <1>4, <1>5 DEF RequestStep

LEMMA TypeStep ==
  ASSUME TypeInv, [Next]_vars
  PROVE  TypeInv'
  <1>0. TypeOK /\ IdleUnheard
    BY DEF TypeInv
  <1>1. ASSUME NEW c \in Calls, RestoreSession(c) \/ SignIn(c) \/ SignInElsewhere(c)
        PROVE  TypeInv'
    <2>1. /\ UNCHANGED <<stored, ended, cookie, user, access, refreshing, req, resetting, perils>>
          /\ \E by \in {"interceptor", "bootstrap", "form", "device"} : Calling(c, by)
      BY <1>1 DEF RestoreSession, SignIn, SignInElsewhere
    <2>2. call' \in [Calls -> CallRecords] /\ Awaited' /\ IdleUnheard'
      BY <2>1, TypeCalling
    <2> QED
      BY <1>0, <2>1, <2>2 DEF TypeInv, TypeOK, Awaited
  <1>2. ASSUME NEW r \in Requests, NEW kind \in RequestKinds, Send(r, kind)
        PROVE  TypeInv'
    BY <1>0, <1>2, SentFacts DEF Send, TypeInv, TypeOK, IdleUnheard, Hears
  <1>8. CASE ResetPassword \/ ResetThrows
    <2>1. UNCHANGED <<stored, ended, cookie, user, access, refreshing, req, call, perils>>
      BY <1>8 DEF ResetPassword, ResetThrows
    <2>2. resetting' \in BOOLEAN
      BY <1>8 DEF ResetPassword, ResetThrows
    <2> QED
      BY <1>0, <2>1, <2>2 DEF TypeInv, TypeOK, IdleUnheard, Hears
  <1>3. CASE DeleteRefreshToken
    <2>1. /\ UNCHANGED <<user, access, refreshing, perils>> /\ stored' = FALSE /\ ended' = TRUE
          /\ call' = CallsRetired /\ req' = RequestsRetired /\ cookie' = Dead(cookie) /\ resetting' = FALSE
      BY <1>3 DEF DeleteRefreshToken
    <2>2. \A c \in Calls : /\ call'[c].by = call[c].by /\ call'[c].heard = call[c].heard
                           /\ call'[c].at = call[c].at
      BY <1>0, <2>1, RetiredFacts
    <2>3. Awaited'
      BY <2>1, <2>2, AwaitedKept DEF Hears
    <2>4. call' \in [Calls -> CallRecords] /\ req' \in [Requests -> RequestRecords]
          /\ cookie' \in RefreshTokens
      BY <1>0, <2>1, RetiredFacts
    <2> QED
      BY <1>0, <2>1, <2>2, <2>3, <2>4 DEF TypeInv, TypeOK, IdleUnheard, Awaited
  <1>4. CASE Navigate
    <2>1. /\ UNCHANGED <<stored, ended, cookie, user, access, refreshing, req, resetting, perils>>
          /\ call' = [c \in Calls |-> [call[c] EXCEPT !.heard = @ /\ call[c].by # "bootstrap"]]
      BY <1>4 DEF Navigate
    <2>2. call' \in [Calls -> CallRecords]
          /\ \A c \in Calls : /\ call'[c].by = call[c].by /\ call'[c].at = call[c].at
                              /\ call'[c].heard = (call[c].heard /\ call[c].by # "bootstrap")
      BY <1>0, <2>1 DEF TypeOK, CallRecords
    <2>3. Awaited'
      BY <2>1, <2>2, AwaitedKept DEF Hears
    <2> QED
      BY <1>0, <2>1, <2>2, <2>3 DEF TypeInv, TypeOK, IdleUnheard, Awaited
  <1>5. CASE Reload
    BY <1>0, <1>5, LeftFacts, UnheardFacts DEF Reload, TypeOK
  <1>6. CASE AccessTokenExpires
    BY <1>0, <1>6, ExpiredFacts DEF AccessTokenExpires, TypeInv, TypeOK, IdleUnheard, Hears
  <1>7. CASE UNCHANGED vars
    BY <1>0, <1>7 DEF vars, TypeInv, TypeOK, IdleUnheard, Hears
  <1> QED
    BY <1>1, <1>2, <1>3, <1>4, <1>5, <1>6, <1>7, <1>8, TypeCallStep, TypeRequestStep DEF Next, ResetStep

LEMMA TypeInit ==
  ASSUME Init
  PROVE  TypeInv
  BY RecordFacts, SessionAssumption DEF Init, TypeInv, TypeOK, IdleUnheard, RefreshTokens, AccessTokens

(* The session of the server, the browser and the page, and the requests   *)
(* and calls between them, have the values the code gives them; whenever   *)
(* isRefreshing is set there is a refresh whose answer resets it.          *)
THEOREM SessionTypeCorrect == Spec => []TypeOK
  <1>1. Init => TypeInv
    BY TypeInit
  <1>2. TypeInv /\ [Next]_vars => TypeInv'
    BY TypeStep
  <1>3. TypeInv => TypeOK
    BY DEF TypeInv
  <1> QED
    BY <1>1, <1>2, <1>3, PTL DEF Spec

-----------------------------------------------------------------------------
(* Logout and reset.                                                       *)

(* Of a user with no session no live token is anywhere.                    *)
NoLiveToken ==
  ~stored => /\ cookie # "live"
             /\ \A c \in Calls : call[c].token # "live"
             /\ \A r \in Requests : req[r].result # "live"

(* Requests are of a page somebody is signed in to.                        *)
PendingSignedIn ==
  \A r \in Pending : user /\ (req[r].token # "none" => access # "none")
WaitsForRefresh ==
  \A r \in Requests : req[r].at = "waits" => req[r].token # "none" /\ refreshing

(* A logout or password change that overlaps no refresh has the server to  *)
(* itself; the one refresh it may wait for is its own.                     *)
ChangeAlone ==
  "overlap" \notin perils =>
    \A r \in Requests : req[r].kind # "read" /\ req[r].at \in Handled =>
      \A c \in Calls : call[c].at = "idle"
ChangeWaits ==
  "overlap" \notin perils =>
    \A r \in Requests : req[r].kind # "read" /\ req[r].at = "waits" =>
      \A c, d \in Calls : call[c].at # "idle" /\ call[d].at # "idle" => c = d

(* So has a reset, between its two writes.                                 *)
ResetAlone ==
  "overlap" \notin perils /\ resetting =>
    /\ ~refreshing
    /\ \A c \in Calls : call[c].at = "idle"
    /\ \A r \in Requests : req[r].kind # "read" => req[r].at \notin Handled

(* Only a password change is done by halves.                               *)
HalfDone == \A r \in Requests : req[r].at \in {"changing", "left"} => req[r].kind = "change"

(* Only who gave the password is issued tokens after an end.               *)
EndedAtRest ==
  "overlap" \notin perils /\ ended =>
    /\ ~stored
    /\ \A c \in Calls : call[c].at = "issue" => call[c].by \in {"form", "device"}
    /\ \A r \in Requests : req[r].at \notin {"changing", "left"}

(* One change at a time.                                                   *)
Active == Handled \cup {"waits"}
OneChange ==
  "overlap" \notin perils =>
    \A r, s \in Requests :
      req[r].kind # "read" /\ req[s].kind # "read" /\ req[r].at \in Active /\ req[s].at \in Active
        => r = s

SessionInv ==
  /\ TypeInv
  /\ NoLiveToken
  /\ PendingSignedIn /\ WaitsForRefresh
  /\ ChangeAlone /\ ChangeWaits /\ ResetAlone
  /\ HalfDone /\ EndedAtRest

(* While a request waits or a refresh is on no change is sent, and nothing *)
(* but its answer moves the session.                                       *)
LEMMA MayChangeFacts ==
  ASSUME SessionInv, "overlap" \notin perils, MayChange
  PROVE  /\ \A c \in Calls : call[c].at = "idle"
         /\ ~refreshing /\ ~resetting
         /\ \A r \in Requests : req[r].at # "waits"
         /\ \A r \in Requests : req[r].kind # "read" => req[r].at \notin Handled
  BY DEF SessionInv, MayChange, InFlight, Changing, WaitsForRefresh

(* A call of the page or another device begins.                            *)
LEMMA SessionCalling ==
  ASSUME SessionInv, TypeInv', NEW c \in Calls,
         NEW by \in {"interceptor", "bootstrap", "form", "device"}, Calling(c, by),
         UNCHANGED <<stored, ended, cookie, user, access, resetting, perils>>,
         req' = req, refreshing' = refreshing,
         "overlap" \notin perils =>
           /\ ~resetting
           /\ \A r \in Requests : req[r].kind # "read" => req[r].at \notin Handled
           /\ \A r \in Requests : req[r].at = "waits" => req[r].kind = "read"
  PROVE  SessionInv'
  <1>0. TypeOK
    BY DEF SessionInv, TypeInv
  <1>1. /\ call'[c].token = cookie /\ call'[c].by = by
        /\ call'[c].at = IF by \in {"form", "device"} THEN "issue" ELSE "compare"
        /\ \A d \in Calls : d # c => call'[d] = call[d]
    BY <1>0, CallingFacts
  <1>2. NoLiveToken'
    BY <1>1 DEF SessionInv, NoLiveToken
  <1>3. PendingSignedIn' /\ WaitsForRefresh'
    BY DEF SessionInv, PendingSignedIn, WaitsForRefresh, Pending
  <1>4. ChangeAlone' /\ ChangeWaits' /\ ResetAlone' /\ HalfDone'
    BY DEF ChangeAlone, ChangeWaits, ResetAlone, HalfDone, SessionInv
  <1>5. EndedAtRest'
    BY <1>1 DEF SessionInv, EndedAtRest
  <1> QED
    BY <1>2, <1>3, <1>4, <1>5 DEF SessionInv

(* Everything that leaves the page keeps what holds of the server.         *)
LEMMA SessionUnload ==
  ASSUME SessionInv, TypeInv', Unload, UNCHANGED <<stored, ended, resetting, perils>>,
         cookie' = cookie \/ cookie' = "none",
         \A c \in Calls : \/ call'[c].at = call[c].at /\ call'[c].by = call[c].by
                             /\ call'[c].token = call[c].token
                          \/ call'[c] = IdleCall
  PROVE  SessionInv'
  <1>0. TypeOK
    BY DEF SessionInv, TypeInv
  <1>1. /\ access' = "none" /\ refreshing' = FALSE
        /\ \A r \in Requests :
             \/ r \in Pending /\ req'[r] = IF req[r].at = "changing" THEN Left ELSE Settled
             \/ r \notin Pending /\ req'[r] = req[r]
    BY <1>0, UnloadFacts
  <1>2. \A r \in Requests : /\ req'[r].at \notin {"sent", "waits", "changing", "served"}
                            /\ req'[r].result # "live" \/ req'[r].result = req[r].result
    BY <1>1, RecordFacts DEF Pending
  <1>3. \A r \in Requests : req'[r].at = "left" =>
          req'[r].kind = "change" /\ req[r].at \in {"changing", "left"} /\ req[r].kind = "change"
    BY <1>1, RecordFacts DEF SessionInv, HalfDone
  <1>4. \A c \in Calls : call[c].at = "idle" => call'[c].at = "idle"
    BY RecordFacts
  <1>5. NoLiveToken'
    BY <1>2, RecordFacts DEF SessionInv, NoLiveToken
  <1>6. PendingSignedIn' /\ WaitsForRefresh' /\ ChangeWaits' /\ HalfDone'
    BY <1>2, <1>3 DEF PendingSignedIn, WaitsForRefresh, ChangeWaits, HalfDone, Pending
  <1>7. ChangeAlone' /\ ResetAlone'
    BY <1>1, <1>2, <1>3, <1>4 DEF SessionInv, ChangeAlone, ResetAlone, Handled
  <1>8. EndedAtRest'
    BY <1>2, <1>3, RecordFacts DEF SessionInv, EndedAtRest
  <1> QED
    BY <1>5, <1>6, <1>7, <1>8 DEF SessionInv

LEMMA SessionCallStep ==
  ASSUME SessionInv, TypeInv', NEW c \in Calls, CallStep(c)
  PROVE  SessionInv'
  <1>0. TypeOK
    BY DEF SessionInv, TypeInv
  <1>r. call[c].at # "idle" /\ UNCHANGED <<resetting, perils>>
    BY DEF CallStep, CompareRefreshToken, IssueSessionTokens, RefreshThrows, Granted, Refused
  <1>5. ResetAlone'
    BY <1>r DEF SessionInv, ResetAlone
  <1>1. CASE CompareRefreshToken(c) \/ RefreshThrows(c)
    <2>1. PICK at \in {"issue", "refused"} : call' = [call EXCEPT ![c].at = at]
      BY <1>1 DEF CompareRefreshToken, RefreshThrows
    <2>2. UNCHANGED <<stored, ended, cookie, user, access, refreshing, req, resetting, perils>>
          /\ call[c].at # "idle" /\ (at = "issue" => call[c].token = "live")
      <3>1. CASE RefreshThrows(c)
        BY <1>0, <2>1, <3>1, CompareFacts DEF RefreshThrows, TypeOK, CallRecords
      <3>2. CASE CompareRefreshToken(c)
        BY <1>0, <2>1, <3>2, CompareFacts DEF CompareRefreshToken, Valid, TypeOK, CallRecords
      <3> QED
        BY <1>1, <3>1, <3>2
    <2>3. /\ call'[c].at = at /\ call'[c].by = call[c].by /\ call'[c].token = call[c].token
          /\ \A d \in Calls : d # c => call'[d] = call[d]
      BY <1>0, <2>1, CompareFacts
    <2>4. NoLiveToken'
      BY <2>2, <2>3 DEF SessionInv, NoLiveToken
    <2>5. PendingSignedIn' /\ WaitsForRefresh'
      BY <2>2 DEF SessionInv, PendingSignedIn, WaitsForRefresh, Pending
    <2>6. ChangeAlone' /\ ChangeWaits'
      BY <2>2, <2>3 DEF SessionInv, ChangeAlone, ChangeWaits
    <2>7. EndedAtRest' /\ HalfDone'
      BY <2>2, <2>3 DEF SessionInv, EndedAtRest, NoLiveToken, HalfDone
    <2> QED
      BY <1>5, <2>4, <2>5, <2>6, <2>7 DEF SessionInv
  <1>2. CASE IssueSessionTokens(c)
    <2>1. /\ UNCHANGED <<user, access, refreshing, resetting, perils>> /\ stored' = TRUE
          /\ ended' = (ended /\ call[c].by \notin {"form", "device"})
          /\ req' = RequestsRetired /\ call[c].at = "issue"
      BY <1>2 DEF IssueSessionTokens
    <2>2. /\ call'[c].at = "granted" /\ call'[c].by = call[c].by
          /\ \A d \in Calls : d # c => call'[d].at = call[d].at /\ call'[d].by = call[d].by
      BY <1>0, <1>2, IssueFacts, RetiredFacts
    <2>3. \A r \in Requests : req'[r].at = req[r].at /\ req'[r].kind = req[r].kind
                              /\ req'[r].token = req[r].token
      BY <1>0, <2>1, RetiredFacts
    <2>4. NoLiveToken'
      BY <2>1 DEF NoLiveToken
    <2>5. PendingSignedIn' /\ WaitsForRefresh'
      BY <2>1, <2>3 DEF SessionInv, PendingSignedIn, WaitsForRefresh, Pending
    <2>6. ChangeAlone' /\ ChangeWaits'
      BY <2>1, <2>2, <2>3 DEF SessionInv, ChangeAlone, ChangeWaits
    <2>7. EndedAtRest' /\ HalfDone'
      BY <2>1, <2>2, <2>3 DEF SessionInv, EndedAtRest, HalfDone
    <2> QED
      BY <1>5, <2>4, <2>5, <2>6, <2>7 DEF SessionInv
  <1>3. CASE Granted(c)
    <2>1. call'[c] = IdleCall /\ \A d \in Calls : d # c => call'[d] = call[d]
      BY <1>0, <1>3, IdledFacts DEF Granted, TypeOK
    <2>2. /\ UNCHANGED <<stored, ended, resetting, perils>> /\ call[c].at = "granted"
          /\ cookie' \in {cookie, call[c].token}
          /\ user' = (user \/ Hears(c, "form")) /\ access' \in {access, "fresh"}
          /\ Hears(c, "interceptor") => access' = "fresh"
      BY <1>3 DEF Granted
    <2>3. \A r \in Requests :
            /\ req'[r].kind = req[r].kind /\ req'[r].result = req[r].result
            /\ \/ req'[r] = req[r] /\ (Hears(c, "interceptor") => req[r].at # "waits")
               \/ req[r].at = "waits" /\ req'[r].at = "sent" /\ Hears(c, "interceptor")
      BY <1>0, <1>3, ResumedFacts DEF Granted
    <2>4. NoLiveToken'
      BY <2>1, <2>2, <2>3, RecordFacts DEF SessionInv, NoLiveToken
    <2>5. PendingSignedIn'
      BY <1>0, <2>2, <2>3 DEF SessionInv, PendingSignedIn, Pending, TypeOK
    <2>6. WaitsForRefresh'
      <3>1. CASE Hears(c, "interceptor")
        BY <2>3, <3>1 DEF WaitsForRefresh
      <3>2. CASE ~Hears(c, "interceptor")
        BY <1>3, <3>2 DEF Granted, SessionInv, WaitsForRefresh
      <3> QED
        BY <3>1, <3>2
    <2>7. ChangeAlone'
      <3> SUFFICES ASSUME "overlap" \notin perils, NEW r \in Requests, req'[r].kind # "read",
                          req'[r].at \in Handled, NEW d \in Calls
                   PROVE  call'[d].at = "idle"
        BY <2>2 DEF ChangeAlone
      <3>1. CASE req[r].at \in Handled
        BY <2>1, <2>2, <2>3, <3>1 DEF SessionInv, ChangeAlone
      <3>2. CASE req[r].at \notin Handled
        <4>1. req[r].at = "waits" /\ req[r].kind # "read"
          BY <2>3, <3>2
        <4>2. d # c => call[d].at = "idle"
          BY <2>2, <4>1 DEF SessionInv, ChangeWaits
        <4> QED
          BY <2>1, <4>2, RecordFacts
      <3> QED
        BY <3>1, <3>2
    <2>8. ChangeWaits'
      BY <2>1, <2>2, <2>3, RecordFacts DEF SessionInv, ChangeWaits
    <2>9. EndedAtRest' /\ HalfDone'
      BY <2>1, <2>2, <2>3, RecordFacts DEF SessionInv, EndedAtRest, HalfDone
    <2> QED
      BY <1>5, <2>4, <2>5, <2>6, <2>7, <2>8, <2>9 DEF SessionInv
  <1>4. CASE Refused(c)
    <2>1. UNCHANGED <<stored, ended, cookie, resetting, perils>>
      BY <1>4 DEF Refused
    <2>2. CASE Hears(c, "interceptor") \/ Restores(c)
      <3>1. Unload /\ call' = [Unheard EXCEPT ![c] = IdleCall]
        BY <1>4, <2>2 DEF Refused, ClearAuth
      <3>2. call'[c] = IdleCall /\ \A d \in Calls : d # c => call'[d] = Unheard[d]
        BY <1>0, <3>1, IdledFacts, UnheardFacts
      <3>3. \A d \in Calls : \/ call'[d].at = call[d].at /\ call'[d].by = call[d].by
                                /\ call'[d].token = call[d].token
                             \/ call'[d] = IdleCall
        BY <1>0, <3>2, UnheardFacts
      <3> QED
        BY <2>1, <3>1, <3>3, SessionUnload
    <2>3. CASE ~(Hears(c, "interceptor") \/ Restores(c))
      <3>1. UNCHANGED <<user, access, refreshing, req>> /\ call' = [call EXCEPT ![c] = IdleCall]
        BY <1>4, <2>3 DEF Refused
      <3>2. call'[c] = IdleCall /\ \A d \in Calls : d # c => call'[d] = call[d]
        BY <1>0, <3>1, IdledFacts DEF TypeOK
      <3>3. NoLiveToken'
        BY <2>1, <3>1, <3>2, RecordFacts DEF SessionInv, NoLiveToken
      <3>4. PendingSignedIn' /\ WaitsForRefresh'
        BY <3>1 DEF SessionInv, PendingSignedIn, WaitsForRefresh, Pending
      <3>5. ChangeAlone' /\ ChangeWaits'
        BY <2>1, <3>1, <3>2, RecordFacts DEF SessionInv, ChangeAlone, ChangeWaits
      <3>6. EndedAtRest' /\ HalfDone'
        BY <2>1, <3>1, <3>2, RecordFacts DEF SessionInv, EndedAtRest, HalfDone
      <3> QED
        BY <1>5, <3>3, <3>4, <3>5, <3>6 DEF SessionInv
    <2> QED
      BY <2>2, <2>3
  <1> QED
    BY <1>1, <1>2, <1>3, <1>4 DEF CallStep

(* One request moves and nothing else.                                     *)
LEMMA SessionOneRequest ==
  ASSUME SessionInv, TypeInv', NEW r \in Requests,
         UNCHANGED <<stored, user, refreshing, call, resetting, perils>>,
         ended' \in {ended, FALSE}, cookie' = cookie, access' = access,
         req'[r].result # "live" \/ req'[r].result = req[r].result,
         req[r].at \in Active,
         \/ req'[r] = Settled
         \/ req[r].at = "changing" /\ req'[r] = Left
         \/ /\ req'[r].kind = req[r].kind /\ req'[r].token = req[r].token /\ req[r].at = "sent"
            /\ \/ req'[r].at = "served"
               \/ req'[r].at = "changing" /\ req[r].kind = "change" /\ ended' = FALSE
               \/ req'[r].at = "waits" /\ req[r].token # "none" /\ refreshing,
         \A s \in Requests : s # r => req'[s] = req[s]
  PROVE  SessionInv'
  <1>1. NoLiveToken'
    BY DEF SessionInv, NoLiveToken
  <1>2. PendingSignedIn'
    BY RecordFacts DEF SessionInv, PendingSignedIn, Pending, Active, Handled
  <1>3. WaitsForRefresh'
    BY RecordFacts DEF SessionInv, WaitsForRefresh
  <1>4. ChangeAlone'
    BY RecordFacts DEF SessionInv, ChangeAlone, HalfDone, Handled
  <1>5. ChangeWaits'
    <2> SUFFICES ASSUME "overlap" \notin perils, NEW s \in Requests, req'[s].kind # "read",
                        req'[s].at = "waits"
                 PROVE  \A c, d \in Calls : call[c].at # "idle" /\ call[d].at # "idle" => c = d
      BY DEF ChangeWaits
    <2>1. CASE s # r
      BY <2>1 DEF SessionInv, ChangeWaits
    <2>2. CASE s = r
      BY <2>2, RecordFacts DEF SessionInv, ChangeAlone, Handled
    <2> QED
      BY <2>1, <2>2
  <1>6. HalfDone'
    BY RecordFacts DEF SessionInv, HalfDone
  <1>8. EndedAtRest'
    <2>1. CASE ~ended'
      BY <2>1 DEF EndedAtRest
    <2>2. CASE ended /\ req'[r].at # "changing"
      <3>1. req'[r].at = "left" => req[r].at = "changing"
        BY <2>2, RecordFacts
      <3> QED
        BY <2>2, <3>1 DEF SessionInv, EndedAtRest
    <2>3. req'[r].at = "changing" => ended' = FALSE
      BY RecordFacts
    <2>4. ended' => ended
      OBVIOUS
    <2> QED
      BY <2>1, <2>2, <2>3, <2>4
  <1>7. ResetAlone'
    BY RecordFacts DEF SessionInv, ResetAlone, HalfDone, Handled
  <1> QED
    BY <1>1, <1>2, <1>3, <1>4, <1>5, <1>6, <1>7, <1>8 DEF SessionInv

LEMMA SessionLeaves ==
  ASSUME SessionInv, TypeInv', Leaves, UNCHANGED <<stored, ended, resetting, perils>>,
         cookie' = cookie \/ cookie' = "none"
  PROVE  SessionInv'
  <1>1. Unload /\ call' = Unheard /\ TypeOK
    BY DEF Leaves, ClearAuth, SessionInv, TypeInv
  <1>2. \A c \in Calls : call'[c].at = call[c].at /\ call'[c].by = call[c].by
                         /\ call'[c].token = call[c].token
    BY <1>1, UnheardFacts
  <1> QED
    BY <1>1, <1>2, SessionUnload

LEMMA SessionServe ==
  ASSUME SessionInv, OneChange, TypeInv', NEW r \in Requests, Serve(r)
  PROVE  SessionInv'
  <1>0. TypeOK /\ req[r] \in RequestRecords
    BY DEF SessionInv, TypeInv, TypeOK
  <1>1. req[r].at = "sent" /\ UNCHANGED <<user, access, refreshing, resetting, perils>>
    BY DEF Serve
  <1>2. CASE req[r].kind # "logout"
    <2>1. /\ req' = [req EXCEPT ![r].at = IF req[r].kind = "read" THEN "served" ELSE "changing"]
          /\ UNCHANGED <<stored, cookie, call>> /\ ended' = (ended /\ req[r].kind = "read")
      BY <1>2 DEF Serve
    <2>2. /\ req'[r].at = (IF req[r].kind = "read" THEN "served" ELSE "changing")
          /\ req'[r].kind = req[r].kind /\ req'[r].token = req[r].token
          /\ req'[r].result = req[r].result
          /\ \A s \in Requests : s # r => req'[s] = req[s]
      <3>1. PICK at \in {"served", "changing"} :
              at = (IF req[r].kind = "read" THEN "served" ELSE "changing")
        OBVIOUS
      <3>2. req' = [req EXCEPT ![r].at = at]
        BY <2>1, <3>1, Zenon
      <3>3. /\ req'[r].at = at /\ req'[r].kind = req[r].kind /\ req'[r].token = req[r].token
            /\ req'[r].result = req[r].result
            /\ \A s \in Requests : s # r => req'[s] = req[s]
        BY <1>0, <3>2, ReadFacts
      <3> QED
        BY <3>1, <3>3
    <2>3. req[r].kind \in {"read", "change"} /\ req[r].at \in Active
      BY <1>0, <1>1, <1>2 DEF RequestRecords, RequestKinds, Active, Handled
    <2>4. ended' \in {ended, FALSE} /\ (req[r].kind = "change" => ended' = FALSE)
      BY <1>0, <2>1 DEF TypeOK
    <2> QED
      BY <1>1, <2>1, <2>2, <2>3, <2>4, SessionOneRequest
  <1>3. CASE req[r].kind = "logout"
    <2>1. stored' = FALSE /\ ended' = TRUE /\ call' = CallsRetired /\ cookie' = Dead(cookie)
      BY <1>3 DEF Serve
    <2>2. /\ req'[r].at = "served" /\ req'[r].kind = "logout" /\ req'[r].token = req[r].token
          /\ req'[r].result # "live"
          /\ \A s \in Requests : s # r => req'[s] = RequestsRetired[s]
      BY <1>0, <1>3, ServedFacts
    <2>3. /\ \A c \in Calls : /\ call'[c].at = call[c].at /\ call'[c].by = call[c].by
                              /\ call'[c].token # "live"
          /\ \A s \in Requests : s # r => /\ req'[s].at = req[s].at /\ req'[s].kind = req[s].kind
                                          /\ req'[s].token = req[s].token /\ req'[s].result # "live"
          /\ cookie' # "live"
      BY <1>0, <2>1, <2>2, RetiredFacts
    <2>4. NoLiveToken'
      BY <2>1, <2>2, <2>3 DEF NoLiveToken
    <2>5. PendingSignedIn' /\ WaitsForRefresh'
      BY <1>1, <2>2, <2>3 DEF SessionInv, PendingSignedIn, WaitsForRefresh, Pending
    <2>6. ChangeAlone' /\ ChangeWaits'
      BY <1>1, <1>3, <2>2, <2>3 DEF SessionInv, ChangeAlone, ChangeWaits, Handled
    <2>7. ResetAlone' /\ HalfDone'
      BY <1>1, <1>3, <2>2, <2>3 DEF SessionInv, ResetAlone, HalfDone, Handled
    <2>8. EndedAtRest'
      <3> SUFFICES ASSUME "overlap" \notin perils PROVE EndedAtRest'
        BY <1>1 DEF EndedAtRest
      <3>1. \A c \in Calls : call'[c].at = "idle"
        BY <1>1, <1>3, <2>3 DEF SessionInv, ChangeAlone, Handled
      <3>2. \A s \in Requests : s # r => req[s].at \notin {"changing", "left"}
        BY <1>1, <1>3 DEF OneChange, SessionInv, HalfDone, Active, Handled
      <3> QED
        BY <2>1, <2>2, <2>3, <3>1, <3>2 DEF EndedAtRest
    <2> QED
      BY <2>4, <2>5, <2>6, <2>7, <2>8 DEF SessionInv
  <1> QED
    BY <1>2, <1>3

(* The second half of a password change.                                   *)
LEMMA SessionIssues ==
  ASSUME SessionInv, TypeInv', NEW r \in Requests, ChangeIssues(r)
  PROVE  SessionInv'
  <1>0. TypeOK
    BY DEF SessionInv, TypeInv
  <1>1. /\ req[r].at \in {"changing", "left"} /\ stored' = TRUE /\ call' = CallsRetired
        /\ UNCHANGED <<ended, user, access, refreshing, resetting, perils>>
    BY DEF ChangeIssues
  <1>2. /\ \/ req[r].at = "left" /\ req'[r] = Settled
           \/ /\ req[r].at = "changing" /\ req'[r].at = "served" /\ req'[r].kind = req[r].kind
              /\ req'[r].token = req[r].token
        /\ \A s \in Requests : s # r => /\ req'[s].at = req[s].at /\ req'[s].kind = req[s].kind
                                        /\ req'[s].token = req[s].token
    BY <1>0, IssuesFacts, RetiredFacts
  <1>3. \A c \in Calls : call'[c].at = call[c].at /\ call'[c].by = call[c].by
    BY <1>0, <1>1, RetiredFacts
  <1>4. req[r].kind = "change" /\ req[r].at \in Handled
    BY <1>1 DEF SessionInv, HalfDone, Handled
  <1>5. NoLiveToken'
    BY <1>1 DEF NoLiveToken
  <1>6. PendingSignedIn' /\ WaitsForRefresh'
    BY <1>1, <1>2, RecordFacts DEF SessionInv, PendingSignedIn, WaitsForRefresh, Pending
  <1>7. ChangeAlone' /\ ChangeWaits'
    BY <1>1, <1>2, <1>3, <1>4, RecordFacts DEF SessionInv, ChangeAlone, ChangeWaits
  <1>8. ResetAlone' /\ HalfDone'
    BY <1>1, <1>2, <1>4, RecordFacts DEF SessionInv, ResetAlone, HalfDone
  <1>9. EndedAtRest'
    BY <1>1 DEF SessionInv, EndedAtRest
  <1> QED
    BY <1>5, <1>6, <1>7, <1>8, <1>9 DEF SessionInv

LEMMA SessionAnswered ==
  ASSUME SessionInv, TypeInv', NEW r \in Requests, Answered(r) \/ AnswerLost(r) \/ ChangeThrows(r)
  PROVE  SessionInv'
  <1>0. TypeOK /\ req[r] \in RequestRecords
    BY DEF SessionInv, TypeInv, TypeOK
  <1>1. UNCHANGED <<stored, ended, resetting, perils>> /\ req[r].at \in Active
    BY DEF Answered, AnswerLost, ChangeThrows, Active, Handled
  <1>2. CASE req[r].kind = "logout" /\ ~ChangeThrows(r)
    BY <1>0, <1>1, <1>2, SessionLeaves DEF Answered, AnswerLost
  <1>3. CASE req[r].kind # "logout" /\ Answered(r)
    <2>1. req' = Finished(r) /\ UNCHANGED <<user, refreshing, call>> /\ r \in Pending
          /\ cookie' \in {cookie, req[r].result} /\ access' \in {access, "fresh"}
      BY <1>0, <1>3 DEF Answered, RequestRecords, RequestKinds, Pending
    <2>2. /\ req'[r] = Settled
          /\ \A s \in Requests : s # r => req'[s] = req[s]
      BY <1>0, <2>1, FinishedFacts
    <2>3. NoLiveToken'
      BY <1>1, <2>1, <2>2, RecordFacts DEF SessionInv, NoLiveToken
    <2>4. PendingSignedIn'
      BY <1>0, <2>1, <2>2, RecordFacts DEF SessionInv, PendingSignedIn, Pending
    <2>5. WaitsForRefresh' /\ ChangeAlone' /\ ChangeWaits' /\ ResetAlone' /\ HalfDone'
      BY <1>1, <2>1, <2>2, RecordFacts
      DEF SessionInv, WaitsForRefresh, ChangeAlone, ChangeWaits, ResetAlone, HalfDone
    <2>6. EndedAtRest'
      BY <1>1, <2>1, <2>2, RecordFacts DEF SessionInv, EndedAtRest
    <2> QED
      BY <2>3, <2>4, <2>5, <2>6 DEF SessionInv
  <1>4. CASE ChangeThrows(r)
    <2>1. req' = Finished(r) /\ UNCHANGED <<cookie, user, access, refreshing, call>>
      BY <1>4 DEF ChangeThrows
    <2>2. /\ req'[r] = Settled
          /\ \A s \in Requests : s # r => req'[s] = req[s]
      BY <1>0, <2>1, FinishedFacts
    <2> QED
      BY <1>1, <2>1, <2>2, RecordFacts, SessionOneRequest
  <1>5. CASE req[r].kind # "logout" /\ AnswerLost(r)
    <2>1. req' = [req EXCEPT ![r] = Forsaken(r)] /\ UNCHANGED <<cookie, user, access, refreshing, call>>
      BY <1>5 DEF AnswerLost
    <2>2. /\ req'[r] = Settled \/ (req[r].at = "changing" /\ req'[r] = Left)
          /\ \A s \in Requests : s # r => req'[s] = req[s]
      BY <1>0, <2>1, ForsakenFacts
    <2> QED
      BY <1>1, <2>1, <2>2, RecordFacts, SessionOneRequest
  <1> QED
    BY <1>2, <1>3, <1>4, <1>5

LEMMA SessionUnauthorized ==
  ASSUME SessionInv, TypeInv', NEW r \in Requests, Unauthorized(r)
  PROVE  SessionInv'
  <1>0. TypeOK
    BY DEF SessionInv, TypeInv
  <1>1. UNCHANGED <<stored, ended, cookie, resetting, perils>> /\ r \in Pending /\ req[r].at = "sent"
        /\ req[r].at \in Active
    BY DEF Unauthorized, Pending, Active, Handled
  <1>2. CASE (req[r].retried \/ req[r].token = "none") /\ req[r].kind = "logout"
    BY <1>1, <1>2, SessionLeaves DEF Unauthorized
  <1>3. CASE (req[r].retried \/ req[r].token = "none") /\ req[r].kind # "logout"
    <2>1. req' = Finished(r) /\ UNCHANGED <<user, access, refreshing, call>>
      BY <1>3 DEF Unauthorized
    <2>2. req'[r] = Settled /\ req'[r].result # "live" /\ \A s \in Requests : s # r => req'[s] = req[s]
      BY <1>0, <2>1, FinishedFacts, RecordFacts
    <2> QED
      BY <1>1, <2>1, <2>2, SessionOneRequest
  <1>4. CASE ~(req[r].retried \/ req[r].token = "none") /\ Queues
    <2>1. req' = [req EXCEPT ![r].at = "waits"] /\ UNCHANGED <<user, access, refreshing, call>>
      BY <1>4 DEF Unauthorized
    <2>2. /\ req'[r].at = "waits" /\ req'[r].kind = req[r].kind /\ req'[r].token = req[r].token
          /\ req'[r].result = req[r].result
          /\ \A s \in Requests : s # r => req'[s] = req[s]
      BY <1>0, <2>1, ReadFacts
    <2> QED
      BY <1>1, <1>4, <2>1, <2>2, SessionOneRequest DEF Queues
  <1>5. CASE ~(req[r].retried \/ req[r].token = "none") /\ ~Queues
    <2>1. /\ "overlap" \in perils \/ (Changing \subseteq {r} /\ ~resetting)
          /\ req' = [req EXCEPT ![r] = [@ EXCEPT !.at = "waits", !.retried = TRUE]]
          /\ refreshing' = TRUE /\ UNCHANGED <<user, access>>
      BY <1>5 DEF Unauthorized
    <2>2. PICK c \in Calls : Calling(c, "interceptor")
      BY <1>5 DEF Unauthorized
    <2>3. /\ req'[r].at = "waits" /\ req'[r].kind = req[r].kind /\ req'[r].token = req[r].token
          /\ req'[r].result = req[r].result
          /\ \A s \in Requests : s # r => req'[s] = req[s]
      BY <1>0, <2>1, RetryFacts
    <2>4. /\ call[c].at = "idle" /\ call'[c].token = cookie /\ call'[c].at = "compare"
          /\ \A d \in Calls : d # c => call'[d] = call[d]
      BY <1>0, <2>2, CallingFacts
    <2>5. NoLiveToken'
      BY <1>1, <2>3, <2>4 DEF SessionInv, NoLiveToken
    <2>6. PendingSignedIn'
      BY <1>1, <2>1, <2>3 DEF SessionInv, PendingSignedIn, Pending
    <2>7. WaitsForRefresh'
      BY <1>5, <2>1, <2>3 DEF SessionInv, WaitsForRefresh
    <2>8. ChangeAlone'
      BY <1>1, <2>1, <2>3, <2>4 DEF ChangeAlone, Changing, Handled
    <2>9. ChangeWaits'
      <3> SUFFICES ASSUME "overlap" \notin perils, NEW s \in Requests, req'[s].kind # "read",
                          req'[s].at = "waits"
                   PROVE  \A d \in Calls : d # c => call'[d].at = "idle"
        BY <1>1 DEF ChangeWaits
      <3>1. s = r
        BY <1>5, <2>3 DEF SessionInv, WaitsForRefresh, Queues
      <3> QED
        BY <1>1, <2>3, <2>4, <3>1 DEF SessionInv, ChangeAlone, Handled
    <2>10. EndedAtRest' /\ HalfDone'
      BY <1>1, <2>3, <2>4 DEF SessionInv, EndedAtRest, HalfDone
    <2>11. ResetAlone'
      BY <1>1, <2>1 DEF ResetAlone
    <2> QED
      BY <2>11, <2>5, <2>6, <2>7, <2>8, <2>9, <2>10 DEF SessionInv
  <1> QED
    BY <1>2, <1>3, <1>4, <1>5

LEMMA SessionStep ==
  ASSUME SessionInv, OneChange, [Next]_vars
  PROVE  SessionInv'
  <1>0. TypeOK /\ TypeInv'
    BY TypeStep DEF SessionInv, TypeInv
  <1>1. ASSUME NEW c \in Calls, CallStep(c)
        PROVE  SessionInv'
    BY <1>0, <1>1, SessionCallStep
  <1>2. ASSUME NEW c \in Calls, RestoreSession(c)
        PROVE  SessionInv'
    <2>1. Calling(c, "bootstrap") /\ UNCHANGED <<stored, ended, cookie, user, access, refreshing, req, resetting, perils>>
      BY <1>2 DEF RestoreSession
    <2>2. "overlap" \notin perils =>
           /\ ~resetting
           /\ \A r \in Requests : req[r].kind # "read" => req[r].at \notin Handled
           /\ \A r \in Requests : req[r].at = "waits" => req[r].kind = "read"
      BY <1>2 DEF RestoreSession, MayRefresh, Changing, SessionInv, PendingSignedIn, WaitsForRefresh, Pending
    <2> QED
      BY <1>0, <2>1, <2>2, SessionCalling
  <1>3. ASSUME NEW c \in Calls, SignIn(c) \/ SignInElsewhere(c)
        PROVE  SessionInv'
    <2>1. MayChange /\ UNCHANGED <<stored, ended, cookie, user, access, refreshing, req, resetting, perils>>
      BY <1>3 DEF SignIn, SignInElsewhere
    <2>2. PICK by \in {"interceptor", "bootstrap", "form", "device"} : Calling(c, by)
      BY <1>3 DEF SignIn, SignInElsewhere
    <2> QED
      BY <1>0, <2>1, <2>2, MayChangeFacts, SessionCalling
  <1>4. ASSUME NEW r \in Requests, NEW kind \in RequestKinds, Send(r, kind)
        PROVE  SessionInv'
    <2>1. /\ user /\ (kind # "read" => MayChange)
          /\ UNCHANGED <<stored, ended, cookie, user, access, refreshing, call, resetting, perils>>
      BY <1>4 DEF Send
    <2>2. /\ req'[r].at = "sent" /\ req'[r].kind = kind /\ req'[r].token = access
          /\ req'[r].result = "none"
          /\ \A s \in Requests : s # r => req'[s] = req[s]
      BY <1>0, <1>4, SentFacts
    <2>3. NoLiveToken'
      BY <2>1, <2>2 DEF SessionInv, NoLiveToken
    <2>4. PendingSignedIn' /\ WaitsForRefresh'
      BY <2>1, <2>2 DEF SessionInv, PendingSignedIn, WaitsForRefresh, Pending
    <2>5. ChangeAlone' /\ ChangeWaits'
      BY <2>1, <2>2, MayChangeFacts DEF SessionInv, ChangeAlone, ChangeWaits
    <2>7. ResetAlone' /\ HalfDone'
      BY <2>1, <2>2, MayChangeFacts DEF SessionInv, ResetAlone, HalfDone
    <2>6. EndedAtRest'
      BY <2>1, <2>2 DEF SessionInv, EndedAtRest
    <2> QED
      BY <1>0, <2>7, <2>3, <2>4, <2>5, <2>6 DEF SessionInv
  <1>5. ASSUME NEW r \in Requests, RequestStep(r)
        PROVE  SessionInv'
    BY <1>0, <1>5, SessionServe, SessionIssues, SessionAnswered, SessionUnauthorized DEF RequestStep
  <1>6. CASE DeleteRefreshToken
    <2>1. /\ UNCHANGED <<user, access, refreshing, perils>> /\ stored' = FALSE
          /\ resetting /\ resetting' = FALSE
          /\ call' = CallsRetired /\ req' = RequestsRetired /\ cookie' = Dead(cookie)
      BY <1>6 DEF DeleteRefreshToken
    <2>2. /\ \A c \in Calls : call'[c].at = call[c].at /\ call'[c].token # "live"
          /\ \A r \in Requests : /\ req'[r].at = req[r].at /\ req'[r].kind = req[r].kind
                                 /\ req'[r].token = req[r].token /\ req'[r].result # "live"
          /\ cookie' # "live"
      BY <1>0, <2>1, RetiredFacts
    <2>3. NoLiveToken'
      BY <2>2 DEF NoLiveToken
    <2>4. PendingSignedIn' /\ WaitsForRefresh'
      BY <2>1, <2>2 DEF SessionInv, PendingSignedIn, WaitsForRefresh, Pending
    <2>5. ChangeAlone' /\ ChangeWaits' /\ ResetAlone' /\ HalfDone'
      BY <2>1, <2>2 DEF SessionInv, ChangeAlone, ChangeWaits, ResetAlone, HalfDone
    <2>6. EndedAtRest'
      BY <2>1, <2>2 DEF SessionInv, EndedAtRest, ResetAlone, HalfDone, Handled
    <2> QED
      BY <1>0, <2>3, <2>4, <2>5, <2>6 DEF SessionInv
  <1>11. CASE ResetPassword \/ ResetThrows
    <2>1. UNCHANGED <<stored, ended, cookie, user, access, refreshing, req, call, perils>>
      BY <1>11 DEF ResetPassword, ResetThrows
    <2>2. ResetAlone'
      BY <1>11, <2>1, MayChangeFacts DEF ResetPassword, ResetThrows, ResetAlone
    <2> QED
      BY <1>0, <2>1, <2>2 DEF SessionInv, NoLiveToken, PendingSignedIn, WaitsForRefresh, ChangeAlone,
         ChangeWaits, HalfDone, EndedAtRest, Pending
  <1>7. CASE Navigate
    <2>1. UNCHANGED <<stored, ended, cookie, user, access, refreshing, req, resetting, perils>>
      BY <1>7 DEF Navigate
    <2>2. \A c \in Calls : /\ call'[c].by = call[c].by /\ call'[c].at = call[c].at
                           /\ call'[c].token = call[c].token
      BY <1>0, <1>7 DEF Navigate, TypeOK, CallRecords
    <2> QED
      BY <1>0, <2>1, <2>2 DEF SessionInv, NoLiveToken, PendingSignedIn, WaitsForRefresh, ChangeAlone,
         ChangeWaits, ResetAlone, HalfDone, EndedAtRest, Pending
  <1>8. CASE Reload
    <2>1. Unload /\ UNCHANGED <<stored, ended, cookie, user, resetting, perils>> /\ call' = Unheard
      BY <1>8 DEF Reload
    <2>2. \A c \in Calls : call'[c].at = call[c].at /\ call'[c].by = call[c].by
                           /\ call'[c].token = call[c].token
      BY <1>0, <2>1, UnheardFacts
    <2> QED
      BY <1>0, <2>1, <2>2, SessionUnload
  <1>9. CASE AccessTokenExpires
    <2>1. UNCHANGED <<stored, ended, cookie, user, refreshing, call, resetting, perils>>
      BY <1>9 DEF AccessTokenExpires
    <2> QED
      BY <1>0, <1>9, <2>1, ExpiredFacts DEF SessionInv, NoLiveToken, PendingSignedIn, WaitsForRefresh,
         ChangeAlone, ChangeWaits, ResetAlone, HalfDone, EndedAtRest, Pending
  <1>10. CASE UNCHANGED vars
    BY <1>0, <1>10 DEF vars, SessionInv, NoLiveToken, PendingSignedIn, WaitsForRefresh, ChangeAlone,
       ChangeWaits, ResetAlone, HalfDone, EndedAtRest, Pending
  <1> QED
    BY <1>1, <1>2, <1>3, <1>4, <1>5, <1>6, <1>7, <1>8, <1>9, <1>10, <1>11 DEF Next, ResetStep

LEMMA SessionInit ==
  ASSUME Init
  PROVE  SessionInv
  BY TypeInit, RecordFacts DEF Init, SessionInv, NoLiveToken, PendingSignedIn, WaitsForRefresh,
     ChangeAlone, ChangeWaits, ResetAlone, HalfDone, EndedAtRest, Handled, Pending

LEMMA OneChangeStep ==
  ASSUME SessionInv, OneChange, [Next]_vars
  PROVE  OneChange'
  <1>0. TypeOK /\ HalfDone
    BY DEF SessionInv, TypeInv
  <1> DEFINE Keeps == /\ perils' = perils
                      /\ \A r \in Requests : \/ req'[r].kind = req[r].kind
                                                /\ (req'[r].at \in Active => req[r].at \in Active)
                                             \/ req'[r].at \notin Active
  <1>1. Keeps => OneChange'
    BY DEF OneChange
  <1> HIDE DEF Keeps
  <1>2. ASSUME Unload, perils' = perils
        PROVE  Keeps
    BY <1>0, <1>2, UnloadFacts, RecordFacts DEF Keeps, HalfDone, Active, Handled
  <1>3. ASSUME req' = req \/ req' = RequestsRetired, perils' = perils
        PROVE  Keeps
    BY <1>0, <1>3, RetiredFacts DEF Keeps
  <1>4. ASSUME NEW r \in Requests, req[r].at \in Active, perils' = perils,
               req'[r] = Settled \/ req'[r].kind = req[r].kind,
               \A s \in Requests : s # r =>
                 req'[s] = req[s] \/ (req'[s].at = req[s].at /\ req'[s].kind = req[s].kind)
        PROVE  Keeps
    BY <1>4, RecordFacts DEF Keeps, Active, Handled
  <1>5. ASSUME NEW c \in Calls, CallStep(c)
        PROVE  Keeps
    <2>1. CASE Granted(c)
      BY <1>0, <2>1, ResumedFacts DEF Granted, Keeps, Active, Handled
    <2>2. CASE Refused(c)
      BY <1>2, <1>3, <2>2 DEF Refused, ClearAuth
    <2>3. CASE CompareRefreshToken(c) \/ RefreshThrows(c) \/ IssueSessionTokens(c)
      BY <1>3, <2>3 DEF CompareRefreshToken, RefreshThrows, IssueSessionTokens
    <2> QED
      BY <1>5, <2>1, <2>2, <2>3 DEF CallStep
  <1>6. ASSUME NEW r \in Requests, RequestStep(r)
        PROVE  Keeps
    <2>1. perils' = perils /\ req[r].at \in Active
      BY <1>6 DEF RequestStep, Serve, ChangeIssues, ChangeThrows, Answered, AnswerLost, Unauthorized,
         Active, Handled
    <2>2. CASE Leaves
      BY <1>2, <2>1, <2>2 DEF Leaves, ClearAuth
    <2>3. CASE req' = Finished(r)
      BY <1>0, <1>4, <2>1, <2>3, FinishedFacts
    <2>4. CASE Serve(r) \/ ChangeIssues(r)
      <3>1. CASE Serve(r) /\ req[r].kind # "logout"
        <4>1. PICK at \in {"served", "changing"} : req' = [req EXCEPT ![r].at = at]
          BY <3>1 DEF Serve
        <4> QED
          BY <1>0, <1>4, <2>1, <4>1, ReadFacts
      <3>2. CASE (Serve(r) /\ req[r].kind = "logout") \/ ChangeIssues(r)
        <4>1. /\ req'[r] = Settled \/ req'[r].kind = req[r].kind
              /\ \A s \in Requests : s # r => req'[s] = RequestsRetired[s]
          BY <1>0, <3>2, ServedFacts, IssuesFacts
        <4>2. \A s \in Requests : s # r => req'[s].at = req[s].at /\ req'[s].kind = req[s].kind
          BY <1>0, <4>1, RetiredFacts
        <4> QED
          BY <1>4, <2>1, <4>1, <4>2
      <3> QED
        BY <2>4, <3>1, <3>2
    <2>11. CASE ChangeThrows(r)
      BY <2>3, <2>11 DEF ChangeThrows
    <2>5. CASE req' = [req EXCEPT ![r].at = "waits"]
      BY <1>0, <1>4, <2>1, <2>5, ReadFacts
    <2>6. CASE req' = [req EXCEPT ![r] = [@ EXCEPT !.at = "waits", !.retried = TRUE]]
      BY <1>0, <1>4, <2>1, <2>6, RetryFacts
    <2>7. req[r] \in RequestRecords
      BY <1>0 DEF TypeOK
    <2>8. CASE Answered(r)
      BY <2>2, <2>3, <2>7, <2>8 DEF Answered, RequestRecords, RequestKinds
    <2>9. CASE AnswerLost(r)
      <3>1. CASE req' = [req EXCEPT ![r] = Forsaken(r)]
        <4>1. /\ req'[r] = Settled \/ req'[r].kind = req[r].kind
              /\ \A s \in Requests : s # r => req'[s] = req[s]
          BY <1>0, <3>1, ForsakenFacts, RecordFacts DEF HalfDone
        <4> QED
          BY <1>4, <2>1, <4>1
      <3> QED
        BY <2>2, <2>9, <3>1 DEF AnswerLost
    <2>10. CASE Unauthorized(r)
      BY <2>2, <2>3, <2>5, <2>6, <2>10 DEF Unauthorized
    <2> QED
      BY <1>6, <2>4, <2>8, <2>9, <2>10, <2>11 DEF RequestStep
  <1>7. ASSUME NEW r \in Requests, NEW kind \in RequestKinds, Send(r, kind)
        PROVE  OneChange'
    <2>1. kind # "read" /\ "overlap" \notin perils =>
            \A s \in Requests : req[s].at \in Active => req[s].kind = "read"
      BY <1>7, MayChangeFacts DEF Send, Active
    <2>2. perils' = perils /\ req'[r].kind = kind /\ \A s \in Requests : s # r => req'[s] = req[s]
      BY <1>0, <1>7, SentFacts DEF Send
    <2> QED
      BY <2>1, <2>2 DEF OneChange
  <1>8. ASSUME NEW c \in Calls, RestoreSession(c) \/ SignIn(c) \/ SignInElsewhere(c)
        PROVE  Keeps
    BY <1>3, <1>8 DEF RestoreSession, SignIn, SignInElsewhere
  <1>9. ResetPassword \/ ResetStep \/ Navigate => Keeps
    BY <1>3 DEF ResetPassword, ResetStep, DeleteRefreshToken, ResetThrows, Navigate
  <1>10. Reload => Keeps
    BY <1>2 DEF Reload
  <1>11. AccessTokenExpires => Keeps
    BY <1>0, ExpiredFacts DEF AccessTokenExpires, Keeps
  <1>12. UNCHANGED vars => Keeps
    BY <1>3 DEF vars
  <1> QED
    BY <1>1, <1>5, <1>6, <1>7, <1>8, <1>9, <1>10, <1>11, <1>12 DEF Next

(* After a logout or a password reset that deleted the refresh token, and  *)
(* that no refresh and no password change overlaps, no refresh succeeds    *)
(* until somebody gives the password: every token is dead, and no call     *)
(* past its comparison is left, with lost answers, reloads, other devices  *)
(* and old cookies.                                                        *)
THEOREM EndStays == Spec => []EndedStaysEnded
  <1>1. Init => SessionInv /\ OneChange
    BY SessionInit, RecordFacts DEF Init, OneChange, Active, Handled
  <1>2. SessionInv /\ OneChange /\ [Next]_vars => SessionInv' /\ OneChange'
    BY SessionStep, OneChangeStep
  <1>3. SessionInv => EndedStaysEnded
    BY DEF SessionInv, EndedAtRest, EndedStaysEnded
  <1> QED
    BY <1>1, <1>2, <1>3, PTL DEF Spec

-----------------------------------------------------------------------------
(* A session in no peril.                                                  *)

(* One call at a time, of the page as it is, which waits for its answer.   *)
OneCall ==
  \A c, d \in Calls : call[c].at # "idle" /\ call[d].at # "idle" => c = d
CallsHeard ==
  \A c \in Calls : call[c].at # "idle" =>
    /\ call[c].heard
    /\ \/ call[c].by = "interceptor" /\ user /\ access # "none" /\ refreshing
       \/ call[c].by = "bootstrap" /\ user /\ access = "none"
       \/ call[c].by = "form" /\ ~user

(* Every refresh carries the live token, and the cookie is live whenever   *)
(* one may begin.                                                          *)
CallsLive ==
  \A c \in Calls : /\ call[c].at # "refused"
                   /\ call[c].at \in {"compare", "granted"} => call[c].token = "live"
ChangeLive ==
  \A r \in Requests : req[r].at = "served" /\ req[r].kind = "change" => req[r].result = "live"
CookieFree ==
  /\ user
  /\ \A c \in Calls : call[c].at = "idle"
  /\ \A r \in Requests : req[r].at = "served" => req[r].kind = "read"
CookieLive == CookieFree => cookie = "live"

(* No change goes on without its page, and no reset at all.                *)
NoneLeft == ~resetting /\ \A r \in Requests : req[r].at # "left"

Kept == OneCall /\ CallsHeard /\ CallsLive /\ ChangeLive /\ CookieLive /\ NoneLeft
KeptInv == SessionInv /\ OneChange /\ (perils = {} => Kept)

(* The user is not taken away but by a logout's answer.                    *)
KeepsUser == user /\ ~user' => \E r \in Pending : req[r].kind = "logout"

LEMMA KeptCalling ==
  ASSUME KeptInv, perils = {}, NEW c \in Calls,
         NEW by \in {"interceptor", "bootstrap", "form"}, Calling(c, by),
         UNCHANGED <<cookie, user, access, resetting>>,
         \A d \in Calls : call[d].at = "idle",
         \/ by = "interceptor" /\ user /\ access # "none" /\ refreshing' = TRUE
         \/ by = "bootstrap" /\ user /\ access = "none"
         \/ by = "form" /\ ~user,
         by # "form" => cookie = "live",
         \A r \in Requests : req'[r] = req[r] \/ req'[r].at = "waits"
  PROVE  Kept' /\ KeepsUser
  <1>0. TypeOK /\ Kept
    BY DEF KeptInv, SessionInv, TypeInv
  <1>1. /\ call'[c].by = by /\ call'[c].heard = (by # "device") /\ call'[c].token = cookie
        /\ call'[c].at = IF by \in {"form", "device"} THEN "issue" ELSE "compare"
        /\ \A d \in Calls : d # c => call'[d] = call[d]
    BY <1>0, CallingFacts
  <1>2. OneCall' /\ CallsHeard' /\ CallsLive'
    BY <1>1 DEF OneCall, CallsHeard, CallsLive
  <1>3. CookieLive' /\ KeepsUser
    BY <1>1 DEF CookieLive, CookieFree, KeepsUser
  <1>4. ChangeLive' /\ NoneLeft'
    BY <1>0 DEF Kept, ChangeLive, NoneLeft
  <1> QED
    BY <1>2, <1>3, <1>4 DEF Kept

LEMMA KeptCallStep ==
  ASSUME KeptInv, perils = {}, NEW c \in Calls, CallStep(c)
  PROVE  Kept' /\ KeepsUser
  <1>0. TypeOK /\ Kept /\ "overlap" \notin perils /\ "fault" \notin perils
    BY DEF KeptInv, SessionInv, TypeInv
  <1>5. NoneLeft'
    <2>1. resetting' = resetting /\ \A r \in Requests : req'[r].at = "left" => req[r].at = "left"
      <3>1. resetting' = resetting
        BY DEF CallStep, CompareRefreshToken, IssueSessionTokens, RefreshThrows, Granted, Refused
      <3>2. CASE CompareRefreshToken(c)
        BY <3>1, <3>2 DEF CompareRefreshToken
      <3>3. CASE IssueSessionTokens(c)
        BY <1>0, <3>1, <3>3, RetiredFacts DEF IssueSessionTokens
      <3>4. CASE RefreshThrows(c) \/ Refused(c)
        BY <1>0, <3>4 DEF RefreshThrows, Refused, Kept, CallsLive
      <3>5. CASE Granted(c)
        BY <1>0, <3>1, <3>5, ResumedFacts DEF Granted
      <3> QED
        BY <3>2, <3>3, <3>4, <3>5 DEF CallStep
    <2> QED
      BY <1>0, <2>1 DEF Kept, NoneLeft
  <1>1. CASE CompareRefreshToken(c)
    <2>1. call[c].at = "compare" /\ call[c].token = "live"
      BY <1>0, <1>1 DEF CompareRefreshToken, Kept, CallsLive
    <2>2. call' = [call EXCEPT ![c].at = "issue"]
          /\ UNCHANGED <<stored, ended, cookie, user, access, refreshing, req, resetting, perils>>
      BY <1>1, <2>1 DEF CompareRefreshToken, Valid
    <2>3. /\ call'[c].at = "issue" /\ call'[c].by = call[c].by /\ call'[c].heard = call[c].heard
          /\ call'[c].token = call[c].token
          /\ \A d \in Calls : d # c => call'[d] = call[d]
      BY <1>0, <2>2, CompareFacts
    <2>4. OneCall' /\ CallsHeard' /\ CallsLive'
      BY <1>0, <2>1, <2>2, <2>3 DEF Kept, OneCall, CallsHeard, CallsLive
    <2>5. ChangeLive' /\ CookieLive' /\ KeepsUser
      BY <1>0, <2>2, <2>3 DEF Kept, ChangeLive, CookieLive, CookieFree, KeepsUser
    <2> QED
      BY <1>5, <2>4, <2>5 DEF Kept
  <1>2. CASE IssueSessionTokens(c)
    <2>1. call[c].at = "issue" /\ UNCHANGED <<user, access, refreshing, resetting, perils>> /\ req' = RequestsRetired
      BY <1>2 DEF IssueSessionTokens
    <2>2. /\ call'[c].at = "granted" /\ call'[c].by = call[c].by /\ call'[c].heard = call[c].heard
          /\ call'[c].token = "live"
          /\ \A d \in Calls : d # c => call'[d].at = call[d].at
      BY <1>0, <1>2, IssueFacts, RetiredFacts
    <2>3. \A d \in Calls : d # c => call'[d].at = "idle"
      BY <1>0, <2>1, <2>2 DEF Kept, OneCall
    <2>4. OneCall' /\ CallsHeard' /\ CallsLive'
      BY <1>0, <2>1, <2>2, <2>3 DEF Kept, OneCall, CallsHeard, CallsLive
    <2>5. \A r \in Requests : req'[r].at = req[r].at /\ req'[r].kind = req[r].kind
      BY <1>0, <2>1, RetiredFacts
    <2>6. ChangeLive'
      BY <1>0, <2>1, <2>5 DEF ChangeLive, KeptInv, SessionInv, ChangeAlone, Handled
    <2>7. CookieLive' /\ KeepsUser
      BY <2>1, <2>2 DEF CookieLive, CookieFree, KeepsUser
    <2> QED
      BY <1>5, <2>4, <2>6, <2>7 DEF Kept
  <1>3. CASE RefreshThrows(c) \/ Refused(c)
    BY <1>0, <1>3 DEF RefreshThrows, Refused, Kept, CallsLive
  <1>4. CASE Granted(c)
    <2>1. call'[c] = IdleCall /\ \A d \in Calls : d # c => call'[d] = call[d]
      BY <1>0, <1>4, IdledFacts DEF Granted, TypeOK
    <2>2. call[c].at = "granted" /\ call[c].heard /\ call[c].by # "device" /\ call[c].token = "live"
      BY <1>0, <1>4 DEF Granted, Kept, CallsHeard, CallsLive
    <2>3. \A d \in Calls : call'[d].at = "idle"
      BY <1>0, <2>1, <2>2, RecordFacts DEF Kept, OneCall
    <2>4. cookie' = "live" /\ (user => user')
      BY <1>4, <2>2 DEF Granted
    <2>5. OneCall' /\ CallsHeard' /\ CallsLive' /\ CookieLive' /\ KeepsUser
      BY <2>3, <2>4 DEF OneCall, CallsHeard, CallsLive, CookieLive, KeepsUser
    <2>6. \A r \in Requests : req'[r] = req[r] \/ req'[r].at = "sent"
      BY <1>0, <1>4, ResumedFacts DEF Granted
    <2>7. ChangeLive'
      BY <1>0, <2>6 DEF Kept, ChangeLive
    <2> QED
      BY <1>5, <2>5, <2>7 DEF Kept
  <1> QED
    BY <1>1, <1>2, <1>3, <1>4 DEF CallStep

(* With no call in flight only the requests and the cookie matter.         *)
LEMMA KeptAtRest ==
  ASSUME \A c \in Calls : call'[c].at = "idle", ChangeLive', CookieLive', NoneLeft'
  PROVE  Kept'
  BY DEF Kept, OneCall, CallsHeard, CallsLive

LEMMA KeptLeaves ==
  ASSUME TypeOK, \A c \in Calls : call[c].at = "idle", Leaves, UNCHANGED resetting,
         NoneLeft, \A r \in Requests : req[r].at # "changing"
  PROVE  Kept'
  <1>1. Unload /\ ~user' /\ call' = Unheard
    BY DEF Leaves, ClearAuth
  <1>2. \A c \in Calls : call'[c].at = "idle"
    BY <1>1, UnheardFacts
  <1>3. \A r \in Requests : req'[r].at # "served" /\ req'[r].at # "left"
    BY <1>1, UnloadFacts, RecordFacts DEF Pending, NoneLeft
  <1> QED
    BY <1>1, <1>2, <1>3, KeptAtRest DEF ChangeLive, CookieLive, CookieFree, NoneLeft

LEMMA KeptRequestStep ==
  ASSUME KeptInv, perils = {}, NEW r \in Requests, RequestStep(r)
  PROVE  Kept' /\ KeepsUser
  <1>0. TypeOK /\ Kept /\ "overlap" \notin perils /\ "fault" \notin perils /\ req[r] \in RequestRecords
    BY DEF KeptInv, SessionInv, TypeInv, TypeOK
  <1>5. resetting' = resetting
    BY DEF RequestStep, Serve, ChangeIssues, ChangeThrows, Answered, AnswerLost, Unauthorized
  <1>6. req[r].kind = "logout" /\ req[r].at \in Active => \A s \in Requests : req[s].at # "changing"
    BY <1>0 DEF KeptInv, SessionInv, OneChange, HalfDone, Active, Handled
  <1>1. CASE Serve(r)
    <2>1. req[r].at = "sent" /\ UNCHANGED <<user, access, refreshing, perils>>
      BY <1>1 DEF Serve
    <2>2. CASE req[r].kind # "logout"
      <3>1. PICK at \in {"served", "changing"} :
              req' = [req EXCEPT ![r].at = at] /\ (at = "served" => req[r].kind = "read")
        BY <1>1, <2>2 DEF Serve
      <3>4. req' = [req EXCEPT ![r].at = at]
        BY <3>1
      <3>2. /\ req'[r].at = at /\ req'[r].kind = req[r].kind
            /\ \A s \in Requests : s # r => req'[s] = req[s]
        BY <1>0, <3>4, ReadFacts
      <3>3. UNCHANGED <<cookie, call>>
        BY <1>1, <2>2 DEF Serve
      <3>5. OneCall' /\ CallsHeard' /\ CallsLive' /\ KeepsUser
        BY <1>0, <2>1, <3>3 DEF Kept, OneCall, CallsHeard, CallsLive, KeepsUser
      <3>6. ChangeLive' /\ NoneLeft'
        BY <1>0, <1>5, <3>1, <3>2 DEF Kept, ChangeLive, NoneLeft
      <3>7. CookieLive'
        BY <1>0, <2>1, <3>2, <3>3 DEF Kept, CookieLive, CookieFree
      <3> QED
        BY <3>5, <3>6, <3>7 DEF Kept
    <2>3. CASE req[r].kind = "logout"
      <3>1. /\ req'[r].at = "served" /\ req'[r].kind = req[r].kind
            /\ \A s \in Requests : s # r => req'[s] = RequestsRetired[s]
        BY <1>0, <1>1, <2>3, ServedFacts
      <3>2. \A s \in Requests : s # r => req'[s].at = req[s].at /\ req'[s].kind = req[s].kind
        BY <1>0, <3>1, RetiredFacts
      <3>3. \A c \in Calls : call'[c].at = "idle"
        BY <1>0, <1>1, <2>1, <2>3, RetiredFacts DEF Serve, KeptInv, SessionInv, ChangeAlone, Handled
      <3>4. \A s \in Requests : s # r => ~(req[s].at = "served" /\ req[s].kind # "read")
        BY <1>0, <2>1, <2>3 DEF KeptInv, OneChange, Active, Handled
      <3>5. ChangeLive' /\ NoneLeft'
        BY <1>0, <1>5, <2>3, <3>1, <3>2, <3>4 DEF Kept, ChangeLive, NoneLeft
      <3>6. CookieLive' /\ KeepsUser
        BY <2>1, <2>3, <3>1 DEF CookieLive, CookieFree, KeepsUser
      <3> QED
        BY <3>3, <3>5, <3>6, KeptAtRest
    <2> QED
      BY <2>2, <2>3
  <1>7. CASE ChangeIssues(r)
    <2>1. req[r].at = "changing" /\ req[r].kind = "change" /\ UNCHANGED <<user, access, refreshing, perils>>
      BY <1>0, <1>7 DEF ChangeIssues, Kept, NoneLeft, KeptInv, SessionInv, HalfDone
    <2>2. /\ req'[r].at = "served" /\ req'[r].kind = "change" /\ req'[r].result = "live"
          /\ \A s \in Requests : s # r => req'[s] = RequestsRetired[s]
      BY <1>0, <1>7, <2>1, IssuesFacts
    <2>3. \A s \in Requests : s # r => req'[s].at = req[s].at /\ req'[s].kind = req[s].kind
      BY <1>0, <2>2, RetiredFacts
    <2>4. \A c \in Calls : call'[c].at = "idle"
      BY <1>0, <1>7, <2>1, RetiredFacts DEF ChangeIssues, KeptInv, SessionInv, ChangeAlone, Handled
    <2>5. \A s \in Requests : s # r => ~(req[s].at = "served" /\ req[s].kind # "read")
      BY <1>0, <2>1 DEF KeptInv, OneChange, Active, Handled
    <2>6. ChangeLive' /\ NoneLeft' /\ CookieLive'
      BY <1>0, <1>5, <2>2, <2>3, <2>5 DEF Kept, ChangeLive, NoneLeft, CookieLive, CookieFree
    <2> QED
      BY <2>1, <2>4, <2>6, KeptAtRest DEF KeepsUser
  <1>2. CASE Answered(r)
    <2>1. req[r].at = "served" /\ r \in Pending
      BY <1>2 DEF Answered, Pending
    <2>2. CASE req[r].kind = "read"
      <3>1. req' = Finished(r) /\ UNCHANGED <<cookie, user, access, refreshing, call>>
        BY <1>2, <2>2 DEF Answered
      <3>2. req'[r] = Settled /\ \A s \in Requests : s # r => req'[s] = req[s]
        BY <1>0, <3>1, FinishedFacts
      <3> QED
        BY <1>0, <1>5, <2>2, <3>1, <3>2, RecordFacts
        DEF Kept, OneCall, CallsHeard, CallsLive, ChangeLive, CookieLive, CookieFree, NoneLeft, KeepsUser
    <2>3. CASE req[r].kind = "change"
      <3>1. cookie' = req[r].result /\ req' = Finished(r) /\ UNCHANGED <<user, refreshing, call>>
        BY <1>2, <2>3 DEF Answered
      <3>2. req'[r] = Settled /\ \A s \in Requests : s # r => req'[s] = req[s]
        BY <1>0, <3>1, FinishedFacts
      <3>3. cookie' = "live" /\ ChangeLive' /\ NoneLeft'
        BY <1>0, <1>5, <2>1, <2>3, <3>1, <3>2, RecordFacts DEF Kept, ChangeLive, NoneLeft
      <3>4. \A c \in Calls : call'[c].at = "idle"
        BY <1>0, <2>1, <2>3, <3>1 DEF KeptInv, SessionInv, ChangeAlone, Handled
      <3> QED
        BY <3>1, <3>3, <3>4, KeptAtRest DEF CookieLive, KeepsUser
    <2>4. CASE req[r].kind = "logout"
      <3>1. \A c \in Calls : call[c].at = "idle"
        BY <1>0, <2>1, <2>4 DEF KeptInv, SessionInv, ChangeAlone, Handled
      <3> QED
        BY <1>0, <1>2, <1>5, <1>6, <2>1, <2>4, <3>1, KeptLeaves DEF Answered, KeepsUser, Kept, Active, Handled
    <2> QED
      BY <1>0, <2>2, <2>3, <2>4 DEF RequestRecords, RequestKinds
  <1>3. CASE AnswerLost(r) \/ ChangeThrows(r)
    BY <1>0, <1>3 DEF AnswerLost, ChangeThrows
  <1>4. CASE Unauthorized(r)
    <2>1. req[r].at = "sent" /\ r \in Pending /\ UNCHANGED <<cookie, resetting, perils>>
      BY <1>4 DEF Unauthorized, Pending
    <2>2. CASE (req[r].retried \/ req[r].token = "none") /\ req[r].kind = "logout"
      <3>1. \A c \in Calls : call[c].at = "idle"
        BY <1>0, <2>1, <2>2 DEF KeptInv, SessionInv, ChangeAlone, Handled
      <3> QED
        BY <1>0, <1>4, <1>5, <1>6, <2>1, <2>2, <3>1, KeptLeaves
        DEF Unauthorized, KeepsUser, Kept, Active, Handled
    <2>3. CASE (req[r].retried \/ req[r].token = "none") /\ req[r].kind # "logout"
      <3>1. req' = Finished(r) /\ UNCHANGED <<user, access, refreshing, call>>
        BY <1>4, <2>3 DEF Unauthorized
      <3>2. req'[r] = Settled /\ \A s \in Requests : s # r => req'[s] = req[s]
        BY <1>0, <3>1, FinishedFacts
      <3> QED
        BY <1>0, <1>5, <2>1, <3>1, <3>2, RecordFacts
        DEF Kept, OneCall, CallsHeard, CallsLive, ChangeLive, CookieLive, CookieFree, NoneLeft, KeepsUser
    <2>4. CASE ~(req[r].retried \/ req[r].token = "none") /\ Queues
      <3>1. req' = [req EXCEPT ![r].at = "waits"] /\ UNCHANGED <<user, access, refreshing, call>>
        BY <1>4, <2>4 DEF Unauthorized
      <3>2. req'[r].at = "waits" /\ \A s \in Requests : s # r => req'[s] = req[s]
        BY <1>0, <3>1, ReadFacts
      <3> QED
        BY <1>0, <1>5, <2>1, <3>1, <3>2
        DEF Kept, OneCall, CallsHeard, CallsLive, ChangeLive, CookieLive, CookieFree, NoneLeft, KeepsUser
    <2>5. CASE ~(req[r].retried \/ req[r].token = "none") /\ ~Queues
      <3>1. /\ Changing \subseteq {r} /\ refreshing' = TRUE /\ UNCHANGED <<user, access>>
            /\ req' = [req EXCEPT ![r] = [@ EXCEPT !.at = "waits", !.retried = TRUE]]
        BY <1>0, <1>4, <2>5 DEF Unauthorized
      <3>2. PICK c \in Calls : Calling(c, "interceptor")
        BY <1>4, <2>5 DEF Unauthorized
      <3>3. req'[r].at = "waits" /\ \A s \in Requests : s # r => req'[s] = req[s]
        BY <1>0, <3>1, RetryFacts
      <3>4. user /\ access # "none" /\ ~refreshing
        BY <2>1, <2>5 DEF KeptInv, SessionInv, PendingSignedIn, Queues
      <3>5. \A d \in Calls : call[d].at = "idle"
        BY <1>0, <3>4 DEF Kept, CallsHeard
      <3>6. cookie = "live"
        BY <1>0, <2>1, <3>1, <3>4, <3>5 DEF Kept, CookieLive, CookieFree, Changing, Handled
      <3> QED
        BY <1>5, <2>1, <3>1, <3>2, <3>3, <3>4, <3>5, <3>6, KeptCalling
    <2> QED
      BY <2>2, <2>3, <2>4, <2>5
  <1> QED
    BY <1>1, <1>2, <1>3, <1>4, <1>7 DEF RequestStep

LEMMA KeptStep ==
  ASSUME KeptInv, perils = {}, [Next]_vars
  PROVE  Kept' /\ KeepsUser
  <1>0. TypeOK /\ Kept /\ SessionInv /\ "overlap" \notin perils
    BY DEF KeptInv, SessionInv, TypeInv
  <1>1. ASSUME NEW c \in Calls, RestoreSession(c)
        PROVE  Kept' /\ KeepsUser
    <2>1. /\ user /\ access = "none" /\ Bootstrapping = {} /\ Changing = {} /\ Calling(c, "bootstrap")
          /\ UNCHANGED <<cookie, user, access, req, resetting>>
      BY <1>0, <1>1 DEF RestoreSession, MayRefresh
    <2>2. \A d \in Calls : call[d].at = "idle"
      BY <1>0, <2>1 DEF Kept, CallsHeard, Bootstrapping, Hears
    <2>3. cookie = "live"
      BY <1>0, <2>1, <2>2 DEF Kept, CookieLive, CookieFree, Changing, Handled
    <2> QED
      BY <2>1, <2>2, <2>3, KeptCalling
  <1>2. ASSUME NEW c \in Calls, SignIn(c)
        PROVE  Kept' /\ KeepsUser
    <2>1. ~user /\ MayChange /\ Calling(c, "form") /\ UNCHANGED <<cookie, user, access, req, resetting>>
      BY <1>2 DEF SignIn
    <2> QED
      BY <1>0, <2>1, MayChangeFacts, KeptCalling
  <1>3. ASSUME NEW c \in Calls, SignInElsewhere(c)
        PROVE  FALSE
    BY <1>3 DEF SignInElsewhere
  <1>4. ASSUME NEW r \in Requests, NEW kind \in RequestKinds, Send(r, kind)
        PROVE  Kept' /\ KeepsUser
    <2>1. req'[r].at = "sent" /\ (\A s \in Requests : s # r => req'[s] = req[s])
          /\ req[r].at = "idle" /\ UNCHANGED <<cookie, user, access, refreshing, call, resetting>>
      BY <1>0, <1>4, SentFacts DEF Send
    <2> QED
      BY <1>0, <2>1
      DEF Kept, OneCall, CallsHeard, CallsLive, ChangeLive, CookieLive, CookieFree, NoneLeft, KeepsUser
  <1>5. ~ResetPassword /\ ~ResetStep /\ ~Navigate
    BY <1>0 DEF ResetPassword, ResetStep, DeleteRefreshToken, ResetThrows, Navigate, Kept, NoneLeft
  <1>6. CASE Reload
    <2>1. InFlight = {} /\ Pending = {} /\ Unload /\ call' = Unheard /\ UNCHANGED <<cookie, user, resetting>>
      BY <1>6 DEF Reload, Quiet
    <2>2. \A r \in Requests : req'[r] = req[r]
      BY <1>0, <2>1, UnloadFacts
    <2>3. \A c \in Calls : call[c].at = "idle" /\ call'[c].at = "idle"
      BY <1>0, <2>1, UnheardFacts DEF InFlight
    <2>4. ChangeLive' /\ CookieLive' /\ NoneLeft'
      BY <1>0, <2>1, <2>2, <2>3 DEF Kept, ChangeLive, CookieLive, CookieFree, NoneLeft
    <2> QED
      BY <2>1, <2>3, <2>4, KeptAtRest DEF KeepsUser
  <1>7. CASE AccessTokenExpires
    <2>1. UNCHANGED <<stored, ended, cookie, user, refreshing, call, resetting, perils>>
      BY <1>7 DEF AccessTokenExpires
    <2> QED
      BY <1>0, <1>7, <2>1, ExpiredFacts
      DEF Kept, OneCall, CallsHeard, CallsLive, ChangeLive, CookieLive, CookieFree, NoneLeft, KeepsUser
  <1>8. CASE UNCHANGED vars
    BY <1>0, <1>8
    DEF vars, Kept, OneCall, CallsHeard, CallsLive, ChangeLive, CookieLive, CookieFree, NoneLeft,
        KeepsUser
  <1> QED
    BY <1>1, <1>2, <1>3, <1>4, <1>5, <1>6, <1>7, <1>8, KeptCallStep, KeptRequestStep DEF Next

(* A session in no peril is kept: access tokens may expire between any two *)
(* steps and requests, retries and refreshes follow each other, with the   *)
(* page reloaded while nothing is in flight; nobody is sent to the login   *)
(* page who did not log out.  Other devices, page changes and reloads      *)
(* during a call, resets, failures and a refresh that overlaps a change    *)
(* are perils, about which it says nothing.                                *)
THEOREM SessionsAreKept == Spec => SessionKept
  <1>1. ASSUME [Next]_vars
        PROVE  perils' = perils
    BY <1>1 DEF Next, vars, CallStep, CompareRefreshToken, IssueSessionTokens, RefreshThrows, Granted,
       Refused, RestoreSession, SignIn, SignInElsewhere, RequestStep, Serve, ChangeIssues, ChangeThrows,
       Answered, AnswerLost, Unauthorized, Send, ResetPassword, ResetStep, DeleteRefreshToken, ResetThrows, Navigate, Reload, AccessTokenExpires
  <1>2. Init => KeptInv
    <2> SUFFICES ASSUME Init PROVE KeptInv
      OBVIOUS
    <2>1. SessionInv
      BY SessionInit
    <2> QED
      BY <2>1, RecordFacts DEF Init, KeptInv, OneChange, Active, Handled, Kept, OneCall, CallsHeard,
         CallsLive, ChangeLive, CookieLive, CookieFree, NoneLeft
  <1>3. KeptInv /\ [Next]_vars => KeptInv'
    BY <1>1, SessionStep, OneChangeStep, KeptStep DEF KeptInv
  <1>4. KeptInv /\ [Next]_vars
        => [perils = {} /\ user /\ ~user' => \E r \in Pending : req[r].kind = "logout"]_vars
    BY KeptStep DEF KeepsUser
  <1> QED
    BY <1>2, <1>3, <1>4, PTL DEF Spec, SessionKept

=============================================================================
