------------------------- MODULE TenantDomains_proofs -------------------------
(***************************************************************************)
(* Theorems about TenantDomains, for any tenants, custom domains, handlers *)
(* in flight and number of changes.                                        *)
(***************************************************************************)
EXTENDS TenantDomains, TLAPS

-----------------------------------------------------------------------------
(* Types.                                                                  *)

(* What a handler in flight is about.                                      *)
CallSensible ==
  \A c \in Calls :
    /\ call[c].kind = "none" <=> call[c].at = "idle"
    /\ call[c].kind # "none" => call[c].tenant \in Tenants
    /\ call[c].at = "check" => call[c].kind \in {"create", "settings", "admin"}
    /\ call[c].at = "reset" => call[c].kind = "admin" /\ Renames(c)
    /\ call[c].at = "write" => call[c].kind \in {"create", "settings", "admin", "verify"}
    /\ call[c].at = "dns" => call[c].kind = "verify"
    /\ call[c].at = "forget" => call[c].kind \in {"settings", "admin", "verify"}
    /\ call[c].kind = "verify" => call[c].read.domain # NoDomain
    /\ call[c].at = "cache" => call[c].host \in Hosts
    /\ call[c].kind = "resolve" <=> call[c].at = "cache"

TypeInv == TypeOK /\ CallSensible

LEMMA RecordFacts ==
  /\ NoRow \in Rows /\ NoEntry \in Entries /\ IdleCall \in CallRecords
  /\ NoRow.exists = FALSE /\ NoRow.domain = NoDomain /\ NoRow.verified = FALSE
  /\ NoEntry.tenant = Nobody /\ NoEntry.row = NoRow
  /\ IdleCall.kind = "none" /\ IdleCall.at = "idle" /\ IdleCall.tenant = Nobody
  /\ IdleCall.read = NoRow /\ IdleCall.want = NoDomain
  BY DEF NoRow, Rows, NoEntry, Entries, IdleCall, CallRecords

LEMMA CallFacts ==
  ASSUME TypeOK, NEW c \in Calls
  PROVE  /\ call[c] \in CallRecords /\ call[c].read \in Rows
         /\ call[c].tenant \in Tenants \cup {Nobody} /\ call[c].want \in Domains \cup {NoDomain}
         /\ call[c].read.domain \in Domains \cup {NoDomain}
         /\ call[c].read.verified \in BOOLEAN /\ call[c].on \in BOOLEAN
  BY DEF TypeOK, CallRecords, Rows

LEMMA RowFacts ==
  ASSUME TypeOK, NEW t \in Tenants
  PROVE  /\ row[t] \in Rows /\ row[t].exists \in BOOLEAN /\ row[t].verified \in BOOLEAN
         /\ row[t].active \in BOOLEAN /\ row[t].domain \in Domains \cup {NoDomain}
  BY DEF TypeOK, Rows

(* A handler begins, goes on and ends.                                     *)
LEMMA BeginsFacts ==
  ASSUME TypeInv, NEW c \in Calls, NEW kind \in {"create", "settings", "admin", "verify"},
         NEW t \in Tenants, NEW want \in Domains \cup {NoDomain}, NEW on \in BOOLEAN,
         NEW at \in {"check", "dns"}, Begins(c, kind, t, want, on, at)
  PROVE  /\ call' \in [Calls -> CallRecords] /\ edits' \in 0 .. MaxEdits
         /\ UNCHANGED <<row, cache, proven, unmarked, stale>> /\ call[c] = IdleCall
         /\ overlapped' \subseteq Tenants /\ raced' \subseteq Resolving
         /\ \A u \in Tenants : u # t => (u \in overlapped' <=> u \in overlapped)
         /\ t \notin overlapped' => t \notin overlapped
              /\ \A e \in EditingOf(t) : kind # "verify" /\ call[e].kind # "verify"
         /\ \A e \in Resolving : e \in raced' <=> e \in raced \/ call[e].tenant = t
         /\ call'[c].kind = kind /\ call'[c].tenant = t /\ call'[c].read = row[t]
         /\ call'[c].want = want /\ call'[c].at = at
         /\ \A d \in Calls : d # c => call'[d] = call[d]
  <1> DEFINE k == [kind |-> kind, tenant |-> t, read |-> row[t], want |-> want, on |-> on,
                   host |-> NoDomain, at |-> at]
  <1>1. k \in CallRecords
    BY RowFacts DEF CallRecords, TypeInv
  <1>2. call' = [call EXCEPT ![c] = k] /\ call[c] = IdleCall /\ edits < MaxEdits
        /\ edits' = edits + 1 /\ UNCHANGED <<row, cache, proven, unmarked, stale>>
    BY DEF Begins
  <1>3. edits' \in 0 .. MaxEdits
    BY <1>2, DomainAssumption DEF TypeInv, TypeOK
  <1>4. overlapped' = overlapped \cup
                       {u \in {t} : \E e \in EditingOf(u) : "verify" \in {kind, call[e].kind}}
        /\ raced' = raced \cup {e \in Resolving : call[e].tenant = t}
    BY DEF Begins
  <1>5. raced' \subseteq Resolving
        /\ \A e \in Resolving : e \in raced' <=> e \in raced \/ call[e].tenant = t
    BY <1>4 DEF TypeInv, TypeOK
  <1>6. /\ overlapped' \subseteq Tenants
        /\ \A u \in Tenants : u # t => (u \in overlapped' <=> u \in overlapped)
        /\ t \notin overlapped' => t \notin overlapped
             /\ \A e \in EditingOf(t) : kind # "verify" /\ call[e].kind # "verify"
    BY <1>4 DEF TypeInv, TypeOK
  <1>7. call' \in [Calls -> CallRecords] /\ call'[c] = k /\ \A d \in Calls : d # c => call'[d] = call[d]
    BY <1>1, <1>2 DEF TypeInv, TypeOK
  <1> QED
    BY <1>2, <1>3, <1>5, <1>6, <1>7

LEMMA GoesFacts ==
  ASSUME TypeOK, NEW c \in Calls, NEW at \in {"reset", "write", "forget"}, Goes(c, at)
  PROVE  /\ call' \in [Calls -> CallRecords]
         /\ call'[c].at = at /\ call'[c].kind = call[c].kind /\ call'[c].tenant = call[c].tenant
         /\ call'[c].read = call[c].read /\ call'[c].want = call[c].want
         /\ call'[c].host = call[c].host /\ call'[c].on = call[c].on
         /\ \A d \in Calls : d # c => call'[d] = call[d]
  BY DEF TypeOK, Goes, CallRecords

LEMMA EndsFacts ==
  ASSUME TypeOK, NEW c \in Calls, Ends(c)
  PROVE  /\ call' \in [Calls -> CallRecords] /\ call'[c] = IdleCall
         /\ \A d \in Calls : d # c => call'[d] = call[d]
  BY RecordFacts DEF TypeOK, Ends

LEMMA MarkFacts ==
  ASSUME TypeInv, NEW c \in Calls, MarkVerified(c)
  PROVE  /\ call[c].at = "write" /\ call[c].kind = "verify" /\ call[c].tenant \in Tenants
         /\ call' \in [Calls -> CallRecords]
         /\ call'[c].at = "forget" /\ call'[c].kind = call[c].kind
         /\ call'[c].tenant = call[c].tenant /\ call'[c].read = call[c].read
         /\ call'[c].want = row[call[c].tenant].domain /\ call'[c].host = call[c].host
         /\ \A d \in Calls : d # c => call'[d] = call[d]
         /\ row' \in [Tenants -> Rows]
         /\ row'[call[c].tenant].verified = TRUE
         /\ row'[call[c].tenant].domain = row[call[c].tenant].domain
         /\ row'[call[c].tenant].exists = row[call[c].tenant].exists
         /\ \A t \in Tenants : t # call[c].tenant => row'[t] = row[t]
         /\ UNCHANGED <<cache, proven, edits, overlapped, raced, stale>>
         /\ unmarked' = unmarked \ {call[c].tenant}
  <1>1. call[c].at = "write" /\ call[c].kind = "verify" /\ call[c].tenant \in Tenants
    BY DEF MarkVerified, TypeInv, CallSensible
  <1>2. row[call[c].tenant].domain \in Domains \cup {NoDomain}
    BY <1>1, RowFacts DEF TypeInv
  <1>3. row' = [row EXCEPT ![call[c].tenant].verified = TRUE]
        /\ call' = [call EXCEPT ![c].at = "forget", ![c].want = row[call[c].tenant].domain]
        /\ UNCHANGED <<cache, proven, edits, overlapped, raced, stale>>
        /\ unmarked' = unmarked \ {call[c].tenant}
    BY DEF MarkVerified
  <1>4. /\ row' \in [Tenants -> Rows]
        /\ row'[call[c].tenant].verified = TRUE
        /\ row'[call[c].tenant].domain = row[call[c].tenant].domain
        /\ row'[call[c].tenant].exists = row[call[c].tenant].exists
        /\ \A t \in Tenants : t # call[c].tenant => row'[t] = row[t]
    BY <1>1, <1>3 DEF TypeInv, TypeOK, Rows
  <1>5. /\ call' \in [Calls -> CallRecords]
        /\ call'[c].at = "forget" /\ call'[c].kind = call[c].kind
        /\ call'[c].tenant = call[c].tenant /\ call'[c].read = call[c].read
        /\ call'[c].want = row[call[c].tenant].domain /\ call'[c].host = call[c].host
        /\ \A d \in Calls : d # c => call'[d] = call[d]
    BY <1>2, <1>3 DEF TypeInv, TypeOK, CallRecords
  <1> QED
    BY <1>1, <1>3, <1>4, <1>5

LEMMA ResetFacts ==
  ASSUME TypeInv, NEW c \in Calls, ResetVerified(c)
  PROVE  /\ call[c].at = "reset" /\ call[c].tenant \in Tenants /\ Goes(c, "write")
         /\ row' \in [Tenants -> Rows]
         /\ row'[call[c].tenant].verified = FALSE
         /\ row'[call[c].tenant].domain = row[call[c].tenant].domain
         /\ row'[call[c].tenant].exists = row[call[c].tenant].exists
         /\ \A t \in Tenants : t # call[c].tenant => row'[t] = row[t]
         /\ UNCHANGED <<cache, proven, edits, history>>
  <1>1. call[c].at = "reset" /\ call[c].tenant \in Tenants
    BY DEF ResetVerified, TypeInv, CallSensible
  <1>2. Goes(c, "write") /\ row' = [row EXCEPT ![call[c].tenant].verified = FALSE]
        /\ UNCHANGED <<cache, proven, edits, history>>
    BY DEF ResetVerified
  <1>3. /\ row' \in [Tenants -> Rows]
        /\ row'[call[c].tenant].verified = FALSE
        /\ row'[call[c].tenant].domain = row[call[c].tenant].domain
        /\ row'[call[c].tenant].exists = row[call[c].tenant].exists
        /\ \A t \in Tenants : t # call[c].tenant => row'[t] = row[t]
    <2>1. row' = [row EXCEPT ![call[c].tenant].verified = FALSE]
      BY <1>2
    <2>2. row \in [Tenants -> Rows]
      BY DEF TypeInv, TypeOK
    <2> QED
      BY <1>1, <2>1, <2>2 DEF Rows
  <1> QED
    BY <1>1, <1>2, <1>3

LEMMA WriteFacts ==
  ASSUME TypeInv, NEW c \in Calls, WriteTenant(c)
  PROVE  /\ call[c].at = "write" /\ call[c].kind \in {"create", "settings", "admin"}
         /\ call[c].tenant \in Tenants /\ ~Taken(call[c].want, call[c].tenant)
         /\ IF call[c].kind = "create" THEN Ends(c) ELSE Goes(c, "forget")
         /\ row' \in [Tenants -> Rows]
         /\ row'[call[c].tenant].exists = TRUE
         /\ row'[call[c].tenant].domain = call[c].want
         /\ row'[call[c].tenant].verified =
              (row[call[c].tenant].verified /\ ~(call[c].kind = "settings" /\ Renames(c)))
         /\ \A t \in Tenants : t # call[c].tenant => row'[t] = row[t]
         /\ proven' \in [Tenants -> SUBSET Domains]
         /\ Renames(c) => proven'[call[c].tenant] = {}
         /\ ~Renames(c) => proven'[call[c].tenant] = proven[call[c].tenant]
         /\ \A t \in Tenants : t # call[c].tenant => proven'[t] = proven[t]
         /\ unmarked' = IF Renames(c) THEN unmarked \ {call[c].tenant} ELSE unmarked
         /\ UNCHANGED <<cache, edits, overlapped, raced, stale>>
  <1>1. call[c].at = "write" /\ call[c].kind \in {"create", "settings", "admin"}
        /\ call[c].tenant \in Tenants
    BY DEF WriteTenant, TypeInv, CallSensible
  <1>2. Written(c) \in Rows /\ Written(c).exists = TRUE /\ Written(c).domain = call[c].want
        /\ Written(c).verified =
              (row[call[c].tenant].verified /\ ~(call[c].kind = "settings" /\ Renames(c)))
    BY <1>1, RowFacts, CallFacts DEF Written, Rows, TypeInv
  <1>3. /\ ~Taken(call[c].want, call[c].tenant)
        /\ row' = [row EXCEPT ![call[c].tenant] = Written(c)]
        /\ proven' = [proven EXCEPT ![call[c].tenant] = IF Renames(c) THEN {} ELSE @]
        /\ IF call[c].kind = "create" THEN Ends(c) ELSE Goes(c, "forget")
        /\ unmarked' = IF Renames(c) THEN unmarked \ {call[c].tenant} ELSE unmarked
        /\ UNCHANGED <<cache, edits, overlapped, raced, stale>>
    BY DEF WriteTenant
  <1>4. /\ row' \in [Tenants -> Rows] /\ row'[call[c].tenant] = Written(c)
        /\ \A t \in Tenants : t # call[c].tenant => row'[t] = row[t]
    BY <1>1, <1>2, <1>3 DEF TypeInv, TypeOK
  <1>5. /\ proven' \in [Tenants -> SUBSET Domains]
        /\ Renames(c) => proven'[call[c].tenant] = {}
        /\ ~Renames(c) => proven'[call[c].tenant] = proven[call[c].tenant]
        /\ \A t \in Tenants : t # call[c].tenant => proven'[t] = proven[t]
    BY <1>1, <1>3 DEF TypeInv, TypeOK
  <1> QED
    BY <1>1, <1>2, <1>3, <1>4, <1>5

LEMMA InspectFacts ==
  ASSUME TypeInv, NEW c \in Calls, NEW found \in BOOLEAN, InspectDomainVerification(c, found)
  PROVE  /\ call[c].at = "dns" /\ call[c].kind = "verify" /\ call[c].tenant \in Tenants
         /\ IF found \/ call[c].read.verified
            THEN \/ call[c].read.verified /\ Goes(c, "forget")
                 \/ ~call[c].read.verified /\ Goes(c, "write")
            ELSE Ends(c)
         /\ proven' \in [Tenants -> SUBSET Domains]
         /\ \A t \in Tenants : t # call[c].tenant => proven'[t] = proven[t]
         /\ proven'[call[c].tenant] =
              IF found /\ row[call[c].tenant].domain = call[c].read.domain
              THEN proven[call[c].tenant] \cup {call[c].read.domain} ELSE proven[call[c].tenant]
         /\ UNCHANGED <<row, cache, edits, history>>
  <1>1. call[c].at = "dns" /\ call[c].kind = "verify" /\ call[c].tenant \in Tenants
        /\ call[c].read.domain # NoDomain
    BY DEF InspectDomainVerification, TypeInv, CallSensible
  <1>2. call[c].read.domain \in Domains /\ call[c].read.verified \in BOOLEAN
    BY <1>1, CallFacts DEF TypeInv
  <1> QED
    BY <1>1, <1>2 DEF InspectDomainVerification, TypeInv, TypeOK

LEMMA ThrowFacts ==
  ASSUME TypeInv, NEW c \in Calls, ChangeThrows(c)
  PROVE  /\ call[c].at \in {"check", "reset", "write", "dns"} /\ call[c].tenant \in Tenants /\ Ends(c)
         /\ UNCHANGED <<row, cache, proven, edits, overlapped, raced>>
         /\ unmarked' \subseteq Tenants /\ unmarked \subseteq unmarked'
         /\ \A t \in Tenants : t # call[c].tenant => (t \in unmarked' <=> t \in unmarked)
         /\ Forfeits(c) \/ (call[c].at = "write" /\ call[c].kind = "verify") =>
              call[c].tenant \in unmarked'
         /\ stale' \subseteq Hosts /\ stale \subseteq stale'
         /\ Forfeits(c) => {call[c].tenant} \cup Candidates(call[c].read.domain) \subseteq stale'
  <1>1. call[c].at \in {"check", "reset", "write", "dns"} /\ call[c].tenant \in Tenants
    BY DEF ChangeThrows, TypeInv, CallSensible
  <1>2. Candidates(call[c].read.domain) \subseteq Hosts
    BY CallFacts, DomainAssumption DEF Candidates, Hosts, TypeInv
  <1>3. /\ unmarked' = IF Forfeits(c) \/ (call[c].at = "write" /\ call[c].kind = "verify")
                       THEN unmarked \cup {call[c].tenant} ELSE unmarked
        /\ stale' = IF Forfeits(c)
                    THEN stale \cup {call[c].tenant} \cup Candidates(call[c].read.domain) ELSE stale
        /\ Ends(c) /\ UNCHANGED <<row, cache, proven, edits, overlapped, raced>>
    BY DEF ChangeThrows
  <1>4. unmarked \subseteq Tenants /\ stale \subseteq Hosts /\ call[c].tenant \in Hosts
    BY <1>1 DEF TypeInv, TypeOK, Hosts
  <1> QED
    BY <1>1, <1>2, <1>3, <1>4

LEMMA ForgetFacts ==
  ASSUME TypeInv, NEW c \in Calls, InvalidateCache(c)
  PROVE  /\ call[c].at = "forget" /\ call[c].tenant \in Tenants /\ Ends(c)
         /\ UNCHANGED <<row, proven, edits, overlapped, unmarked, raced>>
         /\ cache' \in [Hosts -> Entries] /\ stale' \subseteq Hosts
         /\ \A h \in Hosts : cache'[h] = cache[h] \/ cache'[h] = NoEntry
         /\ \A h \in Hosts \ stale' : cache'[h] # NoEntry => h \notin stale /\ h \notin Forgotten(c)
  <1>1. PICK kept \in SUBSET Forgotten(c) :
          /\ cache' = [h \in Hosts |-> IF h \in Forgotten(c) \ kept THEN NoEntry ELSE cache[h]]
          /\ stale' = (stale \ Forgotten(c)) \cup kept
    BY DEF InvalidateCache
  <1>2. \A h \in Hosts : cache'[h] = IF h \in Forgotten(c) \ kept THEN NoEntry ELSE cache[h]
    BY <1>1
  <1>3. cache' \in [Hosts -> Entries]
    BY <1>1, RecordFacts DEF TypeOK, TypeInv
  <1>4. call[c].at = "forget" /\ call[c].tenant \in Tenants /\ Ends(c)
        /\ UNCHANGED <<row, proven, edits, overlapped, unmarked, raced>>
    BY DEF InvalidateCache, TypeInv, CallSensible
  <1>5. Forgotten(c) \subseteq Hosts
    BY <1>4, CallFacts, DomainAssumption DEF Forgotten, Candidates, Hosts, TypeInv
  <1>6. stale' \subseteq Hosts
    BY <1>1, <1>5 DEF TypeInv, TypeOK
  <1>7. \A h \in Hosts \ stale' : cache'[h] # NoEntry => h \notin stale /\ h \notin Forgotten(c)
    BY <1>1, <1>2
  <1>8. \A h \in Hosts : cache'[h] = cache[h] \/ cache'[h] = NoEntry
    BY <1>2
  <1> QED
    BY <1>3, <1>4, <1>6, <1>7, <1>8

LEMMA CacheFacts ==
  ASSUME TypeInv, NEW c \in Calls, CacheTenant(c)
  PROVE  /\ call[c].at = "cache" /\ call[c].kind = "resolve" /\ call[c].host \in Hosts
         /\ Ends(c) /\ UNCHANGED <<row, proven, edits, overlapped, unmarked>>
         /\ cache' \in [Hosts -> Entries] /\ raced' = raced \ {c} /\ stale' \subseteq Hosts
         /\ \A h \in Hosts \ stale' :
              \/ cache'[h] = cache[h] /\ h \notin stale
              \/ /\ h = call[c].host /\ c \notin raced
                 /\ cache'[h] = [tenant |-> call[c].tenant, row |-> call[c].read]
  <1>1. call[c].at = "cache" /\ call[c].kind = "resolve" /\ call[c].host \in Hosts
    BY DEF CacheTenant, TypeInv, CallSensible
  <1>2. [tenant |-> call[c].tenant, row |-> call[c].read] \in Entries
    BY CallFacts DEF Entries, TypeInv
  <1>3. Ends(c) /\ UNCHANGED <<row, proven, edits, overlapped, unmarked>> /\ raced' = raced \ {c}
    BY DEF CacheTenant
  <1>4. CASE UNCHANGED <<cache, stale>>
    BY <1>1, <1>3, <1>4 DEF TypeInv, TypeOK
  <1>5. CASE /\ cache' = [cache EXCEPT ![call[c].host] = [tenant |-> call[c].tenant, row |-> call[c].read]]
             /\ stale' = IF c \in raced THEN stale \cup {call[c].host} ELSE stale \ {call[c].host}
    <2>1. cache' \in [Hosts -> Entries]
          /\ cache'[call[c].host] = [tenant |-> call[c].tenant, row |-> call[c].read]
          /\ \A h \in Hosts : h # call[c].host => cache'[h] = cache[h]
      BY <1>1, <1>2, <1>5 DEF TypeInv, TypeOK
    <2>2. stale \subseteq Hosts
      BY DEF TypeInv, TypeOK
    <2>3. c \in raced => call[c].host \in stale'
      BY <1>5
    <2>4. stale' \subseteq Hosts /\ \A h \in Hosts : h # call[c].host => (h \in stale' <=> h \in stale)
      BY <1>1, <1>5, <2>2
    <2> QED
      BY <1>1, <1>3, <2>1, <2>3, <2>4
  <1> QED
    BY <1>4, <1>5 DEF CacheTenant

LEMMA ResolveFacts ==
  ASSUME TypeInv, NEW c \in Calls, NEW h \in Hosts, ResolveFromHostname(c, h)
  PROVE  /\ call[c] = IdleCall /\ UNCHANGED <<row, cache, proven, edits, overlapped, unmarked, stale>>
         /\ raced \subseteq raced' /\ raced' \subseteq raced \cup {c}
         /\ EditingOf(call'[c].tenant) # {} => c \in raced'
         /\ call' \in [Calls -> CallRecords]
         /\ call'[c].kind = "resolve" /\ call'[c].at = "cache" /\ call'[c].host = h
         /\ call'[c].tenant \in Tenants /\ call'[c].read = row[call'[c].tenant]
         /\ Serves(call'[c].tenant, h)
         /\ \A d \in Calls : d # c => call'[d] = call[d]
  <1>1. PICK answer \in Answers(h) :
          /\ call' = [call EXCEPT ![c] =
                        [IdleCall EXCEPT !.kind = "resolve", !.host = h, !.at = "cache",
                                         !.tenant = answer.tenant, !.read = answer.row]]
          /\ raced' = IF EditingOf(answer.tenant) = {} THEN raced ELSE raced \cup {c}
    BY DEF ResolveFromHostname
  <1>2. PICK t \in Tenants : Serves(t, h) /\ answer = [tenant |-> t, row |-> row[t]]
    BY DEF Answers
  <1>3. answer.tenant = t /\ answer.row = row[t]
    BY <1>2
  <1> DEFINE k == [IdleCall EXCEPT !.kind = "resolve", !.host = h, !.at = "cache",
                                   !.tenant = answer.tenant, !.read = answer.row]
  <1>4. k \in CallRecords /\ k.kind = "resolve" /\ k.at = "cache" /\ k.host = h
        /\ k.tenant = t /\ k.read = row[t]
    BY <1>3, RowFacts DEF IdleCall, CallRecords, TypeInv
  <1>5. call' = [call EXCEPT ![c] = k]
    BY <1>1
  <1> HIDE DEF k
  <1>6. call' \in [Calls -> CallRecords] /\ call'[c] = k /\ \A d \in Calls : d # c => call'[d] = call[d]
    BY <1>4, <1>5 DEF TypeInv, TypeOK
  <1>7. raced \subseteq raced' /\ raced' \subseteq raced \cup {c}
        /\ (EditingOf(t) # {} => c \in raced')
    BY <1>1, <1>3
  <1> QED
    BY <1>2, <1>4, <1>6, <1>7 DEF ResolveFromHostname

(* What a handler finds when it begins.                                    *)
BeginsSensibly(kind, t, want, at) ==
  \/ kind = "create" /\ at = "check" /\ ~row[t].exists /\ EditingOf(t) = {}
  \/ kind \in {"settings", "admin"} /\ at = "check" /\ row[t].exists
  \/ kind = "verify" /\ at = "dns" /\ row[t].exists /\ want = row[t].domain /\ want # NoDomain

LEMMA BeginCases ==
  ASSUME TypeInv, NEW c \in Calls, NEW t \in Tenants, NEW want \in Domains \cup {NoDomain},
         NEW on \in BOOLEAN,
         \/ BeginVerify(c, t) \/ BeginCreateTenant(c, t, want)
         \/ BeginSettings(c, t, want) \/ BeginUpdateTenant(c, t, want, on)
  PROVE  \E kind \in {"create", "settings", "admin", "verify"}, w \in Domains \cup {NoDomain},
            o \in BOOLEAN, at \in {"check", "dns"} :
              Begins(c, kind, t, w, o, at) /\ BeginsSensibly(kind, t, w, at)
  <1>1. row[t].domain \in Domains \cup {NoDomain}
    BY RowFacts DEF TypeInv
  <1>2. CASE BeginVerify(c, t)
    BY <1>1, <1>2 DEF BeginVerify, BeginsSensibly
  <1>3. CASE BeginCreateTenant(c, t, want)
    BY <1>3 DEF BeginCreateTenant, BeginsSensibly
  <1>4. CASE BeginSettings(c, t, want)
    BY <1>4 DEF BeginSettings, BeginsSensibly
  <1>5. CASE BeginUpdateTenant(c, t, want, on)
    BY <1>5 DEF BeginUpdateTenant, BeginsSensibly
  <1> QED
    BY <1>2, <1>3, <1>4, <1>5

(* A handler that ends leaves nothing.                                     *)
LEMMA EndsSensibly ==
  ASSUME TypeInv, NEW c \in Calls, Ends(c)
  PROVE  CallSensible'
  BY EndsFacts, RecordFacts DEF TypeInv, CallSensible, Renames

LEMMA GoesSensibly ==
  ASSUME TypeInv, NEW c \in Calls, NEW at \in {"reset", "write", "forget"}, Goes(c, at),
         call[c].at \in {"check", "reset", "write", "dns"},
         at = "reset" => call[c].kind = "admin" /\ Renames(c),
         at = "write" => call[c].kind \in {"create", "settings", "admin", "verify"},
         at = "forget" => call[c].kind \in {"settings", "admin", "verify"}
  PROVE  CallSensible'
  <1>1. /\ call'[c].at = at /\ call'[c].kind = call[c].kind /\ call'[c].tenant = call[c].tenant
        /\ call'[c].read = call[c].read /\ call'[c].want = call[c].want /\ call'[c].host = call[c].host
        /\ \A d \in Calls : d # c => call'[d] = call[d]
    BY GoesFacts DEF TypeInv
  <1>2. CallSensible
    BY DEF TypeInv
  <1> QED
    BY <1>1, <1>2 DEF CallSensible, Renames

(* Only resolutions in flight are ever raced.                              *)
LEMMA RacedResolve ==
  ASSUME TypeInv, NEW c \in Calls, \A d \in Calls : d # c => call'[d] = call[d],
         raced' \subseteq Resolving, c \notin raced'
  PROVE  raced' \subseteq Resolving'
  BY DEF Resolving

LEMMA TypeStep ==
  ASSUME TypeInv, [Next]_vars
  PROVE  TypeInv'
  <1>0. TypeOK /\ CallSensible
    BY DEF TypeInv
  <1>a. /\ overlapped \subseteq Tenants /\ unmarked \subseteq Tenants /\ raced \subseteq Resolving
        /\ stale \subseteq Hosts
    BY <1>0 DEF TypeOK
  <1>b. \A c \in Calls : call[c].at # "cache" => c \notin raced
    BY <1>0, <1>a DEF CallSensible, Resolving
  <1>1. ASSUME NEW c \in Calls, CheckDomain(c)
        PROVE  TypeInv'
    <2>1. call[c].at = "check" /\ call[c].kind \in {"create", "settings", "admin"}
          /\ UNCHANGED <<row, cache, proven, edits, overlapped, unmarked, raced, stale>>
      BY <1>0, <1>1 DEF CheckDomain, CallSensible, history
    <2>2. Ends(c) \/ (Goes(c, "reset") /\ call[c].kind = "admin" /\ Renames(c)) \/ Goes(c, "write")
      BY <1>1 DEF CheckDomain
    <2>3. CallSensible'
      BY <2>1, <2>2, EndsSensibly, GoesSensibly
    <2>4. call' \in [Calls -> CallRecords] /\ \A d \in Calls : d # c => call'[d] = call[d]
      BY <1>0, <2>2, EndsFacts, GoesFacts
    <2>5. raced' \subseteq Resolving'
      BY <1>a, <1>b, <2>1, <2>4, RacedResolve
    <2> QED
      BY <1>0, <2>1, <2>3, <2>4, <2>5 DEF TypeInv, TypeOK, Hosts
  <1>2. ASSUME NEW c \in Calls, ResetVerified(c)
        PROVE  TypeInv'
    <2>1. call[c].kind = "admin" /\ call[c].at = "reset" /\ Goes(c, "write")
      BY <1>0, <1>2, ResetFacts DEF CallSensible
    <2>2. CallSensible' /\ call' \in [Calls -> CallRecords] /\ \A d \in Calls : d # c => call'[d] = call[d]
      BY <1>0, <2>1, GoesSensibly, GoesFacts
    <2>3. \A t \in Tenants : row'[t].domain = row[t].domain
      BY <1>2, ResetFacts
    <2>4. row' \in [Tenants -> Rows]
          /\ UNCHANGED <<cache, proven, edits, overlapped, unmarked, raced, stale>>
      BY <1>2, ResetFacts DEF history
    <2>5. raced' \subseteq Resolving'
      BY <1>a, <1>b, <2>1, <2>2, <2>4, RacedResolve
    <2> QED
      BY <1>0, <2>2, <2>3, <2>4, <2>5 DEF TypeInv, TypeOK
  <1>3. ASSUME NEW c \in Calls, WriteTenant(c)
        PROVE  TypeInv'
    <2>1. call[c].at = "write" /\ call[c].kind \in {"create", "settings", "admin"}
          /\ IF call[c].kind = "create" THEN Ends(c) ELSE Goes(c, "forget")
      BY <1>3, WriteFacts
    <2>2. CallSensible' /\ call' \in [Calls -> CallRecords] /\ \A d \in Calls : d # c => call'[d] = call[d]
      BY <1>0, <2>1, EndsSensibly, EndsFacts, GoesSensibly, GoesFacts
    <2>3. \A s, t \in Tenants : row'[s].domain = row'[t].domain /\ row'[s].domain # NoDomain => s = t
      <3>1. \A s \in Tenants : s # call[c].tenant =>
              call[c].want = NoDomain \/ row[s].domain # call[c].want
        BY <1>3, WriteFacts DEF Taken
      <3>2. /\ row'[call[c].tenant].domain = call[c].want
            /\ \A s \in Tenants : s # call[c].tenant => row'[s] = row[s]
        BY <1>3, WriteFacts
      <3> QED
        BY <1>0, <3>1, <3>2 DEF TypeOK
    <2>4. row' \in [Tenants -> Rows] /\ proven' \in [Tenants -> SUBSET Domains]
          /\ UNCHANGED <<cache, edits, overlapped, raced, stale>>
          /\ unmarked' = IF Renames(c) THEN unmarked \ {call[c].tenant} ELSE unmarked
      BY <1>3, WriteFacts
    <2>5. raced' \subseteq Resolving'
      BY <1>a, <1>b, <2>1, <2>2, <2>4, RacedResolve
    <2>6. unmarked' \subseteq Tenants
      BY <1>a, <2>4
    <2> QED
      BY <1>0, <2>2, <2>3, <2>4, <2>5, <2>6 DEF TypeInv, TypeOK
  <1>4. ASSUME NEW c \in Calls, ChangeThrows(c)
        PROVE  TypeInv'
    <2>1. call[c].at # "cache" /\ UNCHANGED <<row, cache, proven, edits, overlapped, raced>>
          /\ unmarked' \subseteq Tenants /\ stale' \subseteq Hosts /\ Ends(c)
      BY <1>4, ThrowFacts
    <2>2. CallSensible' /\ call' \in [Calls -> CallRecords] /\ \A d \in Calls : d # c => call'[d] = call[d]
      BY <1>0, <2>1, EndsSensibly, EndsFacts
    <2>3. raced' \subseteq Resolving'
      BY <1>a, <1>b, <2>1, <2>2, RacedResolve
    <2> QED
      BY <1>0, <2>1, <2>2, <2>3 DEF TypeInv, TypeOK
  <1>5. ASSUME NEW c \in Calls, NEW found \in BOOLEAN, InspectDomainVerification(c, found)
        PROVE  TypeInv'
    <2>1. call[c].at = "dns" /\ call[c].kind = "verify"
          /\ (Ends(c) \/ Goes(c, "forget") \/ Goes(c, "write"))
          /\ proven' \in [Tenants -> SUBSET Domains]
          /\ UNCHANGED <<row, cache, edits, overlapped, unmarked, raced, stale>>
      BY <1>5, InspectFacts DEF history
    <2>2. CallSensible' /\ call' \in [Calls -> CallRecords] /\ \A d \in Calls : d # c => call'[d] = call[d]
      BY <1>0, <2>1, EndsSensibly, EndsFacts, GoesSensibly, GoesFacts
    <2>3. raced' \subseteq Resolving'
      BY <1>a, <1>b, <2>1, <2>2, RacedResolve
    <2> QED
      BY <1>0, <2>1, <2>2, <2>3 DEF TypeInv, TypeOK
  <1>6. ASSUME NEW c \in Calls, MarkVerified(c)
        PROVE  TypeInv'
    <2>1. \A t \in Tenants : row'[t].domain = row[t].domain
      BY <1>6, MarkFacts
    <2>2. CallSensible'
      <3>1. /\ call'[c].at = "forget" /\ call'[c].kind = "verify" /\ call'[c].tenant \in Tenants
            /\ call'[c].read = call[c].read /\ call[c].kind = "verify"
            /\ \A d \in Calls : d # c => call'[d] = call[d]
        BY <1>6, MarkFacts
      <3> QED
        BY <1>0, <3>1 DEF CallSensible, Renames
    <2>3. row' \in [Tenants -> Rows] /\ call' \in [Calls -> CallRecords] /\ call[c].at = "write"
          /\ UNCHANGED <<cache, proven, edits, overlapped, raced, stale>>
          /\ unmarked' = unmarked \ {call[c].tenant} /\ \A d \in Calls : d # c => call'[d] = call[d]
      BY <1>6, MarkFacts
    <2>4. raced' \subseteq Resolving' /\ unmarked' \subseteq Tenants
      BY <1>a, <1>b, <2>3, RacedResolve
    <2> QED
      BY <1>0, <2>1, <2>2, <2>3, <2>4 DEF TypeInv, TypeOK
  <1>7. ASSUME NEW c \in Calls, InvalidateCache(c)
        PROVE  TypeInv'
    <2>1. call[c].at # "cache" /\ UNCHANGED <<row, proven, edits, overlapped, unmarked, raced>>
          /\ cache' \in [Hosts -> Entries] /\ stale' \subseteq Hosts /\ Ends(c)
      BY <1>7, ForgetFacts
    <2>2. CallSensible' /\ call' \in [Calls -> CallRecords] /\ \A d \in Calls : d # c => call'[d] = call[d]
      BY <1>0, <2>1, EndsSensibly, EndsFacts
    <2>3. raced' \subseteq Resolving'
      BY <1>a, <1>b, <2>1, <2>2, RacedResolve
    <2> QED
      BY <1>0, <2>1, <2>2, <2>3 DEF TypeInv, TypeOK
  <1>8. ASSUME NEW c \in Calls, CacheTenant(c)
        PROVE  TypeInv'
    <2>1. Ends(c) /\ UNCHANGED <<row, proven, edits, overlapped, unmarked>> /\ cache' \in [Hosts -> Entries]
          /\ raced' = raced \ {c} /\ stale' \subseteq Hosts
      BY <1>8, CacheFacts
    <2>2. CallSensible' /\ call' \in [Calls -> CallRecords] /\ \A d \in Calls : d # c => call'[d] = call[d]
      BY <1>0, <2>1, EndsSensibly, EndsFacts
    <2>3. raced' \subseteq Resolving'
      BY <1>a, <2>1, <2>2, RacedResolve
    <2> QED
      BY <1>0, <2>1, <2>2, <2>3 DEF TypeInv, TypeOK
  <1>9. ASSUME NEW c \in Calls, NEW t \in Tenants, NEW kind \in {"create", "settings", "admin", "verify"},
               NEW want \in Domains \cup {NoDomain}, NEW on \in BOOLEAN, NEW at \in {"check", "dns"},
               Begins(c, kind, t, want, on, at), BeginsSensibly(kind, t, want, at)
        PROVE  TypeInv'
    <2>1. /\ call' \in [Calls -> CallRecords] /\ edits' \in 0 .. MaxEdits /\ call[c] = IdleCall
          /\ UNCHANGED <<row, cache, proven, unmarked, stale>>
          /\ overlapped' \subseteq Tenants /\ raced' \subseteq Resolving
          /\ call'[c].kind = kind /\ call'[c].tenant = t /\ call'[c].read = row[t] /\ call'[c].at = at
          /\ \A d \in Calls : d # c => call'[d] = call[d]
      BY <1>9, BeginsFacts
    <2>2. CallSensible'
      BY <1>0, <1>9, <2>1 DEF CallSensible, BeginsSensibly, Renames
    <2>3. c \notin Resolving
      BY <2>1, RecordFacts DEF Resolving
    <2>4. raced' \subseteq Resolving'
      BY <2>1, <2>3, RacedResolve
    <2> QED
      BY <1>0, <2>1, <2>2, <2>4 DEF TypeInv, TypeOK
  <1>10. ASSUME NEW c \in Calls, NEW h \in Hosts, ResolveFromHostname(c, h)
         PROVE  TypeInv'
    <2>1. CallSensible'
      BY <1>0, <1>10, ResolveFacts DEF CallSensible, Renames
    <2>2. raced' \subseteq raced \cup {c} /\ call'[c].kind = "resolve"
          /\ \A d \in Calls : d # c => call'[d] = call[d]
      BY <1>10, ResolveFacts
    <2>3. raced' \subseteq Resolving'
      BY <1>a, <2>2 DEF Resolving
    <2> QED
      BY <1>0, <1>10, <2>1, <2>3, ResolveFacts DEF TypeInv, TypeOK
  <1>11. ASSUME NEW h \in Hosts, Expire(h)
         PROVE  TypeInv'
    <2>1. /\ cache' = [cache EXCEPT ![h] = NoEntry] /\ stale' = stale \ {h}
          /\ UNCHANGED <<row, call, proven, edits, overlapped, unmarked, raced>>
      BY <1>11 DEF Expire
    <2> QED
      BY <1>0, <1>a, <2>1, RecordFacts DEF TypeInv, TypeOK, CallSensible, Renames, Resolving
  <1>12. CASE UNCHANGED vars
    BY <1>0, <1>12 DEF vars, history, TypeInv, TypeOK, CallSensible, Renames, Resolving
  <1>13. ASSUME NEW c \in Calls, CallStep(c)
         PROVE  TypeInv'
    BY <1>1, <1>2, <1>3, <1>4, <1>5, <1>6, <1>7, <1>8, <1>13 DEF CallStep
  <1>14. ASSUME NEW c \in Calls, NEW t \in Tenants, NEW want \in Domains \cup {NoDomain}, NEW on \in BOOLEAN,
                \/ BeginVerify(c, t) \/ BeginCreateTenant(c, t, want)
                \/ BeginSettings(c, t, want) \/ BeginUpdateTenant(c, t, want, on)
         PROVE  TypeInv'
    BY <1>9, <1>14, BeginCases
  <1> QED
    BY <1>10, <1>11, <1>12, <1>13, <1>14 DEF Next

LEMMA TypeInit ==
  ASSUME Init
  PROVE  TypeInv
  <1>1. row \in [Tenants -> Rows] /\ \A t \in Tenants : row[t].domain = NoDomain /\ row[t].verified = FALSE
    BY DEF Init, NoRow, Rows
  <1>2. edits \in 0 .. MaxEdits
    BY DomainAssumption DEF Init
  <1> QED
    BY <1>1, <1>2, RecordFacts, DomainAssumption DEF Init, TypeInv, TypeOK, CallSensible, Renames

(* Tenants, cache entries and handlers have the values the code gives      *)
(* them, and no two tenants have one custom domain.                        *)
THEOREM DomainTypeCorrect == Spec => []TypeOK
  <1>1. Init => TypeInv
    BY TypeInit
  <1>2. TypeInv /\ [Next]_vars => TypeInv'
    BY TypeStep
  <1>3. TypeInv => TypeOK
    BY DEF TypeInv
  <1> QED
    BY <1>1, <1>2, <1>3, PTL DEF Spec

-----------------------------------------------------------------------------
(* Handlers and the rows they are about.                                   *)

(* A step of handler c, about tenant t: what it leaves alone.              *)
Aside(c, t) ==
  /\ \A d \in Calls : d # c => call'[d] = call[d]
  /\ c \in Editing => call[c].tenant = t
  /\ (c \in Editing)' => call'[c].tenant = t

LEMMA AsideFacts ==
  ASSUME TypeInv, NEW c \in Calls, NEW t \in Tenants, Aside(c, t)
  PROVE  /\ \A s \in Tenants : s # t =>
              EditingOf(s)' = EditingOf(s) /\ \A e \in EditingOf(s) : e \in Calls /\ call'[e] = call[e]
         /\ \A e \in Calls : e # c =>
              /\ e \in EditingOf(t)' <=> e \in EditingOf(t)
              /\ call'[e] = call[e]
         /\ EditingOf(t) \subseteq Calls
  <1>1. \A e \in Calls : e # c => call'[e] = call[e] /\ (e \in Editing' <=> e \in Editing)
    BY DEF Aside, Editing
  <1>2. \A s \in Tenants : s # t => c \notin EditingOf(s) /\ c \notin EditingOf(s)'
    BY DEF Aside, EditingOf
  <1>3. \A e \in Calls : e # c => \A s \in Tenants : e \in EditingOf(s)' <=> e \in EditingOf(s)
    BY <1>1 DEF EditingOf
  <1>4. \A s \in Tenants : EditingOf(s) \subseteq Calls /\ EditingOf(s)' \subseteq Calls
    BY DEF EditingOf, Editing
  <1>5. \A s \in Tenants : s # t => EditingOf(s)' = EditingOf(s)
    BY <1>2, <1>3, <1>4
  <1> QED
    BY <1>1, <1>2, <1>3, <1>4, <1>5

LEMMA EndsAside ==
  ASSUME TypeInv, NEW c \in Calls, NEW t \in Tenants, call[c].tenant = t, Ends(c)
  PROVE  Aside(c, t) /\ c \notin EditingOf(t)'
  BY EndsFacts, RecordFacts DEF Aside, EditingOf, Editing, TypeInv

LEMMA GoesAside ==
  ASSUME TypeInv, NEW c \in Calls, NEW t \in Tenants, call[c].tenant = t,
         NEW at \in {"reset", "write", "forget"}, Goes(c, at), call[c].kind \notin {"none", "resolve"}
  PROVE  Aside(c, t) /\ c \in EditingOf(t) /\ c \in EditingOf(t)'
  BY GoesFacts DEF Aside, EditingOf, Editing, TypeInv, CallSensible

(* Rows are made by createTenant alone, before anything else is done with  *)
(* them.                                                                   *)
RowOf(t) ==
  /\ ~row[t].exists => ~row[t].verified
  /\ \A c \in EditingOf(t) :
       IF call[c].kind = "create" THEN ~row[t].exists /\ EditingOf(t) = {c} ELSE row[t].exists

RowInv == TypeInv /\ \A t \in Tenants : RowOf(t)

LEMMA RowElsewhere ==
  ASSUME TypeInv, NEW s \in Tenants, RowOf(s), row'[s] = row[s], EditingOf(s)' = EditingOf(s),
         \A e \in EditingOf(s) : call'[e] = call[e]
  PROVE  RowOf(s)'
  BY DEF RowOf

(* Handlers that only go on or end.                                        *)
LEMMA RowKept ==
  ASSUME RowInv,
         \A t \in Tenants : /\ row'[t].exists = row[t].exists
                            /\ row'[t].verified => row[t].verified \/ row[t].exists
                            /\ EditingOf(t)' \subseteq EditingOf(t)
                            /\ \A e \in EditingOf(t)' : call'[e].kind = call[e].kind
  PROVE  \A t \in Tenants : RowOf(t)'
  BY DEF RowInv, RowOf

LEMMA RowEnds ==
  ASSUME RowInv, NEW c \in Calls, Ends(c), row' = row
  PROVE  \A t \in Tenants : RowOf(t)'
  <1>1. call'[c] = IdleCall /\ IdleCall.kind = "none" /\ \A d \in Calls : d # c => call'[d] = call[d]
    BY EndsFacts, RecordFacts DEF RowInv, TypeInv
  <1>2. \A t \in Tenants : EditingOf(t)' \subseteq EditingOf(t)
                           /\ \A e \in EditingOf(t)' : call'[e].kind = call[e].kind
    BY <1>1 DEF EditingOf, Editing
  <1> QED
    BY <1>2, RowKept

LEMMA RowGoes ==
  ASSUME RowInv, NEW c \in Calls, call'[c].kind = call[c].kind, call'[c].tenant = call[c].tenant,
         \A d \in Calls : d # c => call'[d] = call[d],
         \A t \in Tenants : /\ row'[t].exists = row[t].exists
                            /\ row'[t].verified => row[t].verified \/ row[t].exists
  PROVE  \A t \in Tenants : RowOf(t)'
  <1>1. \A e \in Calls : call'[e].kind = call[e].kind /\ call'[e].tenant = call[e].tenant
    OBVIOUS
  <1>2. \A t \in Tenants : EditingOf(t)' \subseteq EditingOf(t)
                           /\ \A e \in EditingOf(t)' : call'[e].kind = call[e].kind
    BY <1>1 DEF EditingOf, Editing
  <1> QED
    BY <1>2, RowKept

LEMMA RowStep ==
  ASSUME RowInv, [Next]_vars
  PROVE  RowInv'
  <1>0. TypeInv /\ TypeInv' /\ \A t \in Tenants : RowOf(t)
    BY TypeStep DEF RowInv
  <1> SUFFICES \A t \in Tenants : RowOf(t)'
    BY <1>0 DEF RowInv
  <1>1. ASSUME NEW c \in Calls, CheckDomain(c)
        PROVE  \A t \in Tenants : RowOf(t)'
    <2>1. row' = row /\ (Ends(c) \/ Goes(c, "reset") \/ Goes(c, "write"))
      BY <1>1 DEF CheckDomain
    <2> QED
      BY <1>0, <2>1, RowEnds, RowGoes, GoesFacts DEF TypeInv
  <1>2. ASSUME NEW c \in Calls, ResetVerified(c)
        PROVE  \A t \in Tenants : RowOf(t)'
    <2>1. /\ Goes(c, "write")
          /\ \A t \in Tenants : row'[t].exists = row[t].exists /\ (row'[t].verified => row[t].verified)
      BY <1>0, <1>2, ResetFacts
    <2> QED
      BY <1>0, <2>1, RowGoes, GoesFacts DEF TypeInv
  <1>3. ASSUME NEW c \in Calls, WriteTenant(c)
        PROVE  \A t \in Tenants : RowOf(t)'
    <2>0. PICK t \in Tenants : t = call[c].tenant
      BY <1>0, <1>3, WriteFacts
    <2>1. /\ t \in Tenants /\ call[c].kind \in {"create", "settings", "admin"}
          /\ row'[t].exists = TRUE /\ \A s \in Tenants : s # t => row'[s] = row[s]
          /\ IF call[c].kind = "create" THEN Ends(c) ELSE Goes(c, "forget")
      BY <1>0, <1>3, <2>0, WriteFacts
    <2>2. Aside(c, t) /\ c \in EditingOf(t)
          /\ (call[c].kind = "create" => c \notin EditingOf(t)')
          /\ (call[c].kind # "create" => call'[c].kind = call[c].kind)
      BY <1>0, <2>0, <2>1, EndsAside, GoesAside, GoesFacts DEF EditingOf, Editing, TypeInv
    <2>3. ASSUME NEW s \in Tenants, s # t
          PROVE  RowOf(s)'
      BY <1>0, <2>1, <2>2, <2>3, AsideFacts, RowElsewhere
    <2>4. RowOf(t)'
      <3>1. \A e \in Calls : e # c => (e \in EditingOf(t)' <=> e \in EditingOf(t)) /\ call'[e] = call[e]
        BY <1>0, <2>1, <2>2, AsideFacts
      <3>2. EditingOf(t)' \subseteq Calls
        BY DEF EditingOf, Editing
      <3>3. \A e \in EditingOf(t)' : call'[e].kind # "create"
        BY <1>0, <2>1, <2>2, <3>1, <3>2 DEF RowOf
      <3> QED
        BY <2>1, <3>3 DEF RowOf
    <2> QED
      BY <2>3, <2>4
  <1>4. ASSUME NEW c \in Calls, ChangeThrows(c) \/ InvalidateCache(c) \/ CacheTenant(c)
        PROVE  \A t \in Tenants : RowOf(t)'
    BY <1>0, <1>4, ThrowFacts, ForgetFacts, CacheFacts, RowEnds
  <1>5. ASSUME NEW c \in Calls, NEW found \in BOOLEAN, InspectDomainVerification(c, found)
        PROVE  \A t \in Tenants : RowOf(t)'
    <2>1. row' = row /\ (Ends(c) \/ Goes(c, "forget") \/ Goes(c, "write"))
      BY <1>0, <1>5, InspectFacts
    <2> QED
      BY <1>0, <2>1, RowEnds, RowGoes, GoesFacts DEF TypeInv
  <1>6. ASSUME NEW c \in Calls, MarkVerified(c)
        PROVE  \A t \in Tenants : RowOf(t)'
    <2>1. /\ call'[c].kind = call[c].kind /\ call'[c].tenant = call[c].tenant
          /\ \A d \in Calls : d # c => call'[d] = call[d]
          /\ \A t \in Tenants : t # call[c].tenant => row'[t] = row[t]
          /\ row'[call[c].tenant].exists = row[call[c].tenant].exists
          /\ call[c].kind = "verify" /\ call[c].tenant \in Tenants
      BY <1>0, <1>6, MarkFacts
    <2>2. row[call[c].tenant].exists
      <3>1. c \in EditingOf(call[c].tenant)
        BY <2>1 DEF EditingOf, Editing
      <3> QED
        BY <1>0, <2>1, <3>1 DEF RowOf
    <2>3. \A t \in Tenants : row'[t].exists = row[t].exists /\ (row'[t].verified => row[t].verified \/ row[t].exists)
      BY <2>1, <2>2
    <2> QED
      BY <2>1, <2>3, RowGoes
  <1>7. ASSUME NEW c \in Calls, NEW u \in Tenants, NEW kind \in {"create", "settings", "admin", "verify"},
               NEW want \in Domains \cup {NoDomain}, NEW on \in BOOLEAN, NEW at \in {"check", "dns"},
               Begins(c, kind, u, want, on, at), BeginsSensibly(kind, u, want, at)
        PROVE  \A t \in Tenants : RowOf(t)'
    <2>1. /\ row' = row /\ call[c] = IdleCall /\ call'[c].kind = kind /\ call'[c].tenant = u
          /\ \A d \in Calls : d # c => call'[d] = call[d]
      BY <1>0, <1>7, BeginsFacts
    <2>2. Aside(c, u) /\ c \notin EditingOf(u)
      BY <2>1, RecordFacts DEF Aside, EditingOf, Editing
    <2>3. ASSUME NEW s \in Tenants, s # u
          PROVE  RowOf(s)'
      BY <1>0, <2>1, <2>2, <2>3, AsideFacts, RowElsewhere
    <2>4. RowOf(u)'
      <3>1. EditingOf(u)' = EditingOf(u) \cup {c}
        <4>1. c \in EditingOf(u)'
          BY <2>1, <1>7 DEF EditingOf, Editing
        <4>2. EditingOf(u)' \subseteq Calls /\ EditingOf(u) \subseteq Calls
          BY DEF EditingOf, Editing
        <4> QED
          BY <1>0, <2>2, <4>1, <4>2, AsideFacts
      <3>2. \A e \in EditingOf(u) : e # c /\ call'[e] = call[e]
        BY <2>1, <2>2 DEF EditingOf, Editing
      <3>3. kind = "create" => ~row[u].exists /\ EditingOf(u) = {}
        BY <1>7 DEF BeginsSensibly
      <3>4. kind # "create" => row[u].exists
        BY <1>7 DEF BeginsSensibly
      <3>5. \A e \in EditingOf(u) : IF call[e].kind = "create" THEN ~row[u].exists /\ EditingOf(u) = {e} ELSE row[u].exists
        BY <1>0 DEF RowOf
      <3>6. (~row[u].exists => ~row[u].verified) /\ row'[u] = row[u]
        BY <1>0, <2>1 DEF RowOf
      <3>7. CASE kind = "create"
        BY <2>1, <3>1, <3>3, <3>6, <3>7 DEF RowOf
      <3>8. CASE kind # "create"
        BY <2>1, <3>1, <3>2, <3>4, <3>5, <3>6, <3>8 DEF RowOf
      <3> QED
        BY <3>7, <3>8
    <2> QED
      BY <2>3, <2>4
  <1>8. ASSUME NEW c \in Calls, NEW h \in Hosts, ResolveFromHostname(c, h)
        PROVE  \A t \in Tenants : RowOf(t)'
    <2>1. /\ row' = row /\ call'[c].kind = "resolve" /\ call[c] = IdleCall
          /\ \A d \in Calls : d # c => call'[d] = call[d]
      BY <1>0, <1>8, ResolveFacts
    <2>2. \A t \in Tenants : EditingOf(t)' = EditingOf(t) /\ \A e \in EditingOf(t) : call'[e] = call[e]
      BY <2>1, RecordFacts DEF EditingOf, Editing
    <2> QED
      BY <1>0, <2>1, <2>2, RowElsewhere
  <1>9. ASSUME NEW h \in Hosts, Expire(h)
        PROVE  \A t \in Tenants : RowOf(t)'
    BY <1>0, <1>9 DEF Expire, RowOf, EditingOf, Editing
  <1>10. CASE UNCHANGED vars
    BY <1>0, <1>10 DEF vars, RowOf, EditingOf, Editing
  <1>11. ASSUME NEW c \in Calls, CallStep(c)
         PROVE  \A t \in Tenants : RowOf(t)'
    BY <1>1, <1>2, <1>3, <1>4, <1>5, <1>6, <1>11 DEF CallStep
  <1>12. ASSUME NEW c \in Calls, NEW t \in Tenants, NEW want \in Domains \cup {NoDomain}, NEW on \in BOOLEAN,
                \/ BeginVerify(c, t) \/ BeginCreateTenant(c, t, want)
                \/ BeginSettings(c, t, want) \/ BeginUpdateTenant(c, t, want, on)
         PROVE  \A s \in Tenants : RowOf(s)'
    BY <1>0, <1>7, <1>12, BeginCases
  <1> QED
    BY <1>8, <1>9, <1>10, <1>11, <1>12 DEF Next

LEMMA RowInit ==
  ASSUME Init
  PROVE  RowInv
  <1>1. \A t \in Tenants : ~row[t].verified
    BY DEF Init, NoRow
  <1>2. Editing = {}
    BY RecordFacts DEF Init, Editing
  <1> QED
    BY <1>1, <1>2, TypeInit DEF RowInv, RowOf, EditingOf

-----------------------------------------------------------------------------
(* Verifications.                                                          *)

(* One handler c of tenant t that no verification overlaps: a verification *)
(* is alone and finds the domain it read; another change finds it too, or  *)
(* nothing is proven of what has replaced it.                              *)
Fits(t, c) ==
  /\ call[c].kind = "verify" =>
       /\ EditingOf(t) = {c}
       /\ row[t].domain = call[c].read.domain
       /\ call[c].at = "dns" => call[c].read.verified = row[t].verified
       /\ call[c].at = "write" => call[c].read.domain \in proven[t]
  /\ call[c].kind # "verify" /\ call[c].at # "forget" =>
       /\ row[t].domain = call[c].read.domain \/ proven[t] = {}
       /\ Forfeits(c) => ~row[t].verified

(* Between what was found and the mark, or the mark and the new domain.    *)
Midway(c) == Forfeits(c) \/ (call[c].at = "write" /\ call[c].kind = "verify")

MarkOf(t) ==
  /\ \A c \in EditingOf(t) : Fits(t, c)
  /\ row[t].verified => row[t].domain \in proven[t]
  /\ t \notin unmarked /\ row[t].domain \in proven[t] =>
       row[t].verified \/ \E c \in EditingOf(t) : Midway(c)

MarkInv == RowInv /\ \A t \in Tenants \ overlapped : MarkOf(t)

LEMMA MarkElsewhere ==
  ASSUME TypeInv, NEW s \in Tenants, MarkOf(s), row'[s] = row[s], proven'[s] = proven[s],
         s \in unmarked' <=> s \in unmarked, EditingOf(s)' = EditingOf(s),
         \A e \in EditingOf(s) : call'[e] = call[e]
  PROVE  MarkOf(s)'
  <1>1. \A e \in EditingOf(s) : (Fits(s, e) => Fits(s, e)') /\ (Midway(e) => Midway(e)')
    BY DEF Fits, Midway, Forfeits, Renames
  <1> QED
    BY <1>1 DEF MarkOf

(* A step of handler c of tenant t: the other tenants stay as they were.   *)
LEMMA MarkFrame ==
  ASSUME MarkInv, NEW c \in Calls, NEW t \in Tenants, Aside(c, t), overlapped' = overlapped,
         \A s \in Tenants : s # t => row'[s] = row[s] /\ proven'[s] = proven[s]
                                     /\ (s \in unmarked' <=> s \in unmarked),
         t \notin overlapped => MarkOf(t)'
  PROVE  \A s \in Tenants \ overlapped' : MarkOf(s)'
  <1>1. TypeInv /\ \A s \in Tenants \ overlapped : MarkOf(s)
    BY DEF MarkInv, RowInv
  <1>2. ASSUME NEW s \in Tenants \ overlapped, s # t
        PROVE  MarkOf(s)'
    BY <1>1, <1>2, AsideFacts, MarkElsewhere
  <1> QED
    BY <1>2

(* What the other handlers of the tenant are, beside one that verifies     *)
(* nothing, and beside one that does.                                      *)
LEMMA MarkOthers ==
  ASSUME TypeInv, NEW t \in Tenants, MarkOf(t), NEW c \in EditingOf(t)
  PROVE  /\ Fits(t, c)
         /\ call[c].kind = "verify" => EditingOf(t) = {c}
         /\ \A e \in EditingOf(t) : e # c => call[e].kind # "verify" /\ Fits(t, e)
         /\ EditingOf(t) \subseteq Calls /\ call[c].tenant = t /\ call[c].kind \notin {"none", "resolve"}
         /\ row[t].verified \in BOOLEAN
  <1>1. \A e \in EditingOf(t) : Fits(t, e)
    BY DEF MarkOf
  <1>2. EditingOf(t) \subseteq Calls /\ call[c].tenant = t /\ call[c].kind \notin {"none", "resolve"}
    BY DEF EditingOf, Editing
  <1>3. \A e \in EditingOf(t) : call[e].kind = "verify" => EditingOf(t) = {e}
    BY <1>1 DEF Fits
  <1>4. row[t].verified \in BOOLEAN
    BY RowFacts DEF TypeInv
  <1> QED
    BY <1>1, <1>2, <1>3, <1>4

(* A handler of tenant t that ends.                                        *)
LEMMA MarkEnds ==
  ASSUME TypeInv, NEW t \in Tenants, MarkOf(t), NEW c \in EditingOf(t), Ends(c),
         \/ row'[t].domain = row[t].domain /\ proven'[t] = proven[t]
         \/ proven'[t] = {},
         row'[t].verified => row[t].verified /\ row'[t].domain \in proven'[t],
         t \notin unmarked' /\ row'[t].domain \in proven'[t] /\ ~row'[t].verified =>
           ~Midway(c) /\ t \notin unmarked /\ row[t].domain \in proven[t] /\ ~row[t].verified
  PROVE  MarkOf(t)'
  <1>1. /\ \A e \in EditingOf(t) : Fits(t, e)
        /\ \A e \in EditingOf(t) : e # c => call[e].kind # "verify"
        /\ EditingOf(t) \subseteq Calls /\ call[c].tenant = t /\ c \in Calls
    BY MarkOthers DEF MarkOf
  <1>2. c \notin EditingOf(t)' /\ \A e \in Calls : e # c =>
          /\ e \in EditingOf(t)' <=> e \in EditingOf(t)
          /\ call'[e] = call[e]
    BY <1>1, EndsAside, AsideFacts
  <1>3. EditingOf(t)' \subseteq Calls
    BY DEF EditingOf, Editing
  <1>4. \A e \in EditingOf(t)' : Fits(t, e)'
    <2> SUFFICES ASSUME NEW e \in EditingOf(t)'
                 PROVE  Fits(t, e)'
      OBVIOUS
    <2>1. e \in EditingOf(t) /\ call'[e] = call[e] /\ call[e].kind # "verify" /\ Fits(t, e)
      BY <1>1, <1>2, <1>3
    <2> QED
      BY <2>1 DEF Fits, Forfeits, Renames
  <1>5. \A e \in EditingOf(t) : e # c /\ Midway(e) => e \in EditingOf(t)' /\ Midway(e)'
    BY <1>1, <1>2 DEF Midway, Forfeits, Renames
  <1>6. t \notin unmarked' /\ row'[t].domain \in proven'[t] /\ ~row'[t].verified =>
          \E e \in EditingOf(t)' : Midway(e)'
    <2> SUFFICES ASSUME ~Midway(c), t \notin unmarked, row[t].domain \in proven[t], ~row[t].verified
                 PROVE  \E e \in EditingOf(t)' : Midway(e)'
      OBVIOUS
    <2>1. PICK e \in EditingOf(t) : Midway(e)
      BY DEF MarkOf
    <2> QED
      BY <1>5, <2>1
  <1> QED
    BY <1>4, <1>6 DEF MarkOf

(* A handler of tenant t that goes on.                                     *)
LEMMA MarkGoes ==
  ASSUME TypeInv, NEW t \in Tenants, MarkOf(t), NEW c \in EditingOf(t),
         NEW at \in {"reset", "write", "forget"}, Goes(c, at), call[c].kind # "verify",
         \/ row'[t].domain = row[t].domain /\ proven'[t] = proven[t]
         \/ proven'[t] = {},
         row'[t].verified => row[t].verified /\ row'[t].domain \in proven'[t],
         Fits(t, c)',
         t \notin unmarked' /\ row'[t].domain \in proven'[t] /\ ~row'[t].verified =>
           \/ Midway(c)'
           \/ ~Midway(c) /\ t \notin unmarked /\ row[t].domain \in proven[t] /\ ~row[t].verified
  PROVE  MarkOf(t)'
  <1>1. /\ \A e \in EditingOf(t) : Fits(t, e)
        /\ \A e \in EditingOf(t) : e # c => call[e].kind # "verify"
        /\ EditingOf(t) \subseteq Calls /\ call[c].tenant = t /\ c \in Calls
        /\ call[c].kind \notin {"none", "resolve"}
    BY MarkOthers DEF MarkOf
  <1>2. c \in EditingOf(t)' /\ \A e \in Calls : e # c =>
          /\ e \in EditingOf(t)' <=> e \in EditingOf(t)
          /\ call'[e] = call[e]
    BY <1>1, GoesAside, AsideFacts
  <1>3. EditingOf(t)' \subseteq Calls
    BY DEF EditingOf, Editing
  <1>4. \A e \in EditingOf(t)' : Fits(t, e)'
    <2> SUFFICES ASSUME NEW e \in EditingOf(t)', e # c
                 PROVE  Fits(t, e)'
      OBVIOUS
    <2>1. e \in EditingOf(t) /\ call'[e] = call[e] /\ call[e].kind # "verify" /\ Fits(t, e)
      BY <1>1, <1>2, <1>3
    <2> QED
      BY <2>1 DEF Fits, Forfeits, Renames
  <1>5. \A e \in EditingOf(t) : e # c /\ Midway(e) => e \in EditingOf(t)' /\ Midway(e)'
    BY <1>1, <1>2 DEF Midway, Forfeits, Renames
  <1>6. row'[t].verified => row'[t].domain \in proven'[t]
    OBVIOUS
  <1>7. t \notin unmarked' /\ row'[t].domain \in proven'[t] /\ ~row'[t].verified =>
          \E e \in EditingOf(t)' : Midway(e)'
    <2> SUFFICES ASSUME ~Midway(c), t \notin unmarked, row[t].domain \in proven[t], ~row[t].verified
                 PROVE  \E e \in EditingOf(t)' : Midway(e)'
      BY <1>2
    <2>1. PICK e \in EditingOf(t) : Midway(e)
      BY DEF MarkOf
    <2> QED
      BY <1>5, <2>1
  <1> QED
    BY <1>4, <1>6, <1>7 DEF MarkOf

(* A verification is the only handler of its tenant, and stays so.         *)
LEMMA MarkAlone ==
  ASSUME TypeInv, NEW t \in Tenants, MarkOf(t), NEW c \in EditingOf(t), call[c].kind = "verify",
         call'[c].kind = "verify", call'[c].tenant = t, \A d \in Calls : d # c => call'[d] = call[d]
  PROVE  Aside(c, t) /\ EditingOf(t) = {c} /\ EditingOf(t)' = {c}
  <1>1. EditingOf(t) = {c} /\ EditingOf(t) \subseteq Calls /\ call[c].tenant = t /\ c \in Calls
    BY MarkOthers
  <1>2. Aside(c, t)
    BY <1>1 DEF Aside
  <1>3. c \in EditingOf(t)' /\ EditingOf(t)' \subseteq Calls
    BY <1>1 DEF EditingOf, Editing
  <1> QED
    BY <1>1, <1>2, <1>3, AsideFacts

LEMMA MarkStep ==
  ASSUME MarkInv, [Next]_vars
  PROVE  MarkInv'
  <1>0. TypeInv /\ TypeOK /\ CallSensible /\ (\A t \in Tenants : RowOf(t)) /\ RowInv'
        /\ \A t \in Tenants \ overlapped : MarkOf(t)
    BY RowStep DEF MarkInv, RowInv, TypeInv
  <1> SUFFICES \A t \in Tenants \ overlapped' : MarkOf(t)'
    BY <1>0 DEF MarkInv
  <1>a. ASSUME NEW c \in Calls, call[c].kind \notin {"none", "resolve"}
        PROVE  call[c].tenant \in Tenants /\ c \in EditingOf(call[c].tenant)
    BY <1>0, <1>a DEF CallSensible, EditingOf, Editing
  <1>1. ASSUME NEW c \in Calls, CheckDomain(c)
        PROVE  \A s \in Tenants \ overlapped' : MarkOf(s)'
    <2>1. /\ call[c].at = "check" /\ call[c].kind \in {"create", "settings", "admin"}
          /\ UNCHANGED <<row, proven, overlapped, unmarked>>
          /\ \/ Ends(c) \/ Goes(c, "reset")
             \/ Goes(c, "write") /\ ~(call[c].kind = "admin" /\ Renames(c))
      BY <1>0, <1>1 DEF CheckDomain, CallSensible, history
    <2>2. PICK t \in Tenants : t = call[c].tenant /\ c \in EditingOf(t)
      BY <1>a, <2>1
    <2>3. Aside(c, t)
      BY <1>0, <2>1, <2>2, EndsAside, GoesAside
    <2>4. ASSUME t \notin overlapped
          PROVE  MarkOf(t)'
      <3>1. MarkOf(t) /\ Fits(t, c) /\ ~Midway(c) /\ (row[t].verified => row[t].domain \in proven[t])
            /\ row'[t] = row[t] /\ proven'[t] = proven[t]
        BY <1>0, <2>1, <2>2, <2>4 DEF MarkOf, Midway, Forfeits
      <3>2. CASE Ends(c)
        BY <1>0, <2>1, <2>2, <3>1, <3>2, MarkEnds
      <3>3. ASSUME NEW at \in {"reset", "write"}, Goes(c, at),
                   at = "write" => ~(call[c].kind = "admin" /\ Renames(c))
            PROVE  MarkOf(t)'
        <4>1. call'[c].at = at /\ call'[c].kind = call[c].kind /\ call'[c].read = call[c].read
              /\ call'[c].want = call[c].want
          BY <1>0, <3>3, GoesFacts
        <4>2. Fits(t, c)'
          BY <2>1, <3>1, <3>3, <4>1 DEF Fits, Forfeits, Renames
        <4> QED
          BY <1>0, <2>1, <2>2, <3>1, <3>3, <4>2, MarkGoes
      <3> QED
        BY <2>1, <3>2, <3>3
    <2> QED
      BY <2>1, <2>3, <2>4, MarkFrame
  <1>2. ASSUME NEW c \in Calls, ResetVerified(c)
        PROVE  \A s \in Tenants \ overlapped' : MarkOf(s)'
    <2>1. call[c].at = "reset" /\ call[c].kind = "admin" /\ Renames(c) /\ Goes(c, "write")
          /\ proven' = proven /\ overlapped' = overlapped /\ unmarked' = unmarked
      BY <1>0, <1>2, ResetFacts DEF CallSensible, history
    <2>2. PICK t \in Tenants : t = call[c].tenant /\ c \in EditingOf(t)
      BY <1>a, <2>1
    <2>3. row'[t].verified = FALSE /\ row'[t].domain = row[t].domain
          /\ \A s \in Tenants : s # t => row'[s] = row[s]
      BY <1>0, <1>2, <2>2, ResetFacts
    <2>4. Aside(c, t)
      BY <1>0, <2>1, <2>2, GoesAside
    <2>5. ASSUME t \notin overlapped
          PROVE  MarkOf(t)'
      <3>1. MarkOf(t) /\ Fits(t, c)
        BY <1>0, <2>2, <2>5 DEF MarkOf
      <3>2. call'[c].at = "write" /\ call'[c].kind = "admin" /\ call'[c].read = call[c].read
            /\ call'[c].want = call[c].want
        BY <1>0, <2>1, GoesFacts
      <3>3. Midway(c)'
        BY <2>1, <3>2 DEF Midway, Forfeits, Renames
      <3>4. Fits(t, c)'
        BY <2>1, <2>3, <3>1, <3>2 DEF Fits
      <3> QED
        BY <1>0, <2>1, <2>2, <2>3, <3>1, <3>3, <3>4, MarkGoes
    <2> QED
      BY <2>1, <2>3, <2>4, <2>5, MarkFrame
  <1>3. ASSUME NEW c \in Calls, WriteTenant(c)
        PROVE  \A s \in Tenants \ overlapped' : MarkOf(s)'
    <2>1. call[c].at = "write" /\ call[c].kind \in {"create", "settings", "admin"}
      BY <1>0, <1>3, WriteFacts
    <2>2. PICK t \in Tenants : t = call[c].tenant /\ c \in EditingOf(t)
      BY <1>a, <2>1
    <2>3. /\ IF call[c].kind = "create" THEN Ends(c) ELSE Goes(c, "forget")
          /\ row'[t].domain = call[c].want
          /\ row'[t].verified = (row[t].verified /\ ~(call[c].kind = "settings" /\ Renames(c)))
          /\ Renames(c) => proven'[t] = {}
          /\ ~Renames(c) => proven'[t] = proven[t] /\ unmarked' = unmarked
          /\ \A s \in Tenants : s # t => row'[s] = row[s] /\ proven'[s] = proven[s]
                                        /\ (s \in unmarked' <=> s \in unmarked)
          /\ overlapped' = overlapped
      BY <1>0, <1>3, <2>2, WriteFacts
    <2>4. Aside(c, t)
      BY <1>0, <2>1, <2>2, <2>3, EndsAside, GoesAside
    <2>5. ASSUME t \notin overlapped
          PROVE  MarkOf(t)'
      <3>1. MarkOf(t) /\ Fits(t, c) /\ (row[t].verified => row[t].domain \in proven[t])
        BY <1>0, <2>2, <2>5 DEF MarkOf
      <3>2. (row[t].domain = call[c].read.domain \/ proven[t] = {}) /\ (Forfeits(c) => ~row[t].verified)
        BY <2>1, <3>1 DEF Fits
      <3>3. call[c].kind = "create" => ~row[t].verified
        BY <1>0, <2>2 DEF RowOf
      <3>4. \/ row'[t].domain = row[t].domain /\ proven'[t] = proven[t]
            \/ proven'[t] = {}
        BY <2>3, <3>2 DEF Renames
      <3>5. row'[t].verified => row[t].verified /\ row'[t].domain \in proven'[t]
        <4>1. CASE Renames(c)
          BY <2>1, <2>3, <3>2, <3>3, <4>1 DEF Forfeits
        <4>2. CASE ~Renames(c)
          BY <2>3, <3>1, <3>2, <4>2 DEF Renames
        <4> QED
          BY <4>1, <4>2
      <3>6. t \notin unmarked' /\ row'[t].domain \in proven'[t] /\ ~row'[t].verified =>
              ~Midway(c) /\ t \notin unmarked /\ row[t].domain \in proven[t] /\ ~row[t].verified
        <4>1. CASE Renames(c)
          BY <2>3, <4>1
        <4>2. CASE ~Renames(c)
          BY <2>1, <2>3, <3>1, <3>2, <4>2 DEF Renames, Midway, Forfeits
        <4> QED
          BY <4>1, <4>2
      <3>7. CASE call[c].kind = "create"
        BY <1>0, <2>2, <2>3, <3>1, <3>4, <3>5, <3>6, <3>7, MarkEnds
      <3>8. CASE call[c].kind # "create"
        <4>1. Goes(c, "forget") /\ call'[c].at = "forget" /\ call'[c].kind = call[c].kind
          BY <1>0, <2>3, <3>8, GoesFacts
        <4>2. Fits(t, c)'
          BY <2>1, <4>1 DEF Fits
        <4> QED
          BY <1>0, <2>1, <2>2, <2>3, <3>1, <3>4, <3>5, <3>6, <4>1, <4>2, MarkGoes
      <3> QED
        BY <3>7, <3>8
    <2> QED
      BY <2>3, <2>4, <2>5, MarkFrame
  <1>4. ASSUME NEW c \in Calls, ChangeThrows(c) \/ InvalidateCache(c)
        PROVE  \A s \in Tenants \ overlapped' : MarkOf(s)'
    <2>1. /\ call[c].at \in {"check", "reset", "write", "dns", "forget"} /\ Ends(c)
          /\ UNCHANGED <<row, proven, overlapped>> /\ unmarked \subseteq unmarked'
          /\ \A s \in Tenants : s # call[c].tenant => (s \in unmarked' <=> s \in unmarked)
          /\ Midway(c) => call[c].tenant \in unmarked'
      BY <1>0, <1>4, ThrowFacts, ForgetFacts DEF Midway, Forfeits
    <2>2. PICK t \in Tenants : t = call[c].tenant /\ c \in EditingOf(t)
      BY <1>0, <1>a, <2>1 DEF CallSensible
    <2>3. Aside(c, t)
      BY <1>0, <2>1, <2>2, EndsAside
    <2>4. ASSUME t \notin overlapped
          PROVE  MarkOf(t)'
      <3>1. MarkOf(t) /\ (row[t].verified => row[t].domain \in proven[t])
            /\ row'[t] = row[t] /\ proven'[t] = proven[t]
        BY <1>0, <2>1, <2>2, <2>4 DEF MarkOf
      <3> QED
        BY <1>0, <2>1, <2>2, <3>1, MarkEnds
    <2> QED
      BY <2>1, <2>2, <2>3, <2>4, MarkFrame
  <1>5. ASSUME NEW c \in Calls, NEW found \in BOOLEAN, InspectDomainVerification(c, found)
        PROVE  \A s \in Tenants \ overlapped' : MarkOf(s)'
    <2>1. /\ call[c].at = "dns" /\ call[c].kind = "verify"
          /\ row' = row /\ overlapped' = overlapped /\ unmarked' = unmarked
      BY <1>0, <1>5, InspectFacts DEF history
    <2>2. PICK t \in Tenants : t = call[c].tenant /\ c \in EditingOf(t)
      BY <1>a, <2>1
    <2>3. /\ IF found \/ call[c].read.verified
             THEN \/ call[c].read.verified /\ Goes(c, "forget")
                  \/ ~call[c].read.verified /\ Goes(c, "write")
             ELSE Ends(c)
          /\ \A s \in Tenants : s # t => proven'[s] = proven[s]
          /\ proven'[t] = IF found /\ row[t].domain = call[c].read.domain
                          THEN proven[t] \cup {call[c].read.domain} ELSE proven[t]
      BY <1>0, <1>5, <2>2, InspectFacts
    <2>4. Aside(c, t)
      BY <1>0, <2>1, <2>2, <2>3, EndsAside, GoesAside
    <2>5. ASSUME t \notin overlapped
          PROVE  MarkOf(t)'
      <3>1. MarkOf(t) /\ Fits(t, c) /\ (row[t].verified => row[t].domain \in proven[t]) /\ ~Midway(c)
        BY <1>0, <2>1, <2>2, <2>5 DEF MarkOf, Midway, Forfeits
      <3>2. row[t].domain = call[c].read.domain /\ call[c].read.verified = row[t].verified
            /\ EditingOf(t) = {c}
        BY <2>1, <3>1 DEF Fits
      <3>3. t \notin unmarked /\ row[t].domain \in proven[t] => row[t].verified
        BY <3>1, <3>2 DEF MarkOf
      <3>4. CASE ~found /\ ~call[c].read.verified
        BY <1>0, <2>1, <2>2, <2>3, <3>1, <3>4, MarkEnds
      <3>5. ASSUME NEW at \in {"forget", "write"}, Goes(c, at),
                   at = "forget" => row[t].verified, at = "write" => found
            PROVE  MarkOf(t)'
        <4>1. call'[c].at = at /\ call'[c].kind = "verify" /\ call'[c].tenant = t
              /\ call'[c].read = call[c].read /\ \A d \in Calls : d # c => call'[d] = call[d]
          BY <1>0, <2>1, <2>2, <3>5, GoesFacts
        <4>2. EditingOf(t)' = {c}
          BY <1>0, <2>1, <2>2, <3>1, <4>1, MarkAlone
        <4>3. row'[t] = row[t] /\ (row[t].domain \in proven[t] => row[t].domain \in proven'[t])
              /\ (at = "write" => row[t].domain \in proven'[t])
          BY <2>1, <2>3, <3>2, <3>5
        <4>4. Fits(t, c)'
          BY <3>2, <4>1, <4>2, <4>3 DEF Fits
        <4>5. at = "write" => Midway(c)'
          BY <4>1 DEF Midway
        <4> QED
          BY <3>1, <3>5, <4>2, <4>3, <4>4, <4>5 DEF MarkOf
      <3> QED
        BY <2>3, <3>2, <3>4, <3>5
    <2> QED
      BY <2>1, <2>3, <2>4, <2>5, MarkFrame
  <1>6. ASSUME NEW c \in Calls, MarkVerified(c)
        PROVE  \A s \in Tenants \ overlapped' : MarkOf(s)'
    <2>1. /\ call[c].at = "write" /\ call[c].kind = "verify"
          /\ proven' = proven /\ overlapped' = overlapped
      BY <1>0, <1>6, MarkFacts
    <2>2. PICK t \in Tenants : t = call[c].tenant /\ c \in EditingOf(t)
      BY <1>a, <2>1
    <2>3. /\ call'[c].at = "forget" /\ call'[c].kind = "verify" /\ call'[c].tenant = t
          /\ call'[c].read = call[c].read /\ \A d \in Calls : d # c => call'[d] = call[d]
          /\ row'[t].verified = TRUE /\ row'[t].domain = row[t].domain
          /\ \A s \in Tenants : s # t => row'[s] = row[s] /\ (s \in unmarked' <=> s \in unmarked)
      BY <1>0, <1>6, <2>2, MarkFacts
    <2>4. Aside(c, t)
      BY <2>2, <2>3 DEF Aside
    <2>5. ASSUME t \notin overlapped
          PROVE  MarkOf(t)'
      <3>1. MarkOf(t) /\ Fits(t, c)
        BY <1>0, <2>2, <2>5 DEF MarkOf
      <3>2. row[t].domain = call[c].read.domain /\ call[c].read.domain \in proven[t]
        BY <2>1, <3>1 DEF Fits
      <3>3. EditingOf(t)' = {c}
        BY <1>0, <2>1, <2>2, <2>3, <3>1, MarkAlone
      <3>4. Fits(t, c)'
        BY <2>3, <3>2, <3>3 DEF Fits
      <3> QED
        BY <2>1, <2>3, <3>2, <3>3, <3>4 DEF MarkOf
    <2> QED
      BY <2>1, <2>3, <2>4, <2>5, MarkFrame
  <1>7. ASSUME NEW c \in Calls, NEW t \in Tenants, NEW kind \in {"create", "settings", "admin", "verify"},
               NEW want \in Domains \cup {NoDomain}, NEW on \in BOOLEAN, NEW at \in {"check", "dns"},
               Begins(c, kind, t, want, on, at), BeginsSensibly(kind, t, want, at)
        PROVE  \A s \in Tenants \ overlapped' : MarkOf(s)'
    <2>1. /\ row' = row /\ proven' = proven /\ unmarked' = unmarked /\ call[c] = IdleCall
          /\ call'[c].kind = kind /\ call'[c].tenant = t /\ call'[c].at = at /\ call'[c].read = row[t]
          /\ \A d \in Calls : d # c => call'[d] = call[d]
          /\ \A u \in Tenants : u # t => (u \in overlapped' <=> u \in overlapped)
          /\ t \notin overlapped' => t \notin overlapped
               /\ \A e \in EditingOf(t) : kind # "verify" /\ call[e].kind # "verify"
      BY <1>0, <1>7, BeginsFacts
    <2>2. Aside(c, t) /\ c \notin EditingOf(t)
      BY <2>1, RecordFacts DEF Aside, EditingOf, Editing
    <2>3. EditingOf(t)' = EditingOf(t) \cup {c} /\ EditingOf(t) \subseteq Calls
      <3>1. c \in EditingOf(t)'
        BY <2>1, <1>7 DEF EditingOf, Editing
      <3>2. EditingOf(t)' \subseteq Calls /\ EditingOf(t) \subseteq Calls
        BY DEF EditingOf, Editing
      <3> QED
        BY <1>0, <2>2, <3>1, <3>2, AsideFacts
    <2>4. ASSUME NEW s \in Tenants \ overlapped', s # t
          PROVE  MarkOf(s)'
      BY <1>0, <2>1, <2>2, <2>4, AsideFacts, MarkElsewhere
    <2>5. ASSUME t \notin overlapped'
          PROVE  MarkOf(t)'
      <3>1. MarkOf(t) /\ \A e \in EditingOf(t) : kind # "verify" /\ call[e].kind # "verify"
        BY <1>0, <2>1, <2>5
      <3>2. at # "write" /\ at # "forget" /\ (kind = "verify" <=> at = "dns")
        BY <1>7 DEF BeginsSensibly
      <3>3. kind = "verify" => EditingOf(t)' = {c}
        BY <2>3, <3>1
      <3>4. Fits(t, c)'
        BY <2>1, <3>2, <3>3 DEF Fits, Forfeits
      <3>5. \A e \in EditingOf(t) : e # c /\ call'[e] = call[e] /\ Fits(t, e) /\ call[e].kind # "verify"
        BY <2>1, <2>2, <2>3, <3>1 DEF MarkOf
      <3>6. \A e \in EditingOf(t) : Fits(t, e)' /\ (Midway(e) => Midway(e)')
        BY <2>1, <3>5 DEF Fits, Midway, Forfeits, Renames
      <3>7. \A e \in EditingOf(t)' : Fits(t, e)'
        BY <2>3, <3>4, <3>6
      <3>8. /\ row[t].verified => row[t].domain \in proven[t]
            /\ t \notin unmarked /\ row[t].domain \in proven[t] =>
                 row[t].verified \/ \E e \in EditingOf(t) : Midway(e)
        BY <3>1 DEF MarkOf
      <3> QED
        BY <2>1, <2>3, <3>6, <3>7, <3>8 DEF MarkOf
    <2> QED
      BY <2>4, <2>5
  <1>8. ASSUME \A s \in Tenants : EditingOf(s)' = EditingOf(s) /\ \A e \in EditingOf(s) : call'[e] = call[e],
               UNCHANGED <<row, proven, overlapped, unmarked>>
        PROVE  \A s \in Tenants \ overlapped' : MarkOf(s)'
    BY <1>0, <1>8, MarkElsewhere
  <1>9. ASSUME NEW c \in Calls, CacheTenant(c)
        PROVE  \A s \in Tenants \ overlapped' : MarkOf(s)'
    <2>1. /\ call[c].kind = "resolve" /\ Ends(c) /\ UNCHANGED <<row, proven, overlapped, unmarked>>
      BY <1>0, <1>9, CacheFacts
    <2>2. call'[c] = IdleCall /\ \A d \in Calls : d # c => call'[d] = call[d]
      BY <1>0, <2>1, EndsFacts
    <2>3. \A s \in Tenants : EditingOf(s)' = EditingOf(s) /\ \A e \in EditingOf(s) : call'[e] = call[e]
      BY <2>1, <2>2, RecordFacts DEF EditingOf, Editing
    <2> QED
      BY <1>8, <2>1, <2>3
  <1>10. ASSUME NEW c \in Calls, NEW h \in Hosts, ResolveFromHostname(c, h)
         PROVE  \A s \in Tenants \ overlapped' : MarkOf(s)'
    <2>1. /\ call'[c].kind = "resolve" /\ call[c] = IdleCall
          /\ \A d \in Calls : d # c => call'[d] = call[d]
          /\ UNCHANGED <<row, proven, overlapped, unmarked>>
      BY <1>0, <1>10, ResolveFacts
    <2>2. \A s \in Tenants : EditingOf(s)' = EditingOf(s) /\ \A e \in EditingOf(s) : call'[e] = call[e]
      BY <2>1, RecordFacts DEF EditingOf, Editing
    <2> QED
      BY <1>8, <2>1, <2>2
  <1>11. ASSUME UNCHANGED <<row, call, proven, overlapped, unmarked>>
         PROVE  \A s \in Tenants \ overlapped' : MarkOf(s)'
    BY <1>8, <1>11 DEF EditingOf, Editing
  <1>12. ASSUME NEW c \in Calls, CallStep(c)
         PROVE  \A s \in Tenants \ overlapped' : MarkOf(s)'
    BY <1>1, <1>2, <1>3, <1>4, <1>5, <1>6, <1>9, <1>12 DEF CallStep
  <1>13. ASSUME NEW c \in Calls, NEW t \in Tenants, NEW want \in Domains \cup {NoDomain}, NEW on \in BOOLEAN,
                \/ BeginVerify(c, t) \/ BeginCreateTenant(c, t, want)
                \/ BeginSettings(c, t, want) \/ BeginUpdateTenant(c, t, want, on)
         PROVE  \A s \in Tenants \ overlapped' : MarkOf(s)'
    BY <1>0, <1>7, <1>13, BeginCases
  <1>14. ASSUME NEW h \in Hosts, Expire(h)
         PROVE  \A s \in Tenants \ overlapped' : MarkOf(s)'
    BY <1>11, <1>14 DEF Expire
  <1>15. CASE UNCHANGED vars
    BY <1>11, <1>15 DEF vars, history
  <1> QED
    BY <1>10, <1>12, <1>13, <1>14, <1>15 DEF Next

(* A domain is verified only if its record was found since the tenant took *)
(* it, and a found one stays verified, but for the tenants and the         *)
(* failures the property names.                                            *)
THEOREM VerifiedProven == Spec => []VerifiedIsProven
  <1>1. Init => MarkInv
    <2> SUFFICES ASSUME Init
                 PROVE  MarkInv
      OBVIOUS
    <2>1. RowInv
      BY RowInit
    <2>2. \A t \in Tenants : EditingOf(t) = {}
      BY RecordFacts DEF Init, EditingOf, Editing
    <2>3. \A t \in Tenants : ~row[t].verified /\ proven[t] = {}
      BY DEF Init, NoRow
    <2> QED
      BY <2>1, <2>2, <2>3 DEF MarkInv, MarkOf
  <1>2. MarkInv /\ [Next]_vars => MarkInv'
    BY MarkStep
  <1>3. MarkInv => VerifiedIsProven
    <2> SUFFICES ASSUME MarkInv, NEW t \in Tenants \ overlapped
                 PROVE  /\ row[t].verified => row[t].domain \in proven[t]
                        /\ EditingOf(t) = {} /\ t \notin unmarked =>
                              (row[t].domain \in proven[t] => row[t].verified)
      BY DEF VerifiedIsProven
    <2> QED
      BY DEF MarkInv, MarkOf
  <1> QED
    BY <1>1, <1>2, <1>3, PTL DEF Spec

-----------------------------------------------------------------------------
(* The cache.                                                              *)

(* Handler c of tenant t is going to forget host h.                        *)
Covers(c, t, h) == h \in {t} \cup Candidates(call[c].read.domain)
Forgets(c, t, h) ==
  /\ c \in EditingOf(t)
  /\ \/ call[c].at = "forget" /\ h \in Forgotten(c)
     \/ Forfeits(c) /\ Covers(c, t, h)

(* What is cached of tenant t at host h is what it is now, or is going to  *)
(* be forgotten.                                                           *)
Exact(t, h) == cache[h].row = row[t] /\ Serves(t, h)
EntryFits(t, h) ==
  \/ \E c \in Calls : Forgets(c, t, h)
  \/ /\ Exact(t, h)
     /\ \A c \in EditingOf(t) : call[c].kind # "verify" => Covers(c, t, h)

(* A resolution no change of its tenant ran beside has read what is.       *)
Fresh(c) ==
  /\ call[c].read = row[call[c].tenant] /\ call[c].tenant \in Tenants
  /\ Serves(call[c].tenant, call[c].host) /\ EditingOf(call[c].tenant) = {}

CacheInv ==
  /\ RowInv
  /\ \A h \in Hosts \ stale : cache[h] # NoEntry =>
       cache[h].tenant \in Tenants /\ EntryFits(cache[h].tenant, h)
  /\ \A c \in Resolving \ raced : Fresh(c)

LEMMA ServesElsewhere ==
  ASSUME NEW t \in Tenants, row'[t] = row[t], NEW h \in Hosts
  PROVE  Serves(t, h)' <=> Serves(t, h)
  BY DEF Serves

(* Nothing changes of the tenant an entry is about.                        *)
LEMMA EntryElsewhere ==
  ASSUME NEW t \in Tenants, NEW h \in Hosts, EntryFits(t, h), cache'[h] = cache[h], row'[t] = row[t],
         EditingOf(t)' = EditingOf(t), \A e \in EditingOf(t) : call'[e] = call[e]
  PROVE  EntryFits(t, h)'
  <1>1. \A e \in EditingOf(t) : (Forgets(e, t, h) => Forgets(e, t, h)') /\ (Covers(e, t, h) => Covers(e, t, h)')
    BY DEF Forgets, Covers, Forfeits, Renames, Forgotten
  <1>2. \A e \in Calls : Forgets(e, t, h) => Forgets(e, t, h)'
    BY <1>1 DEF Forgets
  <1>3. Exact(t, h) => Exact(t, h)'
    BY ServesElsewhere DEF Exact
  <1> QED
    BY <1>1, <1>2, <1>3 DEF EntryFits

(* A step of handler c of tenant t: the resolutions in flight.             *)
LEMMA FreshFrame ==
  ASSUME CacheInv, NEW c \in Calls, NEW t \in Tenants, Aside(c, t), c \in Editing,
         c \notin Resolving', raced' = raced, \A s \in Tenants : s # t => row'[s] = row[s]
  PROVE  \A e \in Resolving' \ raced' : Fresh(e)'
  <1>0. TypeInv
    BY DEF CacheInv, RowInv
  <1>1. \A s \in Tenants : s # t => EditingOf(s)' = EditingOf(s)
    BY <1>0, AsideFacts
  <1> SUFFICES ASSUME NEW e \in Resolving', e \notin raced'
               PROVE  Fresh(e)'
    OBVIOUS
  <1>2. e # c /\ e \in Calls /\ call'[e] = call[e] /\ e \in Resolving \ raced
    BY DEF Aside, Resolving
  <1>3. Fresh(e)
    BY <1>2 DEF CacheInv
  <1>4. PICK s \in Tenants : s = call[e].tenant
    BY <1>3 DEF Fresh
  <1>5. s # t /\ EditingOf(s) = {}
    BY <1>3, <1>4 DEF Fresh, EditingOf, Aside
  <1>6. row'[s] = row[s] /\ EditingOf(s)' = EditingOf(s)
    BY <1>1, <1>5
  <1>7. PICK h \in Hosts : h = call[e].host
    BY <1>0, <1>2 DEF Resolving, TypeInv, CallSensible
  <1>8. Serves(s, h)' /\ call'[e].read = row'[s]
    BY <1>2, <1>3, <1>4, <1>6, <1>7, ServesElsewhere DEF Fresh
  <1> QED
    BY <1>2, <1>4, <1>5, <1>6, <1>7, <1>8 DEF Fresh

(* The resolutions, when the changes in flight stay the same.              *)
LEMMA FreshStays ==
  ASSUME TypeInv, NEW e \in Resolving, Fresh(e), call'[e] = call[e], row' = row,
         \A s \in Tenants : EditingOf(s)' = EditingOf(s) \/ s # call[e].tenant
  PROVE  Fresh(e)'
  <1>1. PICK s \in Tenants : s = call[e].tenant
    BY DEF Fresh
  <1>2. EditingOf(s)' = EditingOf(s) /\ EditingOf(s) = {} /\ row'[s] = row[s] /\ call[e].read = row[s]
    BY <1>1 DEF Fresh
  <1>3. PICK h \in Hosts : h = call[e].host
    BY DEF Resolving, TypeInv, CallSensible
  <1>4. Serves(s, h)'
    BY <1>1, <1>2, <1>3, ServesElsewhere DEF Fresh
  <1> QED
    BY <1>1, <1>2, <1>3, <1>4 DEF Fresh

(* A step of handler c of tenant t, none of the cache.                     *)
LEMMA CacheFrame ==
  ASSUME CacheInv, RowInv', NEW c \in Calls, NEW t \in Tenants, Aside(c, t), c \in Editing,
         c \notin Resolving', cache' = cache, raced' = raced, stale \subseteq stale',
         \A s \in Tenants : s # t => row'[s] = row[s],
         \A h \in Hosts \ stale' : EntryFits(t, h) => EntryFits(t, h)'
  PROVE  CacheInv'
  <1>0. TypeInv
    BY DEF CacheInv, RowInv
  <1>1. \A s \in Tenants : s # t =>
          EditingOf(s)' = EditingOf(s) /\ \A e \in EditingOf(s) : e \in Calls /\ call'[e] = call[e]
    BY <1>0, AsideFacts
  <1>2. ASSUME NEW h \in Hosts \ stale', cache'[h] # NoEntry
        PROVE  (cache[h].tenant \in Tenants /\ EntryFits(cache[h].tenant, h))'
    <2>1. PICK s \in Tenants : s = cache[h].tenant /\ EntryFits(s, h)
      BY <1>2 DEF CacheInv
    <2>2. EntryFits(s, h)'
      BY <1>1, <1>2, <2>1, EntryElsewhere
    <2> QED
      BY <2>1, <2>2
  <1>3. \A e \in Resolving' \ raced' : Fresh(e)'
    BY FreshFrame
  <1> QED
    BY <1>2, <1>3 DEF CacheInv

(* A handler that goes on or ends without having written: the entries of   *)
(* its tenant stay as they were.                                           *)
LEMMA EntryUnwritten ==
  ASSUME TypeInv, NEW c \in Calls, NEW t \in Tenants, Aside(c, t), NEW h \in Hosts,
         EntryFits(t, h), cache'[h] = cache[h], row'[t] = row[t],
         Forgets(c, t, h) => Forgets(c, t, h)',
         c \in EditingOf(t)' /\ call'[c].kind # "verify" =>
           c \in EditingOf(t) /\ call'[c].read = call[c].read /\ call[c].kind # "verify"
  PROVE  EntryFits(t, h)'
  <1>1. /\ \A e \in Calls : e # c => (e \in EditingOf(t)' <=> e \in EditingOf(t)) /\ call'[e] = call[e]
        /\ EditingOf(t) \subseteq Calls
    BY AsideFacts
  <1>2. EditingOf(t)' \subseteq Calls
    BY DEF EditingOf, Editing
  <1>3. CASE \E e \in Calls : Forgets(e, t, h)
    <2>1. PICK e \in Calls : Forgets(e, t, h)
      BY <1>3
    <2>2. Forgets(e, t, h)'
      BY <1>1, <2>1 DEF Forgets, Covers, Forfeits, Renames, Forgotten
    <2> QED
      BY <2>2 DEF EntryFits
  <1>4. CASE Exact(t, h) /\ \A e \in EditingOf(t) : call[e].kind # "verify" => Covers(e, t, h)
    <2>1. Exact(t, h)'
      BY <1>4, ServesElsewhere DEF Exact
    <2>2. \A e \in EditingOf(t)' : call'[e].kind # "verify" => Covers(e, t, h)'
      BY <1>1, <1>2, <1>4 DEF Covers
    <2> QED
      BY <2>1, <2>2 DEF EntryFits
  <1> QED
    BY <1>3, <1>4 DEF EntryFits

(* A handler that writes goes on to forget what was cached.                *)
LEMMA EntryWritten ==
  ASSUME TypeInv, NEW c \in Calls, NEW t \in Tenants, Aside(c, t), NEW h \in Hosts, EntryFits(t, h),
         Forgets(c, t, h) \/ (Exact(t, h) /\ (call[c].kind # "verify" => Covers(c, t, h))) => Forgets(c, t, h)',
         c \in EditingOf(t)
  PROVE  EntryFits(t, h)'
  <1>1. \A e \in Calls : e # c => (e \in EditingOf(t)' <=> e \in EditingOf(t)) /\ call'[e] = call[e]
    BY AsideFacts
  <1>2. CASE \E e \in Calls : Forgets(e, t, h)
    <2>1. PICK e \in Calls : Forgets(e, t, h)
      BY <1>2
    <2>2. Forgets(e, t, h)'
      BY <1>1, <2>1 DEF Forgets, Covers, Forfeits, Renames, Forgotten
    <2> QED
      BY <2>2 DEF EntryFits
  <1>3. CASE Exact(t, h) /\ \A e \in EditingOf(t) : call[e].kind # "verify" => Covers(e, t, h)
    BY <1>3 DEF EntryFits
  <1> QED
    BY <1>2, <1>3 DEF EntryFits

LEMMA CacheStep ==
  ASSUME CacheInv, [Next]_vars
  PROVE  CacheInv'
  <1>0. TypeInv /\ TypeOK /\ CallSensible /\ (\A t \in Tenants : RowOf(t)) /\ RowInv' /\ TypeInv'
        /\ raced \subseteq Resolving
    BY RowStep DEF CacheInv, RowInv, TypeInv, TypeOK
  <1>a. ASSUME NEW c \in Calls, call[c].kind \notin {"none", "resolve"}
        PROVE  call[c].tenant \in Tenants /\ c \in EditingOf(call[c].tenant) /\ c \in Editing
    BY <1>0, <1>a DEF CallSensible, EditingOf, Editing
  <1>b. ASSUME NEW c \in Calls, call'[c].kind \notin {"resolve"}
        PROVE  c \notin Resolving'
    BY <1>b DEF Resolving
  <1>1. ASSUME NEW c \in Calls, CheckDomain(c)
        PROVE  CacheInv'
    <2>1. /\ call[c].at = "check" /\ call[c].kind \in {"create", "settings", "admin"}
          /\ UNCHANGED <<row, cache, raced, stale>> /\ (Ends(c) \/ Goes(c, "reset") \/ Goes(c, "write"))
      BY <1>0, <1>1 DEF CheckDomain, CallSensible, history
    <2>2. PICK t \in Tenants : t = call[c].tenant /\ c \in EditingOf(t) /\ c \in Editing
      BY <1>a, <2>1
    <2>3. Aside(c, t)
      BY <1>0, <2>1, <2>2, EndsAside, GoesAside
    <2>4. c \notin Resolving'
      BY <1>0, <1>b, <2>1, EndsFacts, GoesFacts, RecordFacts
    <2>5. c \in EditingOf(t)' => call'[c].read = call[c].read
      BY <1>0, <2>1, <2>2, EndsAside, GoesFacts
    <2>6. \A h \in Hosts : ~Forgets(c, t, h)
      BY <2>1 DEF Forgets, Forfeits
    <2>7. ASSUME NEW h \in Hosts, EntryFits(t, h)
          PROVE  EntryFits(t, h)'
      BY <1>0, <2>1, <2>2, <2>3, <2>5, <2>6, <2>7, EntryUnwritten
    <2> QED
      BY <1>0, <2>1, <2>2, <2>3, <2>4, <2>7, CacheFrame
  <1>2. ASSUME NEW c \in Calls, ResetVerified(c)
        PROVE  CacheInv'
    <2>1. call[c].at = "reset" /\ call[c].kind = "admin" /\ Renames(c) /\ Goes(c, "write")
          /\ UNCHANGED <<cache, raced, stale>>
      BY <1>0, <1>2, ResetFacts DEF CallSensible, history
    <2>2. PICK t \in Tenants : t = call[c].tenant /\ c \in EditingOf(t) /\ c \in Editing
      BY <1>a, <2>1
    <2>3. \A s \in Tenants : s # t => row'[s] = row[s]
      BY <1>0, <1>2, <2>2, ResetFacts
    <2>4. Aside(c, t) /\ c \in EditingOf(t)'
      BY <1>0, <2>1, <2>2, GoesAside
    <2>5. call'[c].at = "write" /\ call'[c].kind = "admin" /\ call'[c].read = call[c].read
          /\ call'[c].want = call[c].want
      BY <1>0, <2>1, GoesFacts
    <2>6. c \notin Resolving'
      BY <1>b, <2>5
    <2>7. ASSUME NEW h \in Hosts, EntryFits(t, h)
          PROVE  EntryFits(t, h)'
      <3>1. ~Forgets(c, t, h)
        BY <2>1 DEF Forgets, Forfeits
      <3>2. Covers(c, t, h) => Forgets(c, t, h)'
        BY <2>1, <2>4, <2>5 DEF Covers, Forgets, Forfeits, Renames
      <3> QED
        BY <1>0, <2>1, <2>2, <2>4, <2>7, <3>1, <3>2, EntryWritten
    <2> QED
      BY <1>0, <2>1, <2>2, <2>3, <2>4, <2>6, <2>7, CacheFrame
  <1>3. ASSUME NEW c \in Calls, WriteTenant(c)
        PROVE  CacheInv'
    <2>1. /\ call[c].at = "write" /\ call[c].kind \in {"create", "settings", "admin"}
          /\ UNCHANGED <<cache, raced, stale>>
          /\ IF call[c].kind = "create" THEN Ends(c) ELSE Goes(c, "forget")
      BY <1>0, <1>3, WriteFacts
    <2>2. PICK t \in Tenants : t = call[c].tenant /\ c \in EditingOf(t) /\ c \in Editing
      BY <1>a, <2>1
    <2>3. \A s \in Tenants : s # t => row'[s] = row[s]
      BY <1>0, <1>3, <2>2, WriteFacts
    <2>4. Aside(c, t) /\ (call[c].kind # "create" => c \in EditingOf(t)')
      BY <1>0, <2>1, <2>2, EndsAside, GoesAside
    <2>5. c \notin Resolving'
      BY <1>0, <1>b, <2>1, EndsFacts, GoesFacts, RecordFacts
    <2>6. ASSUME NEW h \in Hosts, EntryFits(t, h)
          PROVE  EntryFits(t, h)'
      <3>1. CASE call[c].kind = "create"
        <4>1. ~row[t].exists /\ EditingOf(t) = {c}
          BY <1>0, <2>2, <3>1 DEF RowOf
        <4>2. ~Exact(t, h)
          BY <4>1 DEF Exact, Serves
        <4>3. \A e \in Calls : ~Forgets(e, t, h)
          BY <2>1, <3>1, <4>1 DEF Forgets, Forfeits
        <4> QED
          BY <2>6, <4>2, <4>3 DEF EntryFits
      <3>2. CASE call[c].kind # "create"
        <4>1. call'[c].at = "forget" /\ call'[c].kind = call[c].kind /\ call'[c].read = call[c].read
              /\ call'[c].tenant = t
          BY <1>0, <2>1, <2>2, <3>2, GoesFacts
        <4>2. Forgets(c, t, h) => Covers(c, t, h)
          BY <2>1 DEF Forgets
        <4>3. Covers(c, t, h) => Forgets(c, t, h)'
          BY <2>1, <2>4, <3>2, <4>1 DEF Covers, Forgets, Forgotten
        <4> QED
          BY <1>0, <2>1, <2>2, <2>4, <2>6, <4>2, <4>3, EntryWritten
      <3> QED
        BY <3>1, <3>2
    <2> QED
      BY <1>0, <2>1, <2>2, <2>3, <2>4, <2>5, <2>6, CacheFrame
  <1>4. ASSUME NEW c \in Calls, ChangeThrows(c)
        PROVE  CacheInv'
    <2>1. /\ call[c].at \in {"check", "reset", "write", "dns"} /\ Ends(c)
          /\ UNCHANGED <<row, cache, raced>> /\ stale \subseteq stale'
          /\ Forfeits(c) => {call[c].tenant} \cup Candidates(call[c].read.domain) \subseteq stale'
      BY <1>0, <1>4, ThrowFacts
    <2>2. PICK t \in Tenants : t = call[c].tenant /\ c \in EditingOf(t) /\ c \in Editing
      BY <1>0, <1>a, <2>1 DEF CallSensible
    <2>3. Aside(c, t) /\ c \notin EditingOf(t)'
      BY <1>0, <2>1, <2>2, EndsAside
    <2>4. c \notin Resolving'
      BY <1>0, <1>b, <2>1, EndsFacts, RecordFacts
    <2>5. ASSUME NEW h \in Hosts \ stale', EntryFits(t, h)
          PROVE  EntryFits(t, h)'
      <3>1. ~Forgets(c, t, h)
        BY <2>1, <2>2, <2>5 DEF Forgets, Covers
      <3> QED
        BY <1>0, <2>1, <2>3, <2>5, <3>1, EntryUnwritten
    <2> QED
      BY <1>0, <2>1, <2>2, <2>3, <2>4, <2>5, CacheFrame
  <1>5. ASSUME NEW c \in Calls, NEW found \in BOOLEAN, InspectDomainVerification(c, found)
        PROVE  CacheInv'
    <2>1. /\ call[c].at = "dns" /\ call[c].kind = "verify" /\ UNCHANGED <<row, cache, raced, stale>>
          /\ (Ends(c) \/ Goes(c, "forget") \/ Goes(c, "write"))
      BY <1>0, <1>5, InspectFacts DEF history
    <2>2. PICK t \in Tenants : t = call[c].tenant /\ c \in EditingOf(t) /\ c \in Editing
      BY <1>a, <2>1
    <2>3. Aside(c, t)
      BY <1>0, <2>1, <2>2, EndsAside, GoesAside
    <2>4. c \notin Resolving' /\ (c \in EditingOf(t)' => call'[c].kind = "verify")
      BY <1>0, <1>b, <2>1, <2>2, EndsFacts, EndsAside, GoesFacts, RecordFacts
    <2>5. \A h \in Hosts : ~Forgets(c, t, h)
      BY <2>1 DEF Forgets, Forfeits
    <2>6. ASSUME NEW h \in Hosts, EntryFits(t, h)
          PROVE  EntryFits(t, h)'
      BY <1>0, <2>1, <2>2, <2>3, <2>4, <2>5, <2>6, EntryUnwritten
    <2> QED
      BY <1>0, <2>1, <2>2, <2>3, <2>4, <2>6, CacheFrame
  <1>6. ASSUME NEW c \in Calls, MarkVerified(c)
        PROVE  CacheInv'
    <2>1. /\ call[c].at = "write" /\ call[c].kind = "verify" /\ UNCHANGED <<cache, raced, stale>>
      BY <1>0, <1>6, MarkFacts
    <2>2. PICK t \in Tenants : t = call[c].tenant /\ c \in EditingOf(t) /\ c \in Editing
      BY <1>a, <2>1
    <2>3. /\ call'[c].at = "forget" /\ call'[c].kind = "verify" /\ call'[c].tenant = t
          /\ call'[c].want = row[t].domain /\ \A d \in Calls : d # c => call'[d] = call[d]
          /\ \A s \in Tenants : s # t => row'[s] = row[s]
      BY <1>0, <1>6, <2>2, MarkFacts
    <2>4. Aside(c, t) /\ c \in EditingOf(t)'
      BY <2>2, <2>3 DEF Aside, EditingOf, Editing
    <2>5. c \notin Resolving'
      BY <1>b, <2>3
    <2>6. ASSUME NEW h \in Hosts, EntryFits(t, h)
          PROVE  EntryFits(t, h)'
      <3>1. ~Forgets(c, t, h)
        BY <2>1 DEF Forgets, Forfeits
      <3>2. Exact(t, h) => Forgets(c, t, h)'
        <4> SUFFICES ASSUME Exact(t, h)
                     PROVE  Forgets(c, t, h)'
          OBVIOUS
        <4>1. h \in {t} \cup Candidates(row[t].domain)
          BY DEF Exact, Serves
        <4>2. (h \in Forgotten(c))'
          BY <2>3, <4>1 DEF Forgotten
        <4> QED
          BY <2>3, <2>4, <4>2 DEF Forgets
      <3>3. Forgets(c, t, h) \/ (Exact(t, h) /\ (call[c].kind # "verify" => Covers(c, t, h)))
              => Forgets(c, t, h)'
        BY <3>1, <3>2
      <3> QED
        BY <1>0, <2>1, <2>2, <2>4, <2>6, <3>3, EntryWritten
    <2> QED
      BY <1>0, <2>1, <2>2, <2>3, <2>4, <2>5, <2>6, CacheFrame
  <1>7. ASSUME NEW c \in Calls, InvalidateCache(c)
        PROVE  CacheInv'
    <2>1. /\ call[c].at = "forget" /\ Ends(c) /\ UNCHANGED <<row, raced>>
          /\ \A h \in Hosts : cache'[h] = cache[h] \/ cache'[h] = NoEntry
          /\ \A h \in Hosts \ stale' : cache'[h] # NoEntry => h \notin stale /\ h \notin Forgotten(c)
      BY <1>0, <1>7, ForgetFacts
    <2>2. PICK t \in Tenants : t = call[c].tenant /\ c \in EditingOf(t) /\ c \in Editing
      BY <1>0, <1>a, <2>1 DEF CallSensible
    <2>3. Aside(c, t) /\ c \notin EditingOf(t)'
      BY <1>0, <2>1, <2>2, EndsAside
    <2>4. c \notin Resolving'
      BY <1>0, <1>b, <2>1, EndsFacts, RecordFacts
    <2>5. ASSUME NEW h \in Hosts \ stale', cache'[h] # NoEntry
          PROVE  (cache[h].tenant \in Tenants /\ EntryFits(cache[h].tenant, h))'
      <3>1. cache'[h] = cache[h] /\ h \notin stale /\ h \notin Forgotten(c)
        BY <2>1, <2>5
      <3>2. PICK s \in Tenants : s = cache[h].tenant /\ EntryFits(s, h)
        BY <2>5, <3>1 DEF CacheInv
      <3>3. s # t => EntryFits(s, h)'
        BY <1>0, <2>1, <2>3, <3>1, <3>2, AsideFacts, EntryElsewhere
      <3>4. ~Forgets(c, t, h)
        BY <2>1, <3>1 DEF Forgets, Forfeits
      <3>5. s = t => EntryFits(s, h)'
        BY <1>0, <2>1, <2>3, <3>1, <3>2, <3>4, EntryUnwritten
      <3> QED
        BY <3>1, <3>2, <3>3, <3>5
    <2>6. \A e \in Resolving' \ raced' : Fresh(e)'
      BY <2>1, <2>2, <2>3, <2>4, FreshFrame
    <2> QED
      BY <1>0, <2>5, <2>6 DEF CacheInv
  <1>8. ASSUME NEW c \in Calls, CacheTenant(c)
        PROVE  CacheInv'
    <2>1. /\ call[c].kind = "resolve" /\ Ends(c) /\ row' = row /\ raced' = raced \ {c}
          /\ \A h \in Hosts \ stale' :
               \/ cache'[h] = cache[h] /\ h \notin stale
               \/ /\ h = call[c].host /\ c \notin raced
                  /\ cache'[h] = [tenant |-> call[c].tenant, row |-> call[c].read]
      BY <1>0, <1>8, CacheFacts
    <2>2. call'[c] = IdleCall /\ \A d \in Calls : d # c => call'[d] = call[d]
      BY <1>0, <2>1, EndsFacts
    <2>3. \A s \in Tenants : EditingOf(s)' = EditingOf(s) /\ \A e \in EditingOf(s) : call'[e] = call[e]
      BY <2>1, <2>2, RecordFacts DEF EditingOf, Editing
    <2>4. ASSUME NEW h \in Hosts \ stale', cache'[h] # NoEntry
          PROVE  (cache[h].tenant \in Tenants /\ EntryFits(cache[h].tenant, h))'
      <3>1. CASE cache'[h] = cache[h] /\ h \notin stale
        <4>1. PICK s \in Tenants : s = cache[h].tenant /\ EntryFits(s, h)
          BY <2>4, <3>1 DEF CacheInv
        <4>2. EntryFits(s, h)'
          BY <2>1, <2>3, <3>1, <4>1, EntryElsewhere
        <4> QED
          BY <3>1, <4>1, <4>2
      <3>2. CASE /\ h = call[c].host /\ c \notin raced
                 /\ cache'[h] = [tenant |-> call[c].tenant, row |-> call[c].read]
        <4>1. Fresh(c)
          BY <2>1, <3>2 DEF CacheInv, Resolving
        <4>2. PICK s \in Tenants : s = call[c].tenant
          BY <4>1 DEF Fresh
        <4>3. cache'[h].tenant = s /\ cache'[h].row = row[s] /\ Serves(s, h) /\ EditingOf(s)' = {}
              /\ row'[s] = row[s]
          BY <2>1, <2>3, <3>2, <4>1, <4>2 DEF Fresh
        <4>4. Exact(s, h)'
          BY <4>3, ServesElsewhere DEF Exact
        <4>5. EntryFits(s, h)'
          BY <4>3, <4>4 DEF EntryFits
        <4> QED
          BY <4>3, <4>5
      <3> QED
        BY <2>1, <3>1, <3>2
    <2>5. ASSUME NEW e \in Resolving', e \notin raced'
          PROVE  Fresh(e)'
      <3>1. e # c /\ e \in Calls /\ call'[e] = call[e] /\ e \in Resolving \ raced
        BY <2>1, <2>2, <2>5, RecordFacts DEF Resolving
      <3>2. Fresh(e)
        BY <3>1 DEF CacheInv
      <3> QED
        BY <1>0, <2>1, <2>3, <3>1, <3>2, FreshStays
    <2> QED
      BY <1>0, <2>4, <2>5 DEF CacheInv
  <1>9. ASSUME NEW c \in Calls, NEW t \in Tenants, NEW kind \in {"create", "settings", "admin", "verify"},
               NEW want \in Domains \cup {NoDomain}, NEW on \in BOOLEAN, NEW at \in {"check", "dns"},
               Begins(c, kind, t, want, on, at), BeginsSensibly(kind, t, want, at)
        PROVE  CacheInv'
    <2>1. /\ row' = row /\ cache' = cache /\ stale' = stale /\ call[c] = IdleCall
          /\ call'[c].kind = kind /\ call'[c].tenant = t /\ call'[c].read = row[t]
          /\ \A d \in Calls : d # c => call'[d] = call[d]
          /\ \A e \in Resolving : e \in raced' <=> e \in raced \/ call[e].tenant = t
      BY <1>0, <1>9, BeginsFacts
    <2>2. Aside(c, t) /\ c \notin EditingOf(t) /\ c \notin Resolving /\ c \notin Resolving'
      BY <1>9, <2>1, RecordFacts DEF Aside, EditingOf, Editing, Resolving
    <2>3. /\ \A s \in Tenants : s # t => EditingOf(s)' = EditingOf(s) /\ \A e \in EditingOf(s) : call'[e] = call[e]
          /\ \A e \in Calls : e # c => (e \in EditingOf(t)' <=> e \in EditingOf(t)) /\ call'[e] = call[e]
      BY <1>0, <2>2, AsideFacts
    <2>4. ASSUME NEW h \in Hosts \ stale', cache'[h] # NoEntry
          PROVE  (cache[h].tenant \in Tenants /\ EntryFits(cache[h].tenant, h))'
      <3>1. PICK s \in Tenants : s = cache[h].tenant /\ EntryFits(s, h)
        BY <2>1, <2>4 DEF CacheInv
      <3>2. s # t => EntryFits(s, h)'
        BY <2>1, <2>3, <3>1, EntryElsewhere
      <3>3. ASSUME s = t
            PROVE  EntryFits(t, h)'
        <4>1. CASE \E e \in Calls : Forgets(e, t, h)
          <5>1. PICK e \in Calls : Forgets(e, t, h)
            BY <4>1
          <5>2. Forgets(e, t, h)'
            BY <2>2, <2>3, <5>1 DEF Forgets, Covers, Forfeits, Renames, Forgotten
          <5> QED
            BY <5>2 DEF EntryFits
        <4>2. CASE Exact(t, h) /\ \A e \in EditingOf(t) : call[e].kind # "verify" => Covers(e, t, h)
          <5>1. Exact(t, h)'
            BY <2>1, <4>2, ServesElsewhere DEF Exact
          <5>2. Covers(c, t, h)'
            BY <2>1, <4>2 DEF Exact, Serves, Covers
          <5>3. EditingOf(t)' \subseteq Calls
            BY DEF EditingOf, Editing
          <5>4. \A e \in EditingOf(t)' : call'[e].kind # "verify" => Covers(e, t, h)'
            BY <2>3, <4>2, <5>2, <5>3 DEF Covers
          <5> QED
            BY <5>1, <5>4 DEF EntryFits
        <4> QED
          BY <3>1, <3>3, <4>1, <4>2 DEF EntryFits
      <3> QED
        BY <2>1, <3>1, <3>2, <3>3
    <2>5. ASSUME NEW e \in Resolving', e \notin raced'
          PROVE  Fresh(e)'
      <3>1. e # c /\ e \in Calls /\ call'[e] = call[e] /\ e \in Resolving \ raced /\ call[e].tenant # t
        BY <2>1, <2>2, <2>5 DEF Resolving
      <3>2. Fresh(e)
        BY <3>1 DEF CacheInv
      <3> QED
        BY <1>0, <2>1, <2>3, <3>1, <3>2, FreshStays
    <2> QED
      BY <1>0, <2>4, <2>5 DEF CacheInv
  <1>10. ASSUME NEW c \in Calls, NEW h \in Hosts, ResolveFromHostname(c, h)
         PROVE  CacheInv'
    <2>1. /\ row' = row /\ cache' = cache /\ stale' = stale /\ call[c] = IdleCall
          /\ call'[c].kind = "resolve" /\ call'[c].host = h
          /\ call'[c].tenant \in Tenants /\ call'[c].read = row[call'[c].tenant] /\ Serves(call'[c].tenant, h)
          /\ \A d \in Calls : d # c => call'[d] = call[d]
          /\ raced \subseteq raced' /\ (EditingOf(call'[c].tenant) # {} => c \in raced')
      BY <1>0, <1>10, ResolveFacts
    <2>2. \A s \in Tenants : EditingOf(s)' = EditingOf(s) /\ \A e \in EditingOf(s) : call'[e] = call[e]
      BY <2>1, RecordFacts DEF EditingOf, Editing
    <2>3. ASSUME NEW g \in Hosts \ stale', cache'[g] # NoEntry
          PROVE  (cache[g].tenant \in Tenants /\ EntryFits(cache[g].tenant, g))'
      <3>1. PICK s \in Tenants : s = cache[g].tenant /\ EntryFits(s, g)
        BY <2>1, <2>3 DEF CacheInv
      <3>2. EntryFits(s, g)'
        BY <2>1, <2>2, <3>1, EntryElsewhere
      <3> QED
        BY <2>1, <3>1, <3>2
    <2>4. ASSUME NEW e \in Resolving', e \notin raced'
          PROVE  Fresh(e)'
      <3>1. CASE e = c
        <4>1. PICK s \in Tenants : s = call'[c].tenant
          BY <2>1
        <4>2. EditingOf(s)' = {} /\ row'[s] = row[s] /\ call'[c].read = row'[s]
          BY <2>1, <2>2, <2>4, <3>1, <4>1
        <4>3. Serves(s, h)'
          BY <2>1, <4>1, ServesElsewhere
        <4> QED
          BY <2>1, <3>1, <4>1, <4>2, <4>3 DEF Fresh
      <3>2. CASE e # c
        <4>1. e \in Calls /\ call'[e] = call[e] /\ e \in Resolving \ raced
          BY <2>1, <2>4, <3>2 DEF Resolving
        <4>2. Fresh(e)
          BY <4>1 DEF CacheInv
        <4> QED
          BY <1>0, <2>1, <2>2, <4>1, <4>2, FreshStays
      <3> QED
        BY <3>1, <3>2
    <2> QED
      BY <1>0, <2>3, <2>4 DEF CacheInv
  <1>11. ASSUME UNCHANGED <<row, call, raced>>,
                \A h \in Hosts \ stale' : cache'[h] = NoEntry \/ (cache'[h] = cache[h] /\ h \notin stale)
         PROVE  CacheInv'
    <2>1. \A s \in Tenants : EditingOf(s)' = EditingOf(s) /\ \A e \in EditingOf(s) : call'[e] = call[e]
      BY <1>11 DEF EditingOf, Editing
    <2>2. ASSUME NEW h \in Hosts \ stale', cache'[h] # NoEntry
          PROVE  (cache[h].tenant \in Tenants /\ EntryFits(cache[h].tenant, h))'
      <3>1. PICK s \in Tenants : s = cache[h].tenant /\ EntryFits(s, h)
        BY <1>11, <2>2 DEF CacheInv
      <3>2. EntryFits(s, h)'
        BY <1>11, <2>1, <2>2, <3>1, EntryElsewhere
      <3> QED
        BY <1>11, <2>2, <3>1, <3>2
    <2>3. ASSUME NEW e \in Resolving', e \notin raced'
          PROVE  Fresh(e)'
      <3>1. e \in Calls /\ call'[e] = call[e] /\ e \in Resolving \ raced
        BY <1>11, <2>3 DEF Resolving
      <3>2. Fresh(e)
        BY <3>1 DEF CacheInv
      <3> QED
        BY <1>0, <1>11, <2>1, <3>1, <3>2, FreshStays
    <2> QED
      BY <1>0, <2>2, <2>3 DEF CacheInv
  <1>12. ASSUME NEW h \in Hosts, Expire(h)
         PROVE  CacheInv'
    <2>1. cache' = [cache EXCEPT ![h] = NoEntry] /\ stale' = stale \ {h} /\ UNCHANGED <<row, call, raced>>
      BY <1>12 DEF Expire
    <2>2. \A g \in Hosts \ stale' : cache'[g] = NoEntry \/ (cache'[g] = cache[g] /\ g \notin stale)
      BY <1>0, <2>1 DEF TypeOK
    <2> QED
      BY <1>11, <2>1, <2>2
  <1>13. CASE UNCHANGED vars
    BY <1>11, <1>13 DEF vars, history
  <1>14. ASSUME NEW c \in Calls, CallStep(c)
         PROVE  CacheInv'
    BY <1>1, <1>2, <1>3, <1>4, <1>5, <1>6, <1>7, <1>8, <1>14 DEF CallStep
  <1>15. ASSUME NEW c \in Calls, NEW t \in Tenants, NEW want \in Domains \cup {NoDomain}, NEW on \in BOOLEAN,
                \/ BeginVerify(c, t) \/ BeginCreateTenant(c, t, want)
                \/ BeginSettings(c, t, want) \/ BeginUpdateTenant(c, t, want, on)
         PROVE  CacheInv'
    BY <1>0, <1>9, <1>15, BeginCases
  <1> QED
    BY <1>10, <1>12, <1>13, <1>14, <1>15 DEF Next

(* Once the changes of a tenant have ended no host name resolves to what   *)
(* it was before, but for the names the property leaves out.               *)
THEOREM CacheAgreement == Spec => []CacheAgrees
  <1>1. Init => CacheInv
    <2> SUFFICES ASSUME Init
                 PROVE  CacheInv
      OBVIOUS
    <2>1. RowInv
      BY RowInit
    <2>2. Resolving = {} /\ \A h \in Hosts : cache[h] = NoEntry
      BY RecordFacts DEF Init, Resolving
    <2> QED
      BY <2>1, <2>2 DEF CacheInv
  <1>2. CacheInv /\ [Next]_vars => CacheInv'
    BY CacheStep
  <1>3. CacheInv => CacheAgrees
    <2> SUFFICES ASSUME CacheInv, NEW h \in Hosts \ stale, cache[h] # NoEntry, EditingOf(cache[h].tenant) = {}
                 PROVE  cache[h] \in Answers(h)
      BY DEF CacheAgrees
    <2>1. PICK t \in Tenants : t = cache[h].tenant /\ EntryFits(t, h)
      BY DEF CacheInv
    <2>2. Exact(t, h)
      BY <2>1 DEF EntryFits, Forgets
    <2>3. cache[h] \in Entries
      BY DEF CacheInv, RowInv, TypeInv, TypeOK
    <2>4. cache[h] = [tenant |-> t, row |-> row[t]]
      BY <2>1, <2>2, <2>3 DEF Exact, Entries
    <2> QED
      BY <2>2, <2>4 DEF Exact, Answers
  <1> QED
    BY <1>1, <1>2, <1>3, PTL DEF Spec
=============================================================================
