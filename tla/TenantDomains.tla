--------------------------- MODULE TenantDomains ---------------------------
(***************************************************************************)
(* Custom domains of tenants (tenant.service.ts) and the resolver that     *)
(* finds the tenant a host name belongs to and caches it in the key-value  *)
(* store (tenant-resolver.service.ts, redis.service.ts).  A change reads   *)
(* the tenant, checks, writes and only then forgets the cached names; a    *)
(* verification asks the DNS between its read and its write; a resolution  *)
(* caches what it read a moment ago.                                       *)
(***************************************************************************)
EXTENDS Naturals, FiniteSets

CONSTANTS
    Tenants,  \* each with its own host name under the platform's
    Existing, \* those there at the start, with no custom domain
    Domains,  \* normalised custom domains
    Twin,     \* a domain with www. for one without, and back
    NoDomain, Nobody,
    Calls,    \* handlers in flight at a time
    MaxEdits  \* bound: changes made

ASSUME DomainAssumption ==
    /\ NoDomain \notin Domains /\ Nobody \notin Tenants
    /\ Tenants \cap Domains = {} /\ Existing \subseteq Tenants
    /\ Twin \in [Domains -> Domains]
    /\ MaxEdits \in Nat

VARIABLES
    row,    \* Tenant rows: customDomain, customDomainVerified, isActive
    cache,  \* tenant:host:{host}
    call,   \* handlers in flight
    proven, \* domains whose record was found since the tenant took them
    edits,
    overlapped, \* tenants a verification of which ran beside another change
    unmarked,   \* tenants whose domain a change that failed left unverified
    raced,      \* resolutions in flight that ran beside a change of their tenant
    stale       \* hosts a raced resolution cached or a failure did not forget

history == <<overlapped, unmarked, raced, stale>>
vars == <<row, cache, call, proven, edits, history>>

-----------------------------------------------------------------------------
Hosts == Tenants \cup Domains
Rows == [exists : BOOLEAN, domain : Domains \cup {NoDomain}, verified : BOOLEAN, active : BOOLEAN]
NoRow == [exists |-> FALSE, domain |-> NoDomain, verified |-> FALSE, active |-> FALSE]

Entries == [tenant : Tenants \cup {Nobody}, row : Rows]
NoEntry == [tenant |-> Nobody, row |-> NoRow]

(* read: the row as the handler read it; want, on: what it is to become.   *)
CallRecords ==
    [kind : {"none", "create", "settings", "admin", "verify", "resolve"},
     tenant : Tenants \cup {Nobody}, read : Rows, want : Domains \cup {NoDomain}, on : BOOLEAN,
     host : Hosts \cup {NoDomain}, at : {"idle", "check", "reset", "write", "dns", "forget", "cache"}]
IdleCall ==
    [kind |-> "none", tenant |-> Nobody, read |-> NoRow, want |-> NoDomain, on |-> FALSE,
     host |-> NoDomain, at |-> "idle"]

Init ==
    /\ row = [t \in Tenants |->
                IF t \in Existing THEN [NoRow EXCEPT !.exists = TRUE, !.active = TRUE] ELSE NoRow]
    /\ cache = [h \in Hosts |-> NoEntry]
    /\ call = [c \in Calls |-> IdleCall]
    /\ proven = [t \in Tenants |-> {}]
    /\ edits = 0
    /\ overlapped = {} /\ unmarked = {} /\ raced = {} /\ stale = {}

-----------------------------------------------------------------------------
Editing == {c \in Calls : call[c].kind \notin {"none", "resolve"}}
Resolving == {c \in Calls : call[c].kind = "resolve"}
EditingOf(t) == {c \in Editing : call[c].tenant = t}

(* buildCustomDomainCandidates                                             *)
Candidates(domain) == IF domain = NoDomain THEN {} ELSE {domain, Twin[domain]}

Taken_Verified(d, t) == \E s \in Tenants \ {t} : row[s].verified /\ row[s].domain = d
Taken(d, t) == d # NoDomain /\ \E s \in Tenants \ {t} : row[s].domain = d

Begins(c, kind, t, want, on, at) ==
    /\ call[c] = IdleCall /\ edits < MaxEdits
    /\ call' = [call EXCEPT ![c] =
                  [kind |-> kind, tenant |-> t, read |-> row[t], want |-> want, on |-> on,
                   host |-> NoDomain, at |-> at]]
    /\ edits' = edits + 1
    /\ overlapped' = overlapped \cup
                       {u \in {t} : \E e \in EditingOf(u) : "verify" \in {kind, call[e].kind}}
    /\ raced' = raced \cup {e \in Resolving : call[e].tenant = t}
    /\ UNCHANGED <<row, cache, proven, unmarked, stale>>

Goes(c, at) == call' = [call EXCEPT ![c].at = at]
Ends(c) == call' = [call EXCEPT ![c] = IdleCall]

-----------------------------------------------------------------------------
(* createTenant, updateOwnTenantSettings, updateTenant.  What the request  *)
(* leaves out is written back as it was read.                              *)

BeginCreateTenant(c, t, want) ==
    ~row[t].exists /\ EditingOf(t) = {} /\ Begins(c, "create", t, want, TRUE, "check")
BeginSettings(c, t, want) == row[t].exists /\ Begins(c, "settings", t, want, TRUE, "check")
BeginUpdateTenant(c, t, want, on) == row[t].exists /\ Begins(c, "admin", t, want, on, "check")

Renames(c) == call[c].want # call[c].read.domain

CheckDomain(c) ==
    /\ call[c].at = "check"
    /\ IF Renames(c) /\ Taken(call[c].want, call[c].tenant) THEN Ends(c)
       ELSE Goes(c, IF call[c].kind = "admin" /\ Renames(c) THEN "reset" ELSE "write")
    /\ UNCHANGED <<row, cache, proven, edits, history>>

(* updateTenant takes the verification back in an update of its own.       *)
ResetVerified(c) ==
    /\ call[c].at = "reset"
    /\ row' = [row EXCEPT ![call[c].tenant].verified = FALSE]
    /\ Goes(c, "write")
    /\ UNCHANGED <<cache, proven, edits, history>>

Written_KeepsVerified(c) ==
    LET old == row[call[c].tenant]
    IN [old EXCEPT !.exists = TRUE, !.domain = call[c].want,
                   !.active = IF call[c].kind = "settings" THEN @ ELSE call[c].on]
Written(c) ==
    LET old == row[call[c].tenant]
    IN [exists |-> TRUE, domain |-> call[c].want,
        verified |-> old.verified /\ ~(call[c].kind = "settings" /\ Renames(c)),
        active |-> IF call[c].kind = "settings" THEN old.active ELSE call[c].on]

WriteTenant(c) ==
    LET t == call[c].tenant
    IN /\ call[c].at = "write" /\ call[c].kind # "verify"
       /\ ~Taken(call[c].want, t)
       /\ row' = [row EXCEPT ![t] = Written(c)]
       /\ proven' = [proven EXCEPT ![t] = IF Renames(c) THEN {} ELSE @]
       /\ unmarked' = IF Renames(c) THEN unmarked \ {t} ELSE unmarked
       /\ IF call[c].kind = "create" THEN Ends(c) ELSE Goes(c, "forget")
       /\ UNCHANGED <<cache, edits, overlapped, raced, stale>>

(* A change ends before its write: the database fails, or the later of two *)
(* claims breaks the unique key of customDomain.  What updateTenant has    *)
(* taken back by then stays so, and the names stay cached.                 *)
Forfeits(c) == call[c].at = "write" /\ call[c].kind = "admin" /\ Renames(c)

ChangeThrows(c) ==
    LET t == call[c].tenant
    IN /\ call[c].at \in {"check", "reset", "write", "dns"}
       /\ unmarked' = IF Forfeits(c) \/ (call[c].at = "write" /\ call[c].kind = "verify")
                      THEN unmarked \cup {t} ELSE unmarked
       /\ stale' = IF Forfeits(c) THEN stale \cup {t} \cup Candidates(call[c].read.domain) ELSE stale
       /\ Ends(c)
       /\ UNCHANGED <<row, cache, proven, edits, overlapped, raced>>

-----------------------------------------------------------------------------
(* verifyOwnTenantCustomDomain                                             *)

BeginVerify(c, t) ==
    /\ row[t].exists /\ row[t].domain # NoDomain
    /\ Begins(c, "verify", t, row[t].domain, TRUE, "dns")

(* inspectDomainVerification: the DNS finds the tenant's record or not.    *)
InspectDomainVerification(c, found) ==
    /\ call[c].at = "dns"
    /\ IF found \/ call[c].read.verified
       THEN Goes(c, IF call[c].read.verified THEN "forget" ELSE "write")
       ELSE Ends(c)
    /\ proven' = IF found /\ row[call[c].tenant].domain = call[c].read.domain
                 THEN [proven EXCEPT ![call[c].tenant] = @ \cup {call[c].read.domain}] ELSE proven
    /\ UNCHANGED <<row, cache, edits, history>>

MarkVerified(c) ==
    /\ call[c].at = "write" /\ call[c].kind = "verify"
    /\ row' = [row EXCEPT ![call[c].tenant].verified = TRUE]
    /\ call' = [call EXCEPT ![c].at = "forget", ![c].want = row[call[c].tenant].domain]
    /\ unmarked' = unmarked \ {call[c].tenant}
    /\ UNCHANGED <<cache, proven, edits, overlapped, raced, stale>>

-----------------------------------------------------------------------------
(* The resolver                                                            *)

(* invalidateCache: a name that cannot be deleted stays, without an error, *)
(* and all of them do when the handler fails or dies before.               *)
Forgotten_New(c) == {call[c].tenant} \cup Candidates(call[c].want)
Forgotten(c) ==
    {call[c].tenant} \cup Candidates(call[c].want)
        \cup IF call[c].kind = "verify" THEN {} ELSE Candidates(call[c].read.domain)

InvalidateCache(c) ==
    /\ call[c].at = "forget"
    /\ \E kept \in SUBSET Forgotten(c) :
          /\ cache' = [h \in Hosts |-> IF h \in Forgotten(c) \ kept THEN NoEntry ELSE cache[h]]
          /\ stale' = (stale \ Forgotten(c)) \cup kept
    /\ Ends(c)
    /\ UNCHANGED <<row, proven, edits, overlapped, unmarked, raced>>

Serves(t, h) ==
    /\ row[t].exists /\ row[t].active
    /\ h = t \/ (row[t].verified /\ h \in Candidates(row[t].domain))

Answers(h) == {[tenant |-> t, row |-> row[t]] : t \in {s \in Tenants : Serves(s, h)}}

(* The name is not cached, or the store cannot be read.                    *)
ResolveFromHostname(c, h) ==
    /\ call[c] = IdleCall
    /\ \E answer \in Answers(h) :
          /\ call' = [call EXCEPT ![c] =
                        [IdleCall EXCEPT !.kind = "resolve", !.host = h, !.at = "cache",
                                         !.tenant = answer.tenant, !.read = answer.row]]
          /\ raced' = IF EditingOf(answer.tenant) = {} THEN raced ELSE raced \cup {c}
    /\ UNCHANGED <<row, cache, proven, edits, overlapped, unmarked, stale>>

CacheTenant(c) ==
    /\ call[c].at = "cache"
    /\ \/ /\ cache' = [cache EXCEPT ![call[c].host] = [tenant |-> call[c].tenant, row |-> call[c].read]]
          /\ stale' = IF c \in raced THEN stale \cup {call[c].host} ELSE stale \ {call[c].host}
       \/ UNCHANGED <<cache, stale>>
    /\ raced' = raced \ {c}
    /\ Ends(c)
    /\ UNCHANGED <<row, proven, edits, overlapped, unmarked>>

(* get does not find a row whose expiresAt has passed.                     *)
Expire(h) ==
    /\ cache[h] # NoEntry
    /\ cache' = [cache EXCEPT ![h] = NoEntry]
    /\ stale' = stale \ {h}
    /\ UNCHANGED <<row, call, proven, edits, overlapped, unmarked, raced>>

-----------------------------------------------------------------------------
CallStep(c) ==
    \/ CheckDomain(c) \/ ResetVerified(c) \/ WriteTenant(c) \/ ChangeThrows(c)
    \/ \E found \in BOOLEAN : InspectDomainVerification(c, found)
    \/ MarkVerified(c) \/ InvalidateCache(c) \/ CacheTenant(c)

Next ==
    \/ \E c \in Calls :
          \/ CallStep(c)
          \/ \E t \in Tenants :
                \/ BeginVerify(c, t)
                \/ \E want \in Domains \cup {NoDomain} :
                      \/ BeginCreateTenant(c, t, want) \/ BeginSettings(c, t, want)
                      \/ \E on \in BOOLEAN : BeginUpdateTenant(c, t, want, on)
          \/ \E h \in Hosts : ResolveFromHostname(c, h)
    \/ \E h \in Hosts : Expire(h)

Spec == Init /\ [][Next]_vars

-----------------------------------------------------------------------------
(* Rows, cache and handlers are well formed, and a domain has one tenant   *)
(* (the unique key of customDomain).                                       *)
TypeOK ==
    /\ row \in [Tenants -> Rows]
    /\ cache \in [Hosts -> Entries]
    /\ call \in [Calls -> CallRecords]
    /\ proven \in [Tenants -> SUBSET Domains]
    /\ edits \in 0 .. MaxEdits
    /\ overlapped \subseteq Tenants /\ unmarked \subseteq Tenants
    /\ raced \subseteq Resolving /\ stale \subseteq Hosts
    /\ \A s, t \in Tenants : row[s].domain = row[t].domain /\ row[s].domain # NoDomain => s = t

(* A domain is verified only if its record was found since the tenant took *)
(* it, through any changes, claims by others and failures; and one that    *)
(* was found stays verified once its tenant's changes have ended, unless   *)
(* the last of them failed after it took the verification back, or at      *)
(* marking it.  A tenant is left out for good when a verification of it    *)
(* ran beside another of its changes: verifyOwnTenantCustomDomain marks by *)
(* id what it read before it asked the DNS.                                *)
VerifiedIsProven ==
    \A t \in Tenants \ overlapped :
        /\ row[t].verified => row[t].domain \in proven[t]
        /\ EditingOf(t) = {} /\ t \notin unmarked =>
              (row[t].domain \in proven[t] => row[t].verified)

(* Once the changes of a tenant have ended no host name is resolved to     *)
(* what it was before, with or without www., however they overlapped and   *)
(* whatever other tenants do.  A name is left out, until it expires, is    *)
(* forgotten or is cached anew, when a resolution that ran beside a change *)
(* of its tenant cached it, when it could not be deleted, or when          *)
(* updateTenant failed after it took the verification back, for then       *)
(* nothing is forgotten.                                                   *)
CacheAgrees ==
    \A h \in Hosts \ stale :
        cache[h] # NoEntry /\ EditingOf(cache[h].tenant) = {} => cache[h] \in Answers(h)
=============================================================================
