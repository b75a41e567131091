---------------------------- MODULE OrderUploads ----------------------------
(***************************************************************************)
(* Documents uploaded for an order or a dispute (orders.service.ts,        *)
(* orders-upload-janitor.service.ts, create-order-modal.tsx).  A form      *)
(* uploads its document, which is stored and staged in a row; the order    *)
(* attaches the row; a form whose order is refused asks for a cleanup, as  *)
(* the handler of the refused order does itself; and a janitor removes     *)
(* what stays staged beyond its time.  Storage and database are written    *)
(* one after the other, so every handler is several steps.                 *)
(***************************************************************************)
EXTENDS Naturals, Sequences, FiniteSets

CONSTANTS
    Uploads,     \* documents, each of one form
    Calls,       \* handlers that may be in flight at a time
    BatchSize,   \* ORDER_UPLOAD_JANITOR_BATCH_SIZE
    Allowed,     \* the sets of perils a document may be under
    NoDoc

(* What may happen to a document: its form gives up on a request that is   *)
(* still running, submits after the staging time, or submits the document  *)
(* again; storage refuses to delete it.                                    *)
Perils == {"impatient", "slow", "again", "stuck"}

ASSUME UploadAssumption ==
    /\ NoDoc \notin Uploads
    /\ BatchSize \in Nat \ {0}
    /\ Allowed \subseteq SUBSET Perils

VARIABLES
    row,      \* UploadedOrderFile.state of each document
    blob,     \* documents in storage
    rows,     \* documents with a row, by expiresAt
    expired,  \* how many of rows have passed expiresAt
    referred, \* documents an order or dispute points to
    form,     \* what the web client is at
    call,     \* handlers in flight
    janitor,  \* cleanupStaleUploads: step and uploads still to do
    due,      \* the interval since lastCleanupAt has passed
    perils

vars == <<row, blob, rows, expired, referred, form, call, janitor, due, perils>>
files == <<row, blob, rows, referred>>

-----------------------------------------------------------------------------
States == {"NONE", "STAGED", "ATTACHED", "DELETED"}
Forms == {"new", "uploading", "ready", "sent", "failed", "closed"}
Kinds == {"idle", "upload", "order", "cleanup"}
Steps == {"idle", "store", "insert", "undo", "commit", "find", "erase", "mark"}
IdleCall == [kind |-> "idle", doc |-> NoDoc, at |-> "idle"]
CallRecords == [kind : Kinds, doc : Uploads \cup {NoDoc}, at : Steps]
Resting == [at |-> "idle", todo |-> {}]

Init ==
    /\ row = [d \in Uploads |-> "NONE"]
    /\ blob = {}
    /\ rows = << >>
    /\ expired = 0
    /\ referred = {}
    /\ form = [d \in Uploads |-> "new"]
    /\ call = [c \in Calls |-> IdleCall]
    /\ janitor = Resting
    /\ due = FALSE
    /\ perils \in [Uploads -> Allowed]

-----------------------------------------------------------------------------
(* A request arrives at a free handler; a handler goes on, or answers.     *)

Arrives(c, kind, d, at) ==
    /\ call[c].kind = "idle"
    /\ call' = [call EXCEPT ![c] = [kind |-> kind, doc |-> d, at |-> at]]

Does(c, kind, at) == call[c].kind = kind /\ call[c].at = at
Goes(c, at) == call' = [call EXCEPT ![c].at = at]

(* A form whose upload fails has nothing to clean up.                      *)
After(waiting, success) ==
    CASE waiting = "uploading" -> IF success THEN "ready" ELSE "closed"
      [] waiting = "sent" -> IF success THEN "closed" ELSE "failed"
      [] OTHER -> waiting

(* The answer may get lost, or find a form that has stopped listening.     *)
Answers(c, success) ==
    /\ call' = [call EXCEPT ![c] = IdleCall]
    /\ \E seen \in {success, FALSE} :
         form' = [form EXCEPT ![call[c].doc] = After(@, seen)]

Deletable(d) == "stuck" \notin perils[d]

-----------------------------------------------------------------------------
(* maybeCleanupStaleUploads: neither twice at once nor within the interval *)

MaybeCleanupStaleUploads ==
    IF janitor.at = "idle" /\ due
    THEN janitor' = [Resting EXCEPT !.at = "find"] /\ due' = FALSE
    ELSE UNCHANGED <<janitor, due>>

ScheduledCleanup ==
    /\ MaybeCleanupStaleUploads
    /\ UNCHANGED <<files, expired, form, call, perils>>

-----------------------------------------------------------------------------
(* uploadRequesterDocuments: storage first, then the row; the blob is      *)
(* removed again when the row cannot be written.                           *)

UploadOrderFiles(c, d) ==
    /\ form[d] = "new"
    /\ Arrives(c, "upload", d, "store")
    /\ form' = [form EXCEPT ![d] = "uploading"]
    /\ UNCHANGED <<files, expired, janitor, due, perils>>

StoreFile(c) ==
    /\ Does(c, "upload", "store")
    /\ blob' = blob \cup {call[c].doc}
    /\ Goes(c, "insert")
    /\ UNCHANGED <<row, rows, referred, expired, form, janitor, due, perils>>

(* The file, or another of the same request, could not be stored.          *)
StoreFails(c) ==
    /\ Does(c, "upload", "store")
    /\ blob' \in {blob, blob \cup {call[c].doc}}
    /\ Answers(c, FALSE)
    /\ UNCHANGED <<row, rows, referred, expired, janitor, due, perils>>

InsertRow(c) ==
    LET d == call[c].doc IN
    /\ Does(c, "upload", "insert")
    /\ row' = [row EXCEPT ![d] = "STAGED"]
    /\ rows' = Append(rows, d)
    /\ MaybeCleanupStaleUploads
    /\ Answers(c, TRUE)
    /\ UNCHANGED <<blob, referred, expired, perils>>

InsertFails(c) ==
    /\ Does(c, "upload", "insert")
    /\ Goes(c, "undo")
    /\ UNCHANGED <<files, expired, form, janitor, due, perils>>

UndoUpload(c) ==
    LET d == call[c].doc IN
    /\ Does(c, "upload", "undo")
    /\ blob' = IF Deletable(d) THEN blob \ {d} ELSE blob
    /\ Answers(c, FALSE)
    /\ UNCHANGED <<row, rows, referred, expired, janitor, due, perils>>

-----------------------------------------------------------------------------
(* createOrder and createDispute.  The attached row is looked for by its   *)
(* state, and that one was found is not checked.                           *)

Submit(c, d) ==
    /\ form[d] \in {"ready"} \cup (IF "again" \in perils[d] THEN {"failed"} ELSE {})
    /\ Arrives(c, "order", d, "commit")
    /\ form' = [form EXCEPT ![d] = "sent"]
    /\ UNCHANGED <<files, expired, janitor, due, perils>>

CommitOrder(c) ==
    LET d == call[c].doc IN
    /\ Does(c, "order", "commit")
    /\ row' = [row EXCEPT ![d] = IF @ = "STAGED" THEN "ATTACHED" ELSE @]
    /\ referred' = referred \cup {d}
    /\ Answers(c, TRUE)
    /\ UNCHANGED <<blob, rows, expired, janitor, due, perils>>

(* The service is an automated one: createAutomatedOrder keeps no document, *)
(* and its failures do not reach the cleanup, as its promise is returned   *)
(* and not awaited.                                                        *)
CommitAutomated(c) ==
    /\ Does(c, "order", "commit")
    /\ \E success \in BOOLEAN : Answers(c, success)
    /\ UNCHANGED <<files, expired, janitor, due, perils>>

OrderRefused(c) ==
    /\ Does(c, "order", "commit")
    /\ Goes(c, "find")
    /\ UNCHANGED <<files, expired, form, janitor, due, perils>>

-----------------------------------------------------------------------------
(* cleanupUploadedOrderFiles, by the form or by the handler that refused   *)

CleanupOrderUploads(c, d) ==
    /\ form[d] = "failed"
    /\ Arrives(c, "cleanup", d, "find")
    /\ form' = [form EXCEPT ![d] = "closed"]
    /\ UNCHANGED <<files, expired, janitor, due, perils>>

Eligible_Any(d) == row[d] # "NONE"
Eligible(d) == row[d] = "STAGED"

FindStaged(c) ==
    /\ call[c].at = "find"
    /\ IF Eligible(call[c].doc)
       THEN Goes(c, "erase") /\ UNCHANGED form
       ELSE Answers(c, FALSE)
    /\ UNCHANGED <<files, expired, janitor, due, perils>>

EraseFile(c) ==
    LET d == call[c].doc IN
    /\ call[c].at = "erase"
    /\ blob' = IF Deletable(d) THEN blob \ {d} ELSE blob
    /\ Goes(c, "mark")
    /\ UNCHANGED <<row, rows, referred, expired, form, janitor, due, perils>>

MarkDeleted(c) ==
    /\ call[c].at = "mark"
    /\ row' = [row EXCEPT ![call[c].doc] = "DELETED"]
    /\ Answers(c, FALSE)
    /\ UNCHANGED <<blob, rows, referred, expired, janitor, due, perils>>

-----------------------------------------------------------------------------
(* cleanupStaleUploads: the oldest expired rows, one after the other; an   *)
(* error leaves the row as it is and goes on with the next.                *)

Earlier(e, d) == \E i, j \in 1..Len(rows) : i < j /\ rows[i] = e /\ rows[j] = d
Stale == {d \in Uploads : row[d] = "STAGED" /\ \E i \in 1..expired : rows[i] = d}
FirstOf(docs, n) == {d \in docs : Cardinality({e \in docs : Earlier(e, d)}) < n}
Onward_Empty(todo) == [at |-> "erase", todo |-> todo]
Onward(todo) == [at |-> IF todo = {} THEN "idle" ELSE "erase", todo |-> todo]
IsNext(d) == d \in janitor.todo /\ \A e \in janitor.todo : ~Earlier(e, d)

FindStale ==
    /\ janitor.at = "find"
    /\ janitor' = Onward(FirstOf(Stale, BatchSize))
    /\ UNCHANGED <<files, expired, form, call, due, perils>>

(* The query fails, and the interval begins anew all the same.             *)
FindStaleFails ==
    /\ janitor.at = "find"
    /\ janitor' = Resting
    /\ UNCHANGED <<files, expired, form, call, due, perils>>

EraseStale_Stops ==
    /\ janitor.at = "erase"
    /\ \E d \in Uploads :
          /\ IsNext(d)
          /\ IF Deletable(d)
             THEN blob' = blob \ {d} /\ janitor' = [janitor EXCEPT !.at = "mark"]
             ELSE UNCHANGED blob /\ janitor' = Resting
    /\ UNCHANGED <<row, rows, referred, expired, form, call, due, perils>>

EraseStale ==
    /\ janitor.at = "erase"
    /\ \E d \in Uploads :
          /\ IsNext(d)
          /\ IF Deletable(d)
             THEN blob' = blob \ {d} /\ janitor' = [janitor EXCEPT !.at = "mark"]
             ELSE UNCHANGED blob /\ janitor' = Onward(janitor.todo \ {d})
    /\ UNCHANGED <<row, rows, referred, expired, form, call, due, perils>>

MarkStale ==
    /\ janitor.at = "mark"
    /\ \E d \in Uploads :
          /\ IsNext(d)
          /\ row' = [row EXCEPT ![d] = "DELETED"]
          /\ janitor' = Onward(janitor.todo \ {d})
    /\ UNCHANGED <<blob, rows, referred, expired, form, call, due, perils>>

MarkStaleFails ==
    /\ janitor.at = "mark"
    /\ \E d \in Uploads : IsNext(d) /\ janitor' = Onward(janitor.todo \ {d})
    /\ UNCHANGED <<files, expired, form, call, due, perils>>

-----------------------------------------------------------------------------
(* Time, users and failures                                                *)

(* A form that is not slow submits within ORDER_UPLOAD_STAGING_TTL_MS, and *)
(* has its answer by then.                                                 *)
Expire ==
    /\ expired < Len(rows)
    /\ LET d == rows[expired + 1] IN
         "slow" \in perils[d] \/ form[d] \notin {"uploading", "ready", "sent"}
    /\ expired' = expired + 1
    /\ UNCHANGED <<files, form, call, janitor, due, perils>>

IntervalPasses ==
    /\ ~due
    /\ due' = TRUE
    /\ UNCHANGED <<files, expired, form, call, janitor, perils>>

Abandon(d) ==
    /\ form[d] \in {"ready", "failed"}
    /\ form' = [form EXCEPT ![d] = "closed"]
    /\ UNCHANGED <<files, expired, call, janitor, due, perils>>

GiveUp(d) ==
    /\ "impatient" \in perils[d] /\ form[d] \in {"uploading", "sent"}
    /\ form' = [form EXCEPT ![d] = After(@, FALSE)]
    /\ UNCHANGED <<files, expired, call, janitor, due, perils>>

(* A query of a cleanup fails.                                             *)
QueryFails(c) ==
    /\ call[c].at \in {"find", "mark"}
    /\ Answers(c, FALSE)
    /\ UNCHANGED <<files, expired, janitor, due, perils>>

(* lastCleanupAt starts at the time of the start.                          *)
Restart ==
    /\ call' = [c \in Calls |-> IdleCall]
    /\ form' = [d \in Uploads |-> IF form[d] \in {"uploading", "sent"}
                                   THEN After(form[d], FALSE) ELSE form[d]]
    /\ janitor' = Resting
    /\ due' = FALSE
    /\ UNCHANGED <<files, expired, perils>>

-----------------------------------------------------------------------------
HandlerStep(c) ==
    \/ StoreFile(c) \/ StoreFails(c) \/ InsertRow(c) \/ InsertFails(c) \/ UndoUpload(c)
    \/ CommitOrder(c) \/ CommitAutomated(c) \/ OrderRefused(c)
    \/ FindStaged(c) \/ EraseFile(c) \/ MarkDeleted(c)
    \/ QueryFails(c)

JanitorStep == FindStale \/ FindStaleFails \/ EraseStale \/ MarkStale \/ MarkStaleFails

Next ==
    \/ \E c \in Calls :
         \/ HandlerStep(c)
         \/ \E d \in Uploads :
              UploadOrderFiles(c, d) \/ Submit(c, d) \/ CleanupOrderUploads(c, d)
    \/ \E d \in Uploads : Abandon(d) \/ GiveUp(d)
    \/ JanitorStep \/ ScheduledCleanup
    \/ Expire \/ IntervalPasses \/ Restart

Spec == Init /\ [][Next]_vars

(* Handlers go on while the process runs, users end what they began, time  *)
(* passes for a form that tries over and over, and the write that marks a  *)
(* row does not fail for ever.  Nothing is assumed of the cron: a machine  *)
(* that is suspended misses its slots, and every start begins the interval *)
(* anew, so a process that restarts often may never clean up.              *)
FairSpec ==
    /\ Spec
    /\ \A c \in Calls : WF_vars(HandlerStep(c))
    /\ \A d \in Uploads : WF_vars(Abandon(d))
    /\ SF_vars(MarkStale) /\ SF_vars(Expire)

-----------------------------------------------------------------------------
(* Rows, forms and handlers are well formed, and the janitor is at a       *)
(* document only while it has one left.                                    *)
TypeOK ==
    /\ row \in [Uploads -> States]
    /\ blob \subseteq Uploads
    /\ rows \in Seq(Uploads)
    /\ expired \in 0..Len(rows)
    /\ referred \subseteq Uploads
    /\ form \in [Uploads -> Forms]
    /\ call \in [Calls -> CallRecords]
    /\ janitor \in [at : {"idle", "find", "erase", "mark"}, todo : SUBSET Uploads]
    /\ janitor.at \in {"erase", "mark"} => janitor.todo # {}
    /\ due \in BOOLEAN
    /\ perils \in [Uploads -> SUBSET Perils]

(* A document an order points to is in storage and its row is attached,    *)
(* through refusals, lost answers, cleanups of the form and of the         *)
(* handler, janitor and restarts, unless its form submitted it late,       *)
(* twice, or asked for a cleanup while the order was still being created.  *)
ReferredIsKept ==
    \A d \in referred :
        perils[d] \cap {"impatient", "slow", "again"} = {} =>
            d \in blob /\ row[d] = "ATTACHED"

(* If cleanups keep coming to their end, by the cron or with an upload,    *)
(* whatever else fails and however often the process restarts, what no     *)
(* order took is removed in the end, as long as fewer documents than the   *)
(* janitor takes at a time cannot be deleted: these stay the oldest and    *)
(* are taken first every time.                                             *)
CleanupEnds ==
    /\ FindStale \/ EraseStale \/ MarkStale \/ MarkStaleFails
    /\ janitor'.at = "idle"

StuckFew == Cardinality({d \in Uploads : ~Deletable(d)}) < BatchSize
StagedIsRemoved ==
    []<><<CleanupEnds>>_vars =>
        \A d \in Uploads :
            (row[d] = "STAGED" /\ Deletable(d) /\ StuckFew) ~> row[d] # "STAGED"

=============================================================================
