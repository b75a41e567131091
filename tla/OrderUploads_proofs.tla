-------------------------- MODULE OrderUploads_proofs --------------------------
(***************************************************************************)
(* Theorems about OrderUploads, for any documents, handlers in flight,     *)
(* batch size and sets of perils.                                          *)
(***************************************************************************)
EXTENDS OrderUploads, SequenceTheorems, TLAPS

-----------------------------------------------------------------------------
(* Types.                                                                  *)

(* What a handler in flight is about.                                      *)
CallSensible ==
  \A c \in Calls :
    /\ call[c].kind = "idle" <=> call[c].at = "idle"
    /\ call[c].kind # "idle" => call[c].doc \in Uploads
    /\ call[c].kind = "upload" <=> call[c].at \in {"store", "insert", "undo"}
    /\ call[c].at = "commit" => call[c].kind = "order"

TypeInv == TypeOK /\ CallSensible

-----------------------------------------------------------------------------
(* Documents no peril of their form threatens.                             *)
Calm == {d \in Uploads : perils[d] \cap {"impatient", "slow", "again"} = {}}
Done == {"closed", "failed"}

(* Its handler tells where its form is, and it has one handler at a time.  *)
Phases ==
  \A c \in Calls : call[c].doc \in Calm =>
    /\ call[c].kind = "upload" => form[call[c].doc] = "uploading"
    /\ call[c].kind = "order" => form[call[c].doc] = "sent"
    /\ call[c].kind = "cleanup" => form[call[c].doc] = "closed"

OneCall ==
  \A c, e \in Calls :
    c # e /\ call[c].doc = call[e].doc /\ call[c].doc \in Calm /\ call[c].kind # "idle"
      => call[e].kind = "idle"

(* The janitor only has to do with forms that are done, and not with what  *)
(* an order took.                                                          *)
Begun == \A i \in 1 .. Len(rows) : rows[i] \in Calm => form[rows[i]] # "new"
ExpiredDone == \A i \in 1 .. expired : rows[i] \in Calm => form[rows[i]] \in Done
TodoDone == \A d \in janitor.todo : d \in Calm => form[d] \in Done /\ d \notin referred

(* What a form may submit, or an order is about to take, is staged and in  *)
(* storage.                                                                *)
Stored == \A c \in Calls : call[c].at = "insert" /\ call[c].doc \in Calm => call[c].doc \in blob
Staged ==
  \A d \in Uploads : d \in Calm /\ form[d] = "ready" => row[d] = "STAGED" /\ d \in blob
Taken ==
  \A c \in Calls : call[c].at = "commit" /\ call[c].doc \in Calm =>
    row[call[c].doc] = "STAGED" /\ call[c].doc \in blob
Kept ==
  \A d \in referred : d \in Calm =>
    /\ d \in blob /\ row[d] = "ATTACHED" /\ form[d] \in Done
    /\ \A c \in Calls : call[c].doc = d => call[c].at \notin {"erase", "mark"}

CallInv == Phases /\ OneCall
JanitorInv == Begun /\ ExpiredDone /\ TodoDone
FileInv == Stored /\ Staged /\ Taken /\ Kept
KeepInv == TypeInv /\ CallInv /\ JanitorInv /\ FileInv

-----------------------------------------------------------------------------
(* A request arrives, a handler goes on, and it answers.                   *)
LEMMA IdleFacts ==
  IdleCall \in CallRecords /\ IdleCall.kind = "idle" /\ IdleCall.at = "idle" /\ IdleCall.doc = NoDoc
  BY DEF IdleCall, CallRecords, Kinds, Steps

LEMMA AfterFacts ==
  ASSUME NEW f \in Forms, NEW success \in BOOLEAN
  PROVE  /\ After(f, success) \in Forms
         /\ f \notin {"uploading", "sent"} => After(f, success) = f
         /\ f = "uploading" => After(f, success) = IF success THEN "ready" ELSE "closed"
         /\ f = "sent" => After(f, success) = IF success THEN "closed" ELSE "failed"
  BY DEF After, Forms

LEMMA ArrivesFacts ==
  ASSUME TypeInv, NEW c \in Calls, NEW kind \in Kinds, NEW d \in Uploads, NEW at \in Steps,
         Arrives(c, kind, d, at)
  PROVE  /\ call' \in [Calls -> CallRecords] /\ call[c].kind = "idle"
         /\ call'[c].kind = kind /\ call'[c].doc = d /\ call'[c].at = at
         /\ \A e \in Calls : e # c => call'[e] = call[e]
  <1>1. [kind |-> kind, doc |-> d, at |-> at] \in CallRecords
    BY DEF CallRecords
  <1> QED
    BY <1>1 DEF Arrives, TypeInv, TypeOK

LEMMA GoesFacts ==
  ASSUME TypeInv, NEW c \in Calls, NEW at \in Steps, Goes(c, at)
  PROVE  /\ call' \in [Calls -> CallRecords]
         /\ call'[c].kind = call[c].kind /\ call'[c].doc = call[c].doc /\ call'[c].at = at
         /\ \A e \in Calls : e # c => call'[e] = call[e]
  BY DEF Goes, TypeInv, TypeOK, CallRecords

LEMMA AnswersFacts ==
  ASSUME TypeInv, NEW c \in Calls, NEW success \in BOOLEAN, Answers(c, success)
  PROVE  /\ call' \in [Calls -> CallRecords] /\ form' \in [Uploads -> Forms]
         /\ call'[c] = IdleCall
         /\ \A e \in Calls : e # c => call'[e] = call[e]
         /\ \A d \in Uploads : d # call[c].doc => form'[d] = form[d]
         /\ call[c].doc \in Uploads =>
              form'[call[c].doc] \in {After(form[call[c].doc], success), After(form[call[c].doc], FALSE)}
  <1>1. PICK seen \in {success, FALSE} : form' = [form EXCEPT ![call[c].doc] = After(@, seen)]
    BY DEF Answers
  <1>2. call[c].doc \in Uploads => After(form[call[c].doc], seen) \in Forms
    BY AfterFacts DEF TypeInv, TypeOK
  <1>3. call' = [call EXCEPT ![c] = IdleCall]
    BY DEF Answers
  <1> QED
    BY <1>1, <1>2, <1>3, IdleFacts DEF TypeInv, TypeOK

(* What the janitor takes are documents.                                   *)
LEMMA OnwardFacts ==
  ASSUME NEW todo \in SUBSET Uploads
  PROVE  /\ Onward(todo) \in [at : {"idle", "find", "erase", "mark"}, todo : SUBSET Uploads]
         /\ Onward(todo).todo = todo
         /\ Onward(todo).at \in {"erase", "mark"} => todo # {}
  BY DEF Onward

LEMMA RestingFacts ==
  /\ Resting \in [at : {"idle", "find", "erase", "mark"}, todo : SUBSET Uploads]
  /\ Resting.at = "idle" /\ Resting.todo = {}
  /\ [Resting EXCEPT !.at = "find"] \in [at : {"idle", "find", "erase", "mark"}, todo : SUBSET Uploads]
  /\ [Resting EXCEPT !.at = "find"].at = "find" /\ [Resting EXCEPT !.at = "find"].todo = {}
  BY DEF Resting

LEMMA MaybeFacts ==
  ASSUME TypeInv, MaybeCleanupStaleUploads
  PROVE  /\ janitor' \in [at : {"idle", "find", "erase", "mark"}, todo : SUBSET Uploads]
         /\ janitor'.at \in {"erase", "mark"} => janitor'.todo # {}
         /\ janitor'.todo \subseteq janitor.todo /\ due' \in BOOLEAN
  BY RestingFacts DEF MaybeCleanupStaleUploads, TypeInv, TypeOK

-----------------------------------------------------------------------------
LEMMA TypeInit == Init => TypeInv
  <1> SUFFICES ASSUME Init PROVE TypeInv
    OBVIOUS
  <1>1. perils \in [Uploads -> SUBSET Perils]
    BY UploadAssumption DEF Init
  <1>2. call \in [Calls -> CallRecords] /\ CallSensible
    BY IdleFacts DEF Init, CallSensible
  <1>3. expired \in 0 .. Len(rows) /\ rows \in Seq(Uploads)
    BY DEF Init
  <1> QED
    BY <1>1, <1>2, <1>3, RestingFacts DEF Init, TypeInv, TypeOK, States, Forms

LEMMA TypeStep == TypeInv /\ [Next]_vars => TypeInv'
  <1> SUFFICES ASSUME TypeInv, [Next]_vars PROVE TypeInv'
    OBVIOUS
  <1>u. UNCHANGED vars => TypeInv'
    BY DEF vars, TypeInv, TypeOK, CallSensible
  <1>1. ASSUME NEW c \in Calls, HandlerStep(c) PROVE TypeInv'
    <2> USE <1>1
    <2>g. ASSUME NEW at \in {"insert", "undo", "find", "erase", "mark"}, Goes(c, at),
                 call[c].kind = "upload" <=> at \in {"insert", "undo"}, call[c].kind # "idle"
          PROVE  CallSensible' /\ call' \in [Calls -> CallRecords]
      BY <2>g, GoesFacts DEF Steps, TypeInv, CallSensible
    <2>a. ASSUME NEW success \in BOOLEAN, Answers(c, success)
          PROVE  CallSensible' /\ call' \in [Calls -> CallRecords] /\ form' \in [Uploads -> Forms]
      BY <2>a, AnswersFacts, IdleFacts DEF TypeInv, CallSensible
    <2>1. CASE StoreFile(c)
      BY <2>1, <2>g DEF StoreFile, Does, TypeInv, TypeOK, CallSensible
    <2>2. CASE StoreFails(c)
      BY <2>2, <2>a DEF StoreFails, Does, TypeInv, TypeOK, CallSensible
    <2>3. CASE InsertRow(c)
      <3>1. call[c].doc \in Uploads
        BY <2>3 DEF InsertRow, Does, TypeInv, CallSensible
      <3>2. rows' \in Seq(Uploads) /\ expired' \in 0 .. Len(rows') /\ row' \in [Uploads -> States]
        BY <2>3, <3>1 DEF InsertRow, TypeInv, TypeOK, States
      <3> QED
        BY <2>3, <3>2, <2>a, MaybeFacts DEF InsertRow, TypeInv, TypeOK
    <2>4. CASE InsertFails(c)
      BY <2>4, <2>g DEF InsertFails, Does, files, TypeInv, TypeOK, CallSensible
    <2>5. CASE UndoUpload(c)
      BY <2>5, <2>a DEF UndoUpload, Does, TypeInv, TypeOK, CallSensible
    <2>6. CASE CommitOrder(c)
      BY <2>6, <2>a DEF CommitOrder, Does, TypeInv, TypeOK, CallSensible, States
    <2>7. CASE CommitAutomated(c)
      BY <2>7, <2>a DEF CommitAutomated, Does, files, TypeInv, TypeOK, CallSensible
    <2>8. CASE OrderRefused(c)
      BY <2>8, <2>g DEF OrderRefused, Does, files, TypeInv, TypeOK, CallSensible
    <2>9. CASE FindStaged(c)
      <3>1. call[c].kind # "idle" /\ call[c].kind # "upload"
        BY <2>9 DEF FindStaged, TypeInv, CallSensible
      <3> QED
        BY <2>9, <3>1, <2>g, <2>a DEF FindStaged, files, TypeInv, TypeOK
    <2>10. CASE EraseFile(c)
      BY <2>10, <2>g DEF EraseFile, TypeInv, TypeOK, CallSensible
    <2>11. CASE MarkDeleted(c)
      BY <2>11, <2>a DEF MarkDeleted, TypeInv, TypeOK, CallSensible, States
    <2>12. CASE QueryFails(c)
      BY <2>12, <2>a DEF QueryFails, files, TypeInv, TypeOK
    <2> QED
      BY <2>1, <2>2, <2>3, <2>4, <2>5, <2>6, <2>7, <2>8, <2>9, <2>10, <2>11, <2>12 DEF HandlerStep
  <1>2. ASSUME NEW c \in Calls, NEW d \in Uploads,
               UploadOrderFiles(c, d) \/ Submit(c, d) \/ CleanupOrderUploads(c, d)
        PROVE  TypeInv'
    <2>1. ASSUME NEW kind \in Kinds, NEW at \in Steps, Arrives(c, kind, d, at), at # "idle",
                 kind # "idle", kind = "upload" <=> at \in {"store", "insert", "undo"},
                 at = "commit" => kind = "order"
          PROVE  CallSensible' /\ call' \in [Calls -> CallRecords]
      BY <2>1, ArrivesFacts DEF TypeInv, CallSensible
    <2>2. CASE UploadOrderFiles(c, d)
      <3>1. CallSensible' /\ call' \in [Calls -> CallRecords]
        BY <2>1, <2>2 DEF UploadOrderFiles, Kinds, Steps
      <3> QED
        BY <2>2, <3>1 DEF UploadOrderFiles, files, TypeInv, TypeOK, Forms
    <2>3. CASE Submit(c, d)
      <3>1. CallSensible' /\ call' \in [Calls -> CallRecords]
        BY <2>1, <2>3 DEF Submit, Kinds, Steps
      <3> QED
        BY <2>3, <3>1 DEF Submit, files, TypeInv, TypeOK, Forms
    <2>4. CASE CleanupOrderUploads(c, d)
      <3>1. CallSensible' /\ call' \in [Calls -> CallRecords]
        BY <2>1, <2>4 DEF CleanupOrderUploads, Kinds, Steps
      <3> QED
        BY <2>4, <3>1 DEF CleanupOrderUploads, files, TypeInv, TypeOK, Forms
    <2> QED
      BY <1>2, <2>2, <2>3, <2>4
  <1>3. ASSUME NEW d \in Uploads, Abandon(d) \/ GiveUp(d) PROVE TypeInv'
    <2>1. After(form[d], FALSE) \in Forms
      BY DEF After, Forms, TypeInv, TypeOK
    <2> QED
      BY <1>3, <2>1 DEF Abandon, GiveUp, files, TypeInv, TypeOK, CallSensible, Forms
  <1>4. ASSUME JanitorStep PROVE TypeInv'
    <2>1. CASE FindStale
      <3>1. FirstOf(Stale, BatchSize) \in SUBSET Uploads
        BY DEF FirstOf, Stale
      <3> QED
        BY <2>1, <3>1, OnwardFacts DEF FindStale, files, TypeInv, TypeOK, CallSensible
    <2>2. CASE EraseStale
      <3>1. PICK d \in Uploads : IsNext(d) /\
              IF Deletable(d)
              THEN blob' = blob \ {d} /\ janitor' = [janitor EXCEPT !.at = "mark"]
              ELSE UNCHANGED blob /\ janitor' = Onward(janitor.todo \ {d})
        BY <2>2 DEF EraseStale
      <3>2. janitor.todo \ {d} \in SUBSET Uploads /\ janitor.todo # {}
        BY <3>1 DEF IsNext, TypeInv, TypeOK
      <3>3. /\ janitor' \in [at : {"idle", "find", "erase", "mark"}, todo : SUBSET Uploads]
            /\ janitor'.at \in {"erase", "mark"} => janitor'.todo # {}
            /\ blob' \subseteq Uploads
        BY <3>1, <3>2, OnwardFacts DEF TypeInv, TypeOK
      <3> QED
        BY <2>2, <3>3 DEF EraseStale, TypeInv, TypeOK, CallSensible
    <2>3. CASE MarkStale \/ MarkStaleFails
      <3>1. PICK d \in Uploads : janitor' = Onward(janitor.todo \ {d})
                                /\ (row' = [row EXCEPT ![d] = "DELETED"] \/ UNCHANGED row)
        BY <2>3 DEF MarkStale, MarkStaleFails, files
      <3>2. /\ janitor' \in [at : {"idle", "find", "erase", "mark"}, todo : SUBSET Uploads]
            /\ janitor'.at \in {"erase", "mark"} => janitor'.todo # {}
            /\ row' \in [Uploads -> States]
        BY <3>1, OnwardFacts DEF TypeInv, TypeOK, States
      <3> QED
        BY <2>3, <3>2 DEF MarkStale, MarkStaleFails, files, TypeInv, TypeOK, CallSensible
    <2>4. CASE FindStaleFails
      BY <2>4, RestingFacts DEF FindStaleFails, files, TypeInv, TypeOK, CallSensible
    <2> QED
      BY <1>4, <2>1, <2>2, <2>3, <2>4 DEF JanitorStep
  <1>5. CASE ScheduledCleanup
    BY <1>5, MaybeFacts DEF ScheduledCleanup, files, TypeInv, TypeOK, CallSensible
  <1>6. CASE Expire
    BY <1>6 DEF Expire, files, TypeInv, TypeOK, CallSensible
  <1>7. CASE IntervalPasses
    BY <1>7 DEF IntervalPasses, files, TypeInv, TypeOK, CallSensible
  <1>8. CASE Restart
    <2>1. call' \in [Calls -> CallRecords] /\ CallSensible'
      BY <1>8, IdleFacts DEF Restart, CallSensible
    <2>2. form' \in [Uploads -> Forms]
      BY <1>8 DEF Restart, After, Forms, TypeInv, TypeOK
    <2> QED
      BY <1>8, <2>1, <2>2, RestingFacts DEF Restart, files, TypeInv, TypeOK
  <1> QED
    BY <1>u, <1>1, <1>2, <1>3, <1>4, <1>5, <1>6, <1>7, <1>8 DEF Next

(* Every row, file, form, handler and the janitor keep their types: the    *)
(* janitor never goes on to a document when none is left.                  *)
THEOREM UploadTypeCorrect == Spec => []TypeOK
  <1>1. Spec => []TypeInv
    BY TypeInit, TypeStep, PTL DEF Spec
  <1> QED
    BY <1>1, PTL DEF TypeInv

-----------------------------------------------------------------------------
(* Steps of forms and handlers.                                            *)
LEMMA HandlerFacts ==
  ASSUME TypeInv, NEW c \in Calls, HandlerStep(c)
  PROVE  /\ call[c].kind # "idle" /\ call[c].doc \in Uploads /\ UNCHANGED perils
         /\ \/ UNCHANGED form /\ \E at \in Steps \ {"idle"} : Goes(c, at)
            \/ \E success \in BOOLEAN :
                 /\ Answers(c, success)
                 /\ success => call[c].at \in {"insert", "commit"}
  <1>1. call[c].at # "idle"
    BY DEF HandlerStep, StoreFile, StoreFails, InsertRow, InsertFails, UndoUpload, CommitOrder,
           CommitAutomated, OrderRefused, FindStaged, EraseFile, MarkDeleted, QueryFails, Does
  <1>5. call[c].kind # "idle" /\ call[c].doc \in Uploads
    BY <1>1 DEF TypeInv, CallSensible
  <1>2. CASE StoreFile(c) \/ InsertFails(c) \/ OrderRefused(c) \/ EraseFile(c)
    BY <1>2, <1>5 DEF StoreFile, InsertFails, OrderRefused, EraseFile, Steps
  <1>3. CASE StoreFails(c) \/ InsertRow(c) \/ UndoUpload(c) \/ CommitOrder(c) \/ CommitAutomated(c)
             \/ MarkDeleted(c) \/ QueryFails(c)
    <2>1. UNCHANGED perils /\ \E success \in BOOLEAN : Answers(c, success)
                 /\ (success => call[c].at \in {"insert", "commit"})
      BY <1>3 DEF StoreFails, InsertRow, UndoUpload, CommitOrder, CommitAutomated, MarkDeleted,
                  QueryFails, Does
    <2> QED
      BY <1>5, <2>1
  <1>4. CASE FindStaged(c)
    BY <1>4, <1>5 DEF FindStaged, Steps
  <1> QED
    BY <1>2, <1>3, <1>4 DEF HandlerStep

LEMMA BeginFacts ==
  ASSUME TypeInv, NEW c \in Calls, NEW d \in Uploads,
         UploadOrderFiles(c, d) \/ Submit(c, d) \/ CleanupOrderUploads(c, d)
  PROVE  /\ call' \in [Calls -> CallRecords] /\ form' \in [Uploads -> Forms]
         /\ call[c].kind = "idle" /\ call'[c].doc = d
         /\ \A e \in Calls : e # c => call'[e] = call[e]
         /\ \A e \in Uploads : e # d => form'[e] = form[e]
         /\ UNCHANGED <<files, expired, janitor, perils>>
         /\ \/ /\ form[d] = "new" /\ form'[d] = "uploading"
               /\ call'[c].kind = "upload" /\ call'[c].at = "store"
            \/ /\ form[d] = "ready" \/ ("again" \in perils[d] /\ form[d] = "failed")
               /\ form'[d] = "sent"
               /\ call'[c].kind = "order" /\ call'[c].at = "commit"
            \/ /\ form[d] = "failed" /\ form'[d] = "closed"
               /\ call'[c].kind = "cleanup" /\ call'[c].at = "find"
  <1>1. CASE UploadOrderFiles(c, d)
    <2>1. Arrives(c, "upload", d, "store") /\ "upload" \in Kinds /\ "store" \in Steps
      BY <1>1 DEF UploadOrderFiles, Kinds, Steps
    <2> QED
      BY <1>1, <2>1, ArrivesFacts DEF UploadOrderFiles, TypeInv, TypeOK, Forms
  <1>2. CASE Submit(c, d)
    <2>1. Arrives(c, "order", d, "commit") /\ "order" \in Kinds /\ "commit" \in Steps
      BY <1>2 DEF Submit, Kinds, Steps
    <2>2. form[d] = "ready" \/ ("again" \in perils[d] /\ form[d] = "failed")
      BY <1>2 DEF Submit
    <2>3. form' = [form EXCEPT ![d] = "sent"] /\ UNCHANGED <<files, expired, janitor, perils>>
      BY <1>2 DEF Submit
    <2>4. /\ form' \in [Uploads -> Forms] /\ form'[d] = "sent"
          /\ \A e \in Uploads : e # d => form'[e] = form[e]
      BY <2>3 DEF TypeInv, TypeOK, Forms
    <2> QED
      BY <2>1, <2>2, <2>3, <2>4, ArrivesFacts
  <1>3. CASE CleanupOrderUploads(c, d)
    <2>1. Arrives(c, "cleanup", d, "find") /\ "cleanup" \in Kinds /\ "find" \in Steps
      BY <1>3 DEF CleanupOrderUploads, Kinds, Steps
    <2> QED
      BY <1>3, <2>1, ArrivesFacts DEF CleanupOrderUploads, TypeInv, TypeOK, Forms
  <1> QED
    BY <1>1, <1>2, <1>3

(* An answer moves the form of a waiting request, and no other.            *)
LEMMA FormAnswered ==
  ASSUME TypeInv, NEW c \in Calls, call[c].doc \in Uploads, NEW success \in BOOLEAN,
         Answers(c, success)
  PROVE  LET d == call[c].doc IN
         /\ form[d] \notin {"uploading", "sent"} => form'[d] = form[d]
         /\ form[d] = "uploading" => form'[d] \in {"ready", "closed"}
         /\ form[d] = "uploading" /\ ~success => form'[d] = "closed"
         /\ form[d] = "sent" => form'[d] \in Done
  <1>1. form[call[c].doc] \in Forms /\ FALSE \in BOOLEAN
    BY DEF TypeInv, TypeOK
  <1>2. form'[call[c].doc] \in {After(form[call[c].doc], success), After(form[call[c].doc], FALSE)}
    BY AnswersFacts
  <1> QED
    BY <1>1, <1>2 DEF After, Done

LEMMA RestartFacts ==
  ASSUME TypeInv, Restart
  PROVE  /\ \A c \in Calls : call'[c] = IdleCall
         /\ \A d \in Uploads :
              /\ form[d] \in Done => form'[d] \in Done
              /\ form[d] # "new" => form'[d] # "new"
              /\ form'[d] = "ready" => form[d] = "ready"
         /\ janitor'.todo = {} /\ UNCHANGED <<files, expired, perils>>
  <1>1. \A d \in Uploads : /\ form[d] \in Done => form'[d] \in Done
                           /\ form[d] # "new" => form'[d] # "new"
                           /\ form'[d] = "ready" => form[d] = "ready"
    BY DEF Restart, After, Done
  <1> QED
    BY <1>1, RestingFacts DEF Restart

(* What the rest of the steps leave alone.                                 *)
LEMMA OthersFacts ==
  ASSUME JanitorStep \/ ScheduledCleanup \/ Expire \/ IntervalPasses
  PROVE  UNCHANGED <<form, call, rows, referred, perils>>
  BY DEF JanitorStep, FindStale, FindStaleFails, EraseStale, MarkStale, MarkStaleFails,
         ScheduledCleanup, Expire, IntervalPasses, files

LEMMA FormLeft ==
  ASSUME TypeInv, NEW d \in Uploads, Abandon(d) \/ GiveUp(d)
  PROVE  /\ \A e \in Uploads : e # d => form'[e] = form[e]
         /\ d \in Calm => form[d] \in {"ready", "failed"} /\ form'[d] = "closed"
         /\ UNCHANGED <<files, expired, call, janitor, perils>>
  BY DEF Abandon, GiveUp, Calm, TypeInv, TypeOK

LEMMA CalmStays == Next => UNCHANGED perils /\ Calm' = Calm
  <1>1. Next => UNCHANGED perils
    BY DEF Next, HandlerStep, StoreFile, StoreFails, InsertRow, InsertFails, UndoUpload, CommitOrder,
           CommitAutomated, OrderRefused, FindStaged, EraseFile, MarkDeleted, QueryFails,
           UploadOrderFiles, Submit, CleanupOrderUploads, Abandon, GiveUp, JanitorStep, FindStale,
           FindStaleFails, EraseStale, MarkStale, MarkStaleFails, ScheduledCleanup, Expire,
           IntervalPasses, Restart
  <1> QED
    BY <1>1 DEF Calm

LEMMA FormSteps ==
  ASSUME TypeInv, Next, NEW d \in Calm
  PROVE  /\ form[d] \in Done => form'[d] \in Done
         /\ form[d] # "new" => form'[d] # "new"
  <1>d. d \in Uploads
    BY DEF Calm
  <1>1. ASSUME NEW c \in Calls, HandlerStep(c)
        PROVE  (form[d] \in Done => form'[d] \in Done) /\ (form[d] # "new" => form'[d] # "new")
    BY <1>1, <1>d, HandlerFacts, AnswersFacts, FormAnswered DEF Done
  <1>2. ASSUME NEW c \in Calls, NEW e \in Uploads,
               UploadOrderFiles(c, e) \/ Submit(c, e) \/ CleanupOrderUploads(c, e)
        PROVE  (form[d] \in Done => form'[d] \in Done) /\ (form[d] # "new" => form'[d] # "new")
    BY <1>2, <1>d, BeginFacts DEF Done, Calm
  <1>3. ASSUME NEW e \in Uploads, Abandon(e) \/ GiveUp(e)
        PROVE  (form[d] \in Done => form'[d] \in Done) /\ (form[d] # "new" => form'[d] # "new")
    BY <1>3, <1>d, FormLeft DEF Done
  <1>4. CASE JanitorStep \/ ScheduledCleanup \/ Expire \/ IntervalPasses
    BY <1>4, OthersFacts
  <1>5. CASE Restart
    <2>1. \A e \in Uploads : /\ form[e] \in Done => form'[e] \in Done
                             /\ form[e] # "new" => form'[e] # "new"
      BY <1>5, RestartFacts
    <2> QED
      BY <1>d, <2>1
  <1> QED
    BY <1>1, <1>2, <1>3, <1>4, <1>5 DEF Next

-----------------------------------------------------------------------------
(* Forms and their handlers agree.                                         *)
LEMMA CallsInit == Init => CallInv
  BY IdleFacts DEF Init, CallInv, Phases, OneCall

LEMMA CallsStep == TypeInv /\ CallInv /\ [Next]_vars => CallInv'
  <1> SUFFICES ASSUME TypeInv, CallInv, [Next]_vars PROVE CallInv'
    OBVIOUS
  <1>u. ASSUME UNCHANGED <<form, call, perils>> PROVE CallInv'
    BY <1>u DEF CallInv, Phases, OneCall, Calm
  <1>k. \A c \in Calls : call[c].kind \in Kinds
    BY DEF TypeInv, TypeOK, CallRecords
  <1>c. Calm \subseteq Uploads /\ (Next => Calm' = Calm)
    BY CalmStays DEF Calm
  <1>1. ASSUME NEW c \in Calls, HandlerStep(c) PROVE CallInv'
    <2>c. Calm' = Calm
      BY <1>1, <1>c DEF Next
    <2>1. CASE UNCHANGED form /\ \E at \in Steps \ {"idle"} : Goes(c, at)
      <3>1. \A e \in Calls : call'[e].kind = call[e].kind /\ call'[e].doc = call[e].doc
        BY <2>1, GoesFacts
      <3> QED
        BY <2>1, <2>c, <3>1 DEF CallInv, Phases, OneCall
    <2>2. ASSUME NEW success \in BOOLEAN, Answers(c, success) PROVE CallInv'
      <3>1. OneCall'
        <4>1. call'[c].kind = "idle" /\ \A e \in Calls : e # c => call'[e] = call[e]
          BY <2>2, AnswersFacts, IdleFacts
        <4> QED
          BY <2>c, <4>1 DEF CallInv, OneCall
      <3>2. ASSUME NEW e \in Calls, call'[e].doc \in Calm, call'[e].kind # "idle"
            PROVE  call'[e] = call[e] /\ call[e].doc # call[c].doc
        <4>1. call'[c].kind = "idle" /\ \A f \in Calls : f # c => call'[f] = call[f]
          BY <2>2, AnswersFacts, IdleFacts
        <4>2. call[c].kind # "idle"
          BY <1>1, HandlerFacts
        <4> QED
          BY <3>2, <4>1, <4>2 DEF CallInv, OneCall
      <3>3. ASSUME NEW e \in Calls, call'[e].doc \in Calm, call'[e].kind # "idle"
            PROVE  form'[call'[e].doc] = form[call[e].doc]
        <4>1. \A d \in Uploads : d # call[c].doc => form'[d] = form[d]
          BY <2>2, AnswersFacts
        <4> QED
          BY <1>c, <2>c, <3>2, <3>3, <4>1
      <3>4. Phases'
        BY <2>c, <3>2, <3>3 DEF CallInv, Phases
      <3> QED
        BY <3>1, <3>4 DEF CallInv
    <2> QED
      BY <1>1, <2>1, <2>2, HandlerFacts
  <1>2. ASSUME NEW c \in Calls, NEW d \in Uploads,
               UploadOrderFiles(c, d) \/ Submit(c, d) \/ CleanupOrderUploads(c, d)
        PROVE  CallInv'
    <2>c. Calm' = Calm
      BY <1>2, <1>c DEF Next
    <2>1. d \in Calm => form[d] \in {"new", "ready", "failed"}
      BY <1>2, BeginFacts DEF Calm
    <2>2. d \in Calm => \A e \in Calls : call[e].doc = d => call[e].kind = "idle"
      BY <2>1, <1>k DEF CallInv, Phases, Kinds
    <2>3. OneCall'
      BY <1>2, <2>c, <2>2, BeginFacts DEF CallInv, OneCall
    <2>4. ASSUME NEW e \in Calls, call'[e].doc \in Calm, call'[e].kind # "idle", e # c
          PROVE  call'[e] = call[e] /\ form'[call[e].doc] = form[call[e].doc]
      BY <1>2, <1>c, <2>2, <2>4, BeginFacts
    <2>5. Phases'
      BY <1>2, <2>c, <2>4, BeginFacts DEF CallInv, Phases
    <2> QED
      BY <2>3, <2>5 DEF CallInv
  <1>3. ASSUME NEW d \in Uploads, Abandon(d) \/ GiveUp(d) PROVE CallInv'
    <2>c. Calm' = Calm
      BY <1>3, <1>c DEF Next
    <2>1. d \in Calm => \A e \in Calls : call[e].doc = d => call[e].kind = "idle"
      BY <1>3, <1>k, FormLeft DEF CallInv, Phases, Kinds
    <2>2. Phases'
      BY <1>3, <1>c, <2>c, <2>1, FormLeft DEF CallInv, Phases
    <2> QED
      BY <1>3, <2>c, <2>2, FormLeft DEF CallInv, OneCall
  <1>4. CASE JanitorStep \/ ScheduledCleanup \/ Expire \/ IntervalPasses
    BY <1>4, <1>u, OthersFacts
  <1>5. CASE Restart
    BY <1>5, RestartFacts, IdleFacts DEF CallInv, Phases, OneCall
  <1>6. CASE UNCHANGED vars
    BY <1>6, <1>u DEF vars
  <1> QED
    BY <1>1, <1>2, <1>3, <1>4, <1>5, <1>6 DEF Next

-----------------------------------------------------------------------------
(* The janitor keeps to forms that are done.                               *)
LEMMA JanitorInit == Init => JanitorInv
  BY RestingFacts DEF Init, JanitorInv, Begun, ExpiredDone, TodoDone

LEMMA RowsInCalm ==
  ASSUME TypeInv
  PROVE  /\ \A i \in 1 .. Len(rows) : rows[i] \in Uploads
         /\ expired \in Nat /\ expired <= Len(rows) /\ Len(rows) \in Nat
  BY DEF TypeInv, TypeOK

(* The janitor is given nothing new, and no order takes a document.        *)
LEMMA JanitorQuiet ==
  ASSUME TypeInv, JanitorInv, Next, UNCHANGED <<rows, expired, referred>>,
         janitor'.todo \subseteq janitor.todo
  PROVE  JanitorInv'
  <1>1. Calm' = Calm
    BY CalmStays
  <1>2. \A d \in Calm : (form[d] \in Done => form'[d] \in Done) /\ (form[d] # "new" => form'[d] # "new")
    BY FormSteps
  <1> QED
    BY <1>1, <1>2 DEF JanitorInv, Begun, ExpiredDone, TodoDone

LEMMA JanitorInvStep == KeepInv /\ [Next]_vars => JanitorInv'
  <1> SUFFICES ASSUME KeepInv, [Next]_vars PROVE JanitorInv'
    OBVIOUS
  <1>k. TypeInv /\ CallInv /\ JanitorInv /\ FileInv
    BY DEF KeepInv
  <1>u. CASE UNCHANGED vars
    BY <1>k, <1>u DEF vars, JanitorInv, Begun, ExpiredDone, TodoDone, Calm
  <1>q. ASSUME Next, UNCHANGED <<rows, expired, referred>>, janitor'.todo \subseteq janitor.todo
        PROVE  JanitorInv'
    BY <1>k, <1>q, JanitorQuiet
  <1>f. ASSUME Next
        PROVE  /\ Calm' = Calm
               /\ \A d \in Calm : (form[d] \in Done => form'[d] \in Done)
                                  /\ (form[d] # "new" => form'[d] # "new")
    BY <1>k, <1>f, CalmStays, FormSteps
  <1>1. ASSUME NEW c \in Calls, HandlerStep(c) PROVE JanitorInv'
    <2>n. Next
      BY <1>1 DEF Next
    <2>1. CASE InsertRow(c)
      <3>1. call[c].doc \in Uploads /\ rows' = Append(rows, call[c].doc)
            /\ UNCHANGED <<expired, referred>> /\ janitor'.todo \subseteq janitor.todo
        BY <1>k, <1>1, <2>1, HandlerFacts, MaybeFacts DEF InsertRow
      <3>2. call[c].doc \in Calm => form[call[c].doc] # "new"
        BY <1>k, <2>1 DEF InsertRow, Does, CallInv, Phases
      <3>3. Begun'
        <4>1. ASSUME NEW i \in 1 .. Len(rows'), rows'[i] \in Calm PROVE form[rows'[i]] # "new"
          BY <1>k, <3>1, <3>2, <4>1, RowsInCalm DEF JanitorInv, Begun, TypeInv, TypeOK
        <4> QED
          BY <1>f, <2>n, <4>1 DEF Begun
      <3>4. ExpiredDone'
        <4>1. \A i \in 1 .. expired : rows'[i] = rows[i]
          BY <1>k, <3>1, RowsInCalm DEF TypeInv, TypeOK
        <4> QED
          BY <1>f, <1>k, <2>n, <3>1, <4>1 DEF JanitorInv, ExpiredDone
      <3>5. TodoDone'
        BY <1>f, <1>k, <2>n, <3>1 DEF JanitorInv, TodoDone
      <3> QED
        BY <3>3, <3>4, <3>5 DEF JanitorInv
    <2>2. CASE CommitOrder(c)
      <3>1. UNCHANGED <<rows, expired, janitor>> /\ referred' = referred \cup {call[c].doc}
        BY <2>2 DEF CommitOrder
      <3>2. call[c].doc \in Calm => form[call[c].doc] = "sent"
        BY <1>k, <2>2 DEF CommitOrder, Does, CallInv, Phases
      <3>3. TodoDone'
        BY <1>f, <1>k, <2>n, <3>1, <3>2 DEF JanitorInv, TodoDone, Done
      <3> QED
        BY <1>f, <1>k, <2>n, <3>1, <3>3 DEF JanitorInv, Begun, ExpiredDone
    <2>3. CASE StoreFile(c) \/ StoreFails(c) \/ InsertFails(c) \/ UndoUpload(c) \/ CommitAutomated(c)
               \/ OrderRefused(c) \/ FindStaged(c) \/ EraseFile(c) \/ MarkDeleted(c) \/ QueryFails(c)
      <3>1. UNCHANGED <<rows, expired, referred, janitor>>
        BY <2>3 DEF StoreFile, StoreFails, InsertFails, UndoUpload, CommitAutomated, OrderRefused,
                    FindStaged, EraseFile, MarkDeleted, QueryFails, files
      <3> QED
        BY <1>q, <2>n, <3>1
    <2> QED
      BY <1>1, <2>1, <2>2, <2>3 DEF HandlerStep
  <1>2. ASSUME NEW c \in Calls, NEW d \in Uploads,
               UploadOrderFiles(c, d) \/ Submit(c, d) \/ CleanupOrderUploads(c, d)
        PROVE  JanitorInv'
    <2>1. Next
      BY <1>2 DEF Next
    <2>2. UNCHANGED <<rows, expired, referred, janitor>>
      BY <1>2 DEF UploadOrderFiles, Submit, CleanupOrderUploads, files
    <2> QED
      BY <1>q, <2>1, <2>2
  <1>3. ASSUME NEW d \in Uploads, Abandon(d) \/ GiveUp(d) PROVE JanitorInv'
    <2>1. Next
      BY <1>3 DEF Next
    <2>2. UNCHANGED <<rows, expired, referred, janitor>>
      BY <1>3 DEF Abandon, GiveUp, files
    <2> QED
      BY <1>q, <2>1, <2>2
  <1>4. CASE FindStale
    <2>n. Next
      BY <1>4 DEF Next, JanitorStep
    <2>1. UNCHANGED <<rows, expired, referred>> /\ janitor'.todo \subseteq Stale
      <3>1. FirstOf(Stale, BatchSize) \subseteq Stale /\ FirstOf(Stale, BatchSize) \in SUBSET Uploads
        BY DEF FirstOf, Stale
      <3> QED
        BY <1>4, <3>1, OnwardFacts DEF FindStale, files
    <2>2. ASSUME NEW d \in Stale, d \in Calm PROVE form[d] \in Done /\ d \notin referred
      BY <1>k, <2>2 DEF Stale, JanitorInv, ExpiredDone, FileInv, Kept
    <2>3. TodoDone'
      BY <1>f, <2>n, <2>1, <2>2 DEF TodoDone
    <2> QED
      BY <1>f, <1>k, <2>n, <2>1, <2>3 DEF JanitorInv, Begun, ExpiredDone
  <1>10. CASE FindStaleFails
    <2>n. Next
      BY <1>10 DEF Next, JanitorStep
    <2>1. UNCHANGED <<rows, expired, referred>> /\ janitor'.todo = {}
      BY <1>10, RestingFacts DEF FindStaleFails, files
    <2> QED
      BY <1>q, <2>n, <2>1
  <1>5. CASE EraseStale \/ MarkStale \/ MarkStaleFails
    <2>n. Next
      BY <1>5 DEF Next, JanitorStep
    <2>1. UNCHANGED <<rows, expired, referred>>
      BY <1>5 DEF EraseStale, MarkStale, MarkStaleFails, files
    <2>2. PICK d \in Uploads : \/ janitor' = Onward(janitor.todo \ {d})
                              \/ janitor' = [janitor EXCEPT !.at = "mark"]
      BY <1>5 DEF EraseStale, MarkStale, MarkStaleFails
    <2>3. janitor.todo \ {d} \in SUBSET Uploads
      BY <1>k DEF TypeInv, TypeOK
    <2>4. janitor'.todo \subseteq janitor.todo
      BY <1>k, <2>2, <2>3, OnwardFacts DEF TypeInv, TypeOK
    <2> QED
      BY <1>q, <2>n, <2>1, <2>4
  <1>6. CASE ScheduledCleanup
    <2>1. UNCHANGED <<rows, expired, referred>> /\ janitor'.todo \subseteq janitor.todo
      BY <1>k, <1>6, MaybeFacts DEF ScheduledCleanup, files
    <2> QED
      BY <1>6, <1>q, <2>1 DEF Next
  <1>7. CASE Expire
    <2>n. Next
      BY <1>7 DEF Next
    <2>1. UNCHANGED <<rows, referred, janitor, form>> /\ expired' = expired + 1 /\ expired < Len(rows)
      BY <1>7 DEF Expire, files
    <2>2. rows[expired + 1] \in Calm => form[rows[expired + 1]] \in Done
      <3>1. ASSUME rows[expired + 1] \in Calm PROVE form[rows[expired + 1]] \in Done
        <4>1. form[rows[expired + 1]] \notin {"uploading", "ready", "sent"}
          BY <1>7, <3>1 DEF Expire, Calm
        <4>2. expired + 1 \in 1 .. Len(rows) /\ rows[expired + 1] \in Uploads
          BY <1>k, <2>1, RowsInCalm
        <4>3. form[rows[expired + 1]] # "new"
          BY <1>k, <3>1, <4>2 DEF JanitorInv, Begun
        <4> QED
          BY <1>k, <4>1, <4>2, <4>3 DEF TypeInv, TypeOK, Forms, Done
      <3> QED
        BY <3>1
    <2>3. ExpiredDone'
      <3>1. ASSUME NEW i \in 1 .. expired', rows[i] \in Calm PROVE form[rows[i]] \in Done
        <4>1. i \in 1 .. expired \/ i = expired + 1
          BY <1>k, <2>1, RowsInCalm
        <4> QED
          BY <1>k, <2>2, <3>1, <4>1 DEF JanitorInv, ExpiredDone
      <3> QED
        BY <1>f, <2>n, <2>1, <3>1 DEF ExpiredDone
    <2> QED
      BY <1>f, <1>k, <2>n, <2>1, <2>3 DEF JanitorInv, Begun, TodoDone
  <1>8. CASE IntervalPasses
    <2>1. UNCHANGED <<rows, expired, referred, janitor>>
      BY <1>8 DEF IntervalPasses, files
    <2> QED
      BY <1>8, <1>q, <2>1 DEF Next
  <1>9. CASE Restart
    <2>1. UNCHANGED <<rows, expired, referred>> /\ janitor'.todo \subseteq janitor.todo
      BY <1>k, <1>9, RestartFacts DEF files
    <2> QED
      BY <1>9, <1>q, <2>1 DEF Next
  <1> QED
    BY <1>u, <1>1, <1>2, <1>3, <1>4, <1>5, <1>6, <1>7, <1>8, <1>9, <1>10
       DEF Next, JanitorStep

-----------------------------------------------------------------------------
(* What an order points to is kept.                                        *)
LEMMA FilesInit == Init => FileInv
  BY IdleFacts DEF Init, FileInv, Stored, Staged, Taken, Kept

(* A step that changes neither rows nor files nor what is referred to, and *)
(* starts no handler of a document but at its beginning.                   *)
LEMMA FilesQuiet ==
  ASSUME TypeInv, FileInv, Next, UNCHANGED <<row, blob, referred>>,
         \A d \in Calm : form'[d] = "ready" => form[d] = "ready",
         \A c \in Calls :
            \/ call'[c] = call[c]
            \/ call'[c].at \notin {"insert", "commit", "erase", "mark"}
  PROVE  FileInv'
  <1>1. Calm' = Calm /\ Calm \subseteq Uploads
    BY CalmStays DEF Calm
  <1>2. \A d \in Calm : form[d] \in Done => form'[d] \in Done
    BY FormSteps
  <1>3. Stored' /\ Taken'
    BY <1>1 DEF FileInv, Stored, Taken
  <1>4. Staged'
    BY <1>1 DEF FileInv, Staged
  <1>5. Kept'
    BY <1>1, <1>2 DEF FileInv, Kept
  <1> QED
    BY <1>3, <1>4, <1>5 DEF FileInv

(* A document whose form is uploading, or in whose order or cleanup a      *)
(* handler is at work, is nobody else's and no order's.                    *)
LEMMA WorkedAlone ==
  ASSUME KeepInv, NEW c \in Calls, call[c].doc \in Calm, call[c].kind # "idle"
  PROVE  LET d == call[c].doc IN
         /\ \A e \in Calls : e # c /\ call[e].doc = d => call[e].kind = "idle" /\ call[e].at = "idle"
         /\ form[d] \in {"uploading", "sent", "closed"} /\ d \in Uploads
         /\ call[c].kind \in {"upload", "order"} => d \notin referred /\ d \notin janitor.todo
         /\ call[c].at \in {"erase", "mark"} => d \notin referred
  <1>k. TypeInv /\ CallInv /\ JanitorInv /\ FileInv
    BY DEF KeepInv
  <1>1. call[c].kind \in {"upload", "order", "cleanup"} /\ call[c].doc \in Uploads
    BY <1>k DEF TypeInv, TypeOK, CallRecords, Kinds, Calm
  <1>2. \A e \in Calls : e # c /\ call[e].doc = call[c].doc => call[e].kind = "idle" /\ call[e].at = "idle"
    BY <1>k DEF CallInv, OneCall, TypeInv, CallSensible
  <1>3. /\ call[c].kind = "upload" => form[call[c].doc] = "uploading"
        /\ call[c].kind = "order" => form[call[c].doc] = "sent"
        /\ call[c].kind = "cleanup" => form[call[c].doc] = "closed"
    BY <1>k DEF CallInv, Phases
  <1>4. call[c].doc \in referred => form[call[c].doc] \in Done /\ call[c].at \notin {"erase", "mark"}
    BY <1>k DEF FileInv, Kept
  <1>5. call[c].doc \in janitor.todo => form[call[c].doc] \in Done
    BY <1>k DEF JanitorInv, TodoDone
  <1> QED
    BY <1>1, <1>2, <1>3, <1>4, <1>5 DEF Done

LEMMA FilesStep == KeepInv /\ [Next]_vars => FileInv'
  <1> SUFFICES ASSUME KeepInv, [Next]_vars PROVE FileInv'
    OBVIOUS
  <1>k. TypeInv /\ CallInv /\ JanitorInv /\ FileInv
    BY DEF KeepInv
  <1>u. CASE UNCHANGED vars
    BY <1>k, <1>u DEF vars, FileInv, Stored, Staged, Taken, Kept, Calm
  <1>f. ASSUME Next
        PROVE  /\ Calm' = Calm /\ Calm \subseteq Uploads
               /\ \A d \in Calm : (form[d] \in Done => form'[d] \in Done)
                                  /\ (form[d] # "new" => form'[d] # "new")
    BY <1>k, <1>f, CalmStays, FormSteps DEF Calm
  <1>1. ASSUME NEW c \in Calls, HandlerStep(c) PROVE FileInv'
    <2> DEFINE d == call[c].doc
    <2>n. Next
      BY <1>1 DEF Next
    <2>d. call[c].kind # "idle" /\ d \in Uploads
      BY <1>k, <1>1, HandlerFacts
    <2>w. d \in Calm =>
            /\ \A e \in Calls : e # c /\ call[e].doc = d => call[e].kind = "idle" /\ call[e].at = "idle"
            /\ form[d] \in {"uploading", "sent", "closed"}
            /\ call[c].kind \in {"upload", "order"} => d \notin referred /\ d \notin janitor.todo
            /\ call[c].at \in {"erase", "mark"} => d \notin referred
      BY <2>d, WorkedAlone
    <2>e. \A e \in Calls : e # c => call'[e] = call[e]
      BY <1>k, <1>1, HandlerFacts, GoesFacts, AnswersFacts
    <2>a. ASSUME NEW success \in BOOLEAN, Answers(c, success)
          PROVE  /\ call'[c].at = "idle" /\ \A e \in Uploads : e # d => form'[e] = form[e]
                 /\ form[d] \notin {"uploading", "sent"} => form'[d] = form[d]
                 /\ form[d] = "uploading" /\ ~success => form'[d] = "closed"
                 /\ form[d] = "sent" => form'[d] \in Done
      BY <1>k, <2>a, <2>d, AnswersFacts, FormAnswered, IdleFacts
    <2>h. HIDE DEF d
    <2>1. CASE StoreFile(c)
      <3>1. /\ blob' = blob \cup {d} /\ UNCHANGED <<row, referred, form>>
            /\ call'[c].at = "insert" /\ call'[c].doc = d
        BY <1>k, <2>1, GoesFacts DEF StoreFile, Steps, d
      <3> QED
        BY <1>f, <1>k, <2>n, <2>e, <3>1 DEF FileInv, Stored, Staged, Taken, Kept
    <2>2. CASE StoreFails(c) \/ CommitAutomated(c) \/ QueryFails(c)
      <3>1. /\ blob \subseteq blob' /\ UNCHANGED <<row, referred>>
            /\ \E success \in BOOLEAN : Answers(c, success) /\ (success => call[c].kind = "order")
        BY <2>2 DEF StoreFails, CommitAutomated, QueryFails, files, Does
      <3>2. call'[c].at = "idle" /\ \A e \in Uploads : e # d => form'[e] = form[e]
        BY <3>1, <2>a
      <3>3. d \in Calm => form'[d] # "ready"
        <4>1. d \in Calm /\ call[c].kind = "order" => form[d] = "sent"
          BY <1>k DEF CallInv, Phases, d
        <4> QED
          BY <2>w, <2>a, <3>1, <4>1 DEF Done
      <3>4. Stored' /\ Taken'
        BY <1>f, <1>k, <2>n, <2>e, <3>1, <3>2 DEF FileInv, Stored, Taken
      <3>5. Staged'
        BY <1>f, <1>k, <2>n, <3>1, <3>2, <3>3 DEF FileInv, Staged
      <3>6. Kept'
        BY <1>f, <1>k, <2>n, <2>e, <3>1, <3>2 DEF FileInv, Kept
      <3> QED
        BY <3>4, <3>5, <3>6 DEF FileInv
    <2>3. CASE InsertRow(c)
      <3>1. /\ row' = [row EXCEPT ![d] = "STAGED"] /\ UNCHANGED <<blob, referred>>
            /\ Answers(c, TRUE) /\ call[c].kind = "upload" /\ call[c].at = "insert"
        BY <2>3 DEF InsertRow, Does, d
      <3>2. call'[c].at = "idle" /\ \A e \in Uploads : e # d => form'[e] = form[e]
        BY <3>1, <2>a
      <3>3. d \in Calm => d \in blob /\ d \notin referred
        BY <1>k, <2>w, <3>1 DEF FileInv, Stored, d
      <3>4. row'[d] = "STAGED" /\ \A e \in Uploads : e # d => row'[e] = row[e]
        BY <1>k, <2>d, <3>1 DEF TypeInv, TypeOK
      <3>5. Stored' /\ Taken'
        BY <1>f, <1>k, <2>n, <2>e, <3>1, <3>2, <3>4 DEF FileInv, Stored, Taken
      <3>6. Staged'
        BY <1>f, <1>k, <2>n, <3>1, <3>2, <3>3, <3>4 DEF FileInv, Staged
      <3>7. Kept'
        <4>1. referred \subseteq Uploads
          BY <1>k DEF TypeInv, TypeOK
        <4> QED
          BY <1>f, <1>k, <2>n, <2>e, <3>1, <3>2, <3>3, <3>4, <4>1 DEF FileInv, Kept
      <3> QED
        BY <3>5, <3>6, <3>7 DEF FileInv
    <2>4. CASE InsertFails(c) \/ OrderRefused(c)
      <3>1. /\ UNCHANGED <<row, blob, referred, form>> /\ call'[c].at \in {"undo", "find"}
        BY <1>k, <2>4, GoesFacts DEF InsertFails, OrderRefused, files, Steps
      <3> QED
        BY <1>k, <2>n, <2>e, <3>1, FilesQuiet
    <2>5. CASE UndoUpload(c)
      <3>1. /\ blob' \in {blob, blob \ {d}} /\ UNCHANGED <<row, referred>>
            /\ Answers(c, FALSE) /\ call[c].kind = "upload"
        BY <2>5 DEF UndoUpload, Does, d
      <3>2. call'[c].at = "idle" /\ \A e \in Uploads : e # d => form'[e] = form[e]
        BY <3>1, <2>a
      <3>3. d \in Calm => form[d] = "uploading" /\ form'[d] = "closed" /\ d \notin referred
        BY <1>k, <2>a, <2>w, <3>1 DEF CallInv, Phases, d
      <3>4. Stored' /\ Taken'
        BY <1>f, <1>k, <2>n, <2>e, <2>w, <3>1, <3>2 DEF FileInv, Stored, Taken
      <3>5. Staged'
        BY <1>f, <1>k, <2>n, <3>1, <3>2, <3>3 DEF FileInv, Staged
      <3>6. Kept'
        BY <1>f, <1>k, <2>n, <2>e, <3>1, <3>2, <3>3 DEF FileInv, Kept
      <3> QED
        BY <3>4, <3>5, <3>6 DEF FileInv
    <2>6. CASE CommitOrder(c)
      <3>1. /\ row' = [row EXCEPT ![d] = IF @ = "STAGED" THEN "ATTACHED" ELSE @]
            /\ UNCHANGED blob /\ referred' = referred \cup {d}
            /\ Answers(c, TRUE) /\ call[c].kind = "order" /\ call[c].at = "commit"
        BY <2>6 DEF CommitOrder, Does, d
      <3>2. call'[c].at = "idle" /\ \A e \in Uploads : e # d => form'[e] = form[e]
        BY <3>1, <2>a
      <3>3. d \in Calm => form'[d] \in Done /\ row[d] = "STAGED" /\ d \in blob
        <4>1. d \in Calm => form[d] = "sent"
          BY <1>k, <3>1 DEF CallInv, Phases, d
        <4>2. d \in Calm => row[d] = "STAGED" /\ d \in blob
          BY <1>k, <3>1 DEF FileInv, Taken, d
        <4> QED
          BY <2>a, <3>1, <4>1, <4>2
      <3>4. (d \in Calm => row'[d] = "ATTACHED") /\ \A e \in Uploads : e # d => row'[e] = row[e]
        BY <1>k, <2>d, <3>1, <3>3 DEF TypeInv, TypeOK
      <3>5. Stored'
        BY <1>f, <1>k, <2>n, <2>e, <3>1, <3>2 DEF FileInv, Stored
      <3>6. Taken'
        BY <1>f, <1>k, <2>n, <2>e, <2>w, <3>1, <3>2, <3>4 DEF FileInv, Taken
      <3>7. Staged'
        BY <1>f, <1>k, <2>n, <3>1, <3>2, <3>3, <3>4 DEF FileInv, Staged, Done
      <3>8. Kept'
        <4>1. referred \subseteq Uploads
          BY <1>k DEF TypeInv, TypeOK
        <4> QED
          BY <1>f, <1>k, <2>n, <2>e, <2>w, <3>1, <3>2, <3>3, <3>4, <4>1 DEF FileInv, Kept
      <3> QED
        BY <3>5, <3>6, <3>7, <3>8 DEF FileInv
    <2>7. CASE FindStaged(c)
      <3>1. /\ UNCHANGED <<row, blob, referred>>
            /\ \/ row[d] = "STAGED" /\ Goes(c, "erase") /\ UNCHANGED form
               \/ Answers(c, FALSE)
        BY <2>7 DEF FindStaged, Eligible, files, d
      <3>2. CASE Answers(c, FALSE)
        <4>1. call'[c].at = "idle" /\ \A e \in Uploads : e # d => form'[e] = form[e]
          BY <3>2, <2>a
        <4>2. d \in Calm => form'[d] # "ready"
          BY <2>a, <2>w, <3>2 DEF Done
        <4>3. \A e \in Calm : form'[e] = "ready" => form[e] = "ready"
          BY <1>f, <2>n, <4>1, <4>2
        <4> QED
          BY <1>k, <2>n, <2>e, <3>1, <4>1, <4>3, FilesQuiet
      <3>3. CASE row[d] = "STAGED" /\ Goes(c, "erase") /\ UNCHANGED form
        <4>1. call'[c].at = "erase" /\ call'[c].doc = d
          BY <1>k, <3>3, GoesFacts DEF Steps, d
        <4>2. Stored' /\ Taken' /\ Staged'
          BY <1>f, <1>k, <2>n, <2>e, <3>1, <3>3, <4>1 DEF FileInv, Stored, Taken, Staged
        <4>3. Kept'
          BY <1>f, <1>k, <2>n, <2>e, <3>1, <3>3, <4>1 DEF FileInv, Kept
        <4> QED
          BY <4>2, <4>3 DEF FileInv
      <3> QED
        BY <3>1, <3>2, <3>3
    <2>8. CASE EraseFile(c)
      <3>1. /\ blob' \in {blob, blob \ {d}} /\ UNCHANGED <<row, referred, form>>
            /\ call[c].at = "erase" /\ call'[c].at = "mark" /\ call'[c].doc = d
        BY <1>k, <2>8, GoesFacts DEF EraseFile, Steps, d
      <3>2. Stored' /\ Taken'
        BY <1>f, <1>k, <2>n, <2>e, <2>w, <3>1 DEF FileInv, Stored, Taken
      <3>3. Staged'
        BY <1>f, <1>k, <2>n, <2>w, <3>1 DEF FileInv, Staged
      <3>4. Kept'
        BY <1>f, <1>k, <2>n, <2>e, <2>w, <3>1 DEF FileInv, Kept
      <3> QED
        BY <3>2, <3>3, <3>4 DEF FileInv
    <2>9. CASE MarkDeleted(c)
      <3>1. /\ row' = [row EXCEPT ![d] = "DELETED"] /\ UNCHANGED <<blob, referred>>
            /\ call[c].at = "mark" /\ Answers(c, FALSE)
        BY <2>9 DEF MarkDeleted, d
      <3>2. call'[c].at = "idle" /\ \A e \in Uploads : e # d => form'[e] = form[e]
        BY <3>1, <2>a
      <3>3. d \in Calm => form'[d] # "ready" /\ d \notin referred
        BY <2>a, <2>w, <3>1 DEF Done
      <3>4. \A e \in Uploads : e # d => row'[e] = row[e]
        BY <1>k, <2>d, <3>1 DEF TypeInv, TypeOK
      <3>5. Stored' /\ Taken'
        BY <1>f, <1>k, <2>n, <2>e, <2>w, <3>1, <3>2, <3>4 DEF FileInv, Stored, Taken
      <3>6. Staged'
        BY <1>f, <1>k, <2>n, <3>1, <3>2, <3>3, <3>4 DEF FileInv, Staged
      <3>7. Kept'
        <4>1. referred \subseteq Uploads
          BY <1>k DEF TypeInv, TypeOK
        <4> QED
          BY <1>f, <1>k, <2>n, <2>e, <3>1, <3>2, <3>3, <3>4, <4>1 DEF FileInv, Kept
      <3> QED
        BY <3>5, <3>6, <3>7 DEF FileInv
    <2> QED
      BY <1>1, <2>1, <2>2, <2>3, <2>4, <2>5, <2>6, <2>7, <2>8, <2>9 DEF HandlerStep
  <1>2. ASSUME NEW c \in Calls, NEW d \in Uploads,
               UploadOrderFiles(c, d) \/ Submit(c, d) \/ CleanupOrderUploads(c, d)
        PROVE  FileInv'
    <2>n. Next
      BY <1>2 DEF Next
    <2>1. /\ \A e \in Calls : e # c => call'[e] = call[e]
          /\ \A e \in Uploads : e # d => form'[e] = form[e]
          /\ form'[d] # "ready" /\ UNCHANGED <<row, blob, referred>>
          /\ call'[c].doc = d /\ call'[c].at \in {"store", "commit", "find"}
          /\ call'[c].at = "commit" /\ d \in Calm => form[d] = "ready"
      BY <1>k, <1>2, BeginFacts DEF files, Calm
    <2>2. Stored'
      BY <1>f, <1>k, <2>n, <2>1 DEF FileInv, Stored
    <2>3. Staged'
      BY <1>f, <1>k, <2>n, <2>1 DEF FileInv, Staged
    <2>4. Taken'
      BY <1>f, <1>k, <2>n, <2>1 DEF FileInv, Taken, Staged
    <2>5. Kept'
      BY <1>f, <1>k, <2>n, <2>1 DEF FileInv, Kept
    <2> QED
      BY <2>2, <2>3, <2>4, <2>5 DEF FileInv
  <1>3. ASSUME NEW d \in Uploads, Abandon(d) \/ GiveUp(d) PROVE FileInv'
    <2>n. Next
      BY <1>3 DEF Next
    <2>1. /\ UNCHANGED <<row, blob, referred, call>> /\ \A e \in Uploads : e # d => form'[e] = form[e]
          /\ d \in Calm => form'[d] = "closed"
      BY <1>k, <1>3, FormLeft DEF files
    <2>2. \A e \in Calm : form'[e] = "ready" => form[e] = "ready"
      BY <1>f, <2>n, <2>1
    <2> QED
      BY <1>k, <2>n, <2>1, <2>2, FilesQuiet
  <1>4. CASE FindStale \/ FindStaleFails \/ MarkStaleFails \/ ScheduledCleanup \/ Expire \/ IntervalPasses
    <2>1. UNCHANGED <<row, blob, referred, form, call>>
      BY <1>4 DEF FindStale, FindStaleFails, MarkStaleFails, ScheduledCleanup, Expire, IntervalPasses, files
    <2> QED
      BY <1>k, <1>4, <2>1, FilesQuiet DEF Next, JanitorStep
  <1>5. CASE EraseStale \/ MarkStale
    <2>n. Next
      BY <1>5 DEF Next, JanitorStep
    <2>1. PICK d \in Uploads : d \in janitor.todo /\ blob' \in {blob, blob \ {d}}
                              /\ row' \in {row, [row EXCEPT ![d] = "DELETED"]}
      BY <1>5 DEF EraseStale, MarkStale, IsNext
    <2>2. UNCHANGED <<referred, form, call>>
      BY <1>5 DEF EraseStale, MarkStale
    <2>3. d \in Calm => form[d] \in Done /\ d \notin referred
      BY <1>k, <2>1 DEF JanitorInv, TodoDone
    <2>4. \A e \in Uploads : e # d => row'[e] = row[e] /\ (e \in blob' <=> e \in blob)
      BY <1>k, <2>1 DEF TypeInv, TypeOK
    <2>5. ASSUME NEW c \in Calls, d \in Calm, call[c].doc = d PROVE call[c].at \notin {"insert", "commit"}
      BY <1>k, <2>3, <2>5 DEF CallInv, Phases, TypeInv, CallSensible, Done
    <2>6. Stored' /\ Taken'
      BY <1>f, <1>k, <2>n, <2>2, <2>4, <2>5 DEF FileInv, Stored, Taken
    <2>7. Staged'
      BY <1>f, <1>k, <2>n, <2>2, <2>3, <2>4 DEF FileInv, Staged, Done
    <2>8. Kept'
      BY <1>f, <1>k, <2>n, <2>2, <2>3, <2>4 DEF FileInv, Kept
    <2> QED
      BY <2>6, <2>7, <2>8 DEF FileInv
  <1>6. CASE Restart
    <2>1. /\ UNCHANGED <<row, blob, referred>> /\ \A c \in Calls : call'[c].at = "idle"
          /\ \A e \in Uploads : form'[e] = "ready" => form[e] = "ready"
      BY <1>k, <1>6, RestartFacts, IdleFacts DEF files
    <2>2. Next
      BY <1>6 DEF Next
    <2> QED
      BY <1>f, <1>k, <2>1, <2>2, FilesQuiet
  <1> QED
    BY <1>u, <1>1, <1>2, <1>3, <1>4, <1>5, <1>6 DEF Next, JanitorStep

(* A document an order points to is in storage and its row attached,       *)
(* whatever other forms, lost answers, the janitor and restarts do, as     *)
(* long as its own form neither gives up, is late nor submits it twice:    *)
(* each of its handlers is alone with it, and the janitor and its cleanups *)
(* only get to it when no order took it.                                   *)
THEOREM ReferredKept == Spec => []ReferredIsKept
  <1>1. Init => KeepInv
    BY TypeInit, CallsInit, JanitorInit, FilesInit DEF KeepInv
  <1>2. KeepInv /\ [Next]_vars => KeepInv'
    BY TypeStep, CallsStep, JanitorInvStep, FilesStep DEF KeepInv
  <1>3. KeepInv => ReferredIsKept
    BY DEF KeepInv, TypeInv, TypeOK, FileInv, Kept, Calm, ReferredIsKept
  <1> QED
    BY <1>1, <1>2, <1>3, PTL DEF Spec

=============================================================================
