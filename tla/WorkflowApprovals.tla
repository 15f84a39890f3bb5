-------------------------- MODULE WorkflowApprovals --------------------------
(***************************************************************************)
(* The approval workflow of A1 Suite: quotes and their public acceptance,  *)
(* the approvals that quotes, legal questions and privacy requests ask     *)
(* for, the owner's decision, the execution of an approved action, its     *)
(* run record, and the retry of a run that a closed period stopped.        *)
(*                                                                         *)
(* As in Receivables every SQL statement commits on its own and a handler  *)
(* is not interrupted by another one, because none of these handlers       *)
(* awaits anything before its last statement.  What can happen between two *)
(* statements is that the process dies, or that a statement throws, which  *)
(* the execution handler catches and records as a failed run.              *)
(***************************************************************************)
EXTENDS Naturals, FiniteSets

CONSTANTS
  Quote,            (* quotes, each for a deal of its own                    *)
  Question,         (* legal questions that need a review                    *)
  PrivacyRequest,   (* privacy export and deletion requests                  *)
  Case,             (* service cases with a seeded reply approval            *)
  CollectionTask,   (* seeded approvals of a CRM collection task             *)
  Period,           (* keys of finance periods                               *)
  None,
  MaxReplies,       (* bound: messages a reply approval may send             *)
  MaxInterrupts     (* bound: crashes and statements that throw              *)

ASSUME NoneIsNoPeriod   == None \notin Period
ASSUME BoundsAreNatural == MaxReplies \in Nat /\ MaxInterrupts \in Nat

(* The approval of a quote has an id made of the quote's; the others belong   *)
(* to one subject each.                                                      *)
Release(q) == <<"crm.quote.release", q>>
Invoice(q) == <<"finance.invoice.propose", q>>
Legal(n)   == <<"legal.answer.approve", n>>
Privacy(r) == <<"privacy.request.approve", r>>
Reply(c)   == <<"service.reply.send", c>>
TaskOf(k)  == <<"crm.task.create", k>>

ReleaseApproval == {Release(q): q \in Quote}
InvoiceApproval == {Invoice(q): q \in Quote}
ReviewApproval  == {Legal(n): n \in Question} \cup {Privacy(r): r \in PrivacyRequest}
SeedApproval    == {Reply(c): c \in Case} \cup {TaskOf(k): k \in CollectionTask}
Approval        == ReleaseApproval \cup InvoiceApproval \cup ReviewApproval \cup SeedApproval

Subject == Question \cup PrivacyRequest \cup Case

(* The subjects are rows of three tables.                                    *)
ASSUME SubjectsApart ==
  /\ Question \cap PrivacyRequest = {}
  /\ Case \cap (Question \cup PrivacyRequest) = {}

VARIABLES
  periodStatus,   (* finance_periods.status; "missing" when there is no row   *)
  sourceReady,    (* the privacy law is active and reviewed by a lawyer       *)
  quote,          (* quotes.status                                            *)
  accepted,       (* quotes with a row in quote_acceptances                   *)
  won,            (* quotes whose deal is in stage Won                        *)
  subject,        (* status of the question, privacy request or service case  *)
  approval,       (* workflow_approvals.status                                *)
  period,         (* period key in the payload of an invoice approval         *)
  run,            (* workflow_runs.status; "locked" is failed and retryable   *)
  results,        (* rows an approval produced: drafts, tasks, messages,      *)
                  (* publications, export packets                             *)
  cpu,            (* the running handler and its next statement               *)
  interrupts      (* how many handlers were cut short                         *)

vars == <<periodStatus, sourceReady, quote, accepted, won, subject, approval, period,
          run, results, cpu, interrupts>>

ExecuteLabel == {"subject", "flag", "run", "executed"}

Idle         == [at |-> "idle"]
AcceptFrame  == [at: {"quote", "deal"}, approval: InvoiceApproval, period: Period]
AskFrame     == [at: {"approval"}, approval: InvoiceApproval \cup ReviewApproval,
                 period: Period \cup {None}]
ExecuteFrame == [at: ExecuteLabel, approval: Approval, period: {None}]

TypeOK ==
  /\ periodStatus \in [Period -> {"open", "closed", "missing"}]
  /\ sourceReady \in BOOLEAN
  /\ quote \in [Quote -> {"none", "draft", "sent", "accepted"}]
  /\ accepted \subseteq Quote /\ won \subseteq Quote
  /\ subject \in [Subject -> {"none", "open", "published", "handled"}]
  /\ approval \in [Approval -> {"none", "pending", "approved", "rejected", "executed"}]
  /\ period \in [Quote -> Period \cup {None}]
  /\ run \in [Approval -> {"none", "completed", "failed", "locked"}]
  /\ results \in [Approval \ ReleaseApproval -> Nat]
  /\ cpu \in {Idle} \cup AcceptFrame \cup AskFrame \cup ExecuteFrame
  /\ interrupts \in 0..MaxInterrupts

Init ==
  /\ periodStatus \in [Period -> {"open", "closed", "missing"}]
  /\ sourceReady = FALSE
  /\ quote = [q \in Quote |-> "none"]
  /\ accepted = {} /\ won = {}
  /\ subject = [s \in Subject |-> IF s \in Case THEN "open" ELSE "none"]
  /\ approval = [a \in Approval |-> IF a \in SeedApproval THEN "pending" ELSE "none"]
  /\ period = [q \in Quote |-> None]
  /\ run = [a \in Approval |-> "none"]
  /\ results = [a \in Approval \ ReleaseApproval |-> 0]
  /\ cpu = Idle /\ interrupts = 0

-----------------------------------------------------------------------------
IsOpen(p) == p \in Period /\ periodStatus[p] = "open"

(* How often the action of an approval took effect.                          *)
Times(a) ==
  IF a \in ReleaseApproval THEN IF quote[a[2]] \in {"sent", "accepted"} THEN 1 ELSE 0
                           ELSE results[a]

Run(label, a, p) == cpu' = [at |-> label, approval |-> a, period |-> p]
Goto(label)      == Run(label, cpu.approval, cpu.period)

-----------------------------------------------------------------------------
(* Settings: closing and reopening a period that exists, and reviewing the    *)
(* privacy law, as a lawyer or not.                                          *)

SetPeriod(p, status) ==
  /\ cpu = Idle
  /\ periodStatus[p] # "missing"
  /\ periodStatus' = [periodStatus EXCEPT ![p] = status]
  /\ UNCHANGED <<sourceReady, quote, accepted, won, subject, approval, period, run, results,
                 cpu, interrupts>>

ReviewSource(ready) ==
  /\ cpu = Idle
  /\ sourceReady' = ready
  /\ UNCHANGED <<periodStatus, quote, accepted, won, subject, approval, period, run, results,
                 cpu, interrupts>>

-----------------------------------------------------------------------------
(* Requests that end in an approval.                                         *)

(* createCrmQuote *)
CreateQuote(q) ==
  /\ cpu = Idle
  /\ quote[q] = "none"
  /\ quote' = [quote EXCEPT ![q] = "draft"]
  /\ UNCHANGED <<periodStatus, sourceReady, accepted, won, subject, approval, period, run,
                 results, cpu, interrupts>>

(* requestQuoteReleaseApproval: any earlier approval, also a rejected one, is *)
(* answered as it is.                                                        *)
RequestRelease(q) ==
  /\ cpu = Idle
  /\ quote[q] = "draft"
  /\ approval[Release(q)] = "none"
  /\ approval' = [approval EXCEPT ![Release(q)] = "pending"]
  /\ UNCHANGED <<periodStatus, sourceReady, quote, accepted, won, subject, period, run,
                 results, cpu, interrupts>>

(* createLegalQuestion and createPrivacyRequest: the question or the request, *)
(* then its approval.                                                        *)
RequestReview(s) ==
  /\ cpu = Idle
  /\ subject[s] = "none"
  /\ s \in PrivacyRequest => sourceReady
  /\ subject' = [subject EXCEPT ![s] = "open"]
  /\ Run("approval", IF s \in PrivacyRequest THEN Privacy(s) ELSE Legal(s), None)
  /\ UNCHANGED <<periodStatus, sourceReady, quote, accepted, won, approval, period, run,
                 results, interrupts>>

(* Mutant: a draft can be accepted by whoever knows its link.                *)
AcceptUnreleased(q, p) ==
  /\ cpu = Idle
  /\ q \notin accepted
  /\ quote[q] \in {"draft", "sent"}
  /\ accepted' = accepted \cup {q}
  /\ Run("quote", Invoice(q), p)
  /\ UNCHANGED <<periodStatus, sourceReady, quote, won, subject, approval, period, run,
                 results, interrupts>>

(* acceptPublicQuote: the customer chooses the day of the acceptance, so its  *)
(* period may be closed or unknown.  A quote that has an acceptance is       *)
(* answered with what is there.                                              *)
Accept(q, p) ==
  /\ cpu = Idle
  /\ q \notin accepted
  /\ quote[q] = "sent"
  /\ accepted' = accepted \cup {q}
  /\ Run("quote", Invoice(q), p)
  /\ UNCHANGED <<periodStatus, sourceReady, quote, won, subject, approval, period, run,
                 results, interrupts>>

AcceptQuote ==
  /\ cpu.at = "quote"
  /\ quote' = [quote EXCEPT ![cpu.approval[2]] = "accepted"]
  /\ Goto("deal")
  /\ UNCHANGED <<periodStatus, sourceReady, accepted, won, subject, approval, period, run,
                 results, interrupts>>

(* Mutant: the deal is never moved to Won.                                   *)
WinNothing ==
  /\ cpu.at = "deal"
  /\ Goto("approval")
  /\ UNCHANGED <<periodStatus, sourceReady, quote, accepted, won, subject, approval, period,
                 run, results, interrupts>>

WinDeal ==
  /\ cpu.at = "deal"
  /\ won' = won \cup {cpu.approval[2]}
  /\ Goto("approval")
  /\ UNCHANGED <<periodStatus, sourceReady, quote, accepted, subject, approval, period, run,
                 results, interrupts>>

(* ensureQuoteFinanceApproval, createLegalAnswerApproval and                 *)
(* createPrivacyRequestApproval                                              *)
InsertApproval ==
  /\ cpu.at = "approval"
  /\ approval[cpu.approval] = "none"
  /\ approval' = [approval EXCEPT ![cpu.approval] = "pending"]
  /\ period' = IF cpu.approval \in InvoiceApproval
               THEN [period EXCEPT ![cpu.approval[2]] = cpu.period] ELSE period
  /\ cpu' = Idle
  /\ UNCHANGED <<periodStatus, sourceReady, quote, accepted, won, subject, run, results,
                 interrupts>>

(* Mutant: an approval can be decided again.                                 *)
DecideAgain(a, decision) ==
  /\ cpu = Idle
  /\ approval[a] \in {"pending", "approved", "rejected"}
  /\ approval' = [approval EXCEPT ![a] = decision]
  /\ UNCHANGED <<periodStatus, sourceReady, quote, accepted, won, subject, period, run,
                 results, cpu, interrupts>>

(* POST /api/workflow/approvals/:id/decision                                 *)
Decide(a, decision) ==
  /\ cpu = Idle
  /\ approval[a] = "pending"
  /\ approval' = [approval EXCEPT ![a] = decision]
  /\ UNCHANGED <<periodStatus, sourceReady, quote, accepted, won, subject, period, run,
                 results, cpu, interrupts>>

-----------------------------------------------------------------------------
(* POST /api/workflow/approvals/:id/execute.  A run that exists, failed or   *)
(* not, is answered as it is.                                                *)

(* Mutant: only a rejected approval is refused.                              *)
MayExecutePending(a) == cpu = Idle /\ approval[a] \notin {"none", "rejected"} /\ run[a] = "none"

(* Mutant: the run of an earlier execution is not looked for.                *)
MayExecuteAgain(a) == cpu = Idle /\ approval[a] \in {"approved", "executed"}

MayExecute(a) == cpu = Idle /\ approval[a] \in {"approved", "executed"} /\ run[a] = "none"

(* recordWorkflowRunFailure, from the catch of the execution handler          *)
FailRun(a, status) == run' = [run EXCEPT ![a] = status] /\ UNCHANGED <<results, cpu>>

(* The first statement that produces a result; what an earlier, interrupted  *)
(* execution produced is taken as it is.                                     *)
Produce(a, next) ==
  /\ results' = [results EXCEPT ![a] = 1]
  /\ Run(IF results[a] = 0 THEN next ELSE "run", a, None)
  /\ UNCHANGED run

(* releaseQuoteFromApproval *)
ExecuteRelease(q) ==
  /\ MayExecute(Release(q))
  /\ quote' = IF quote[q] = "draft" THEN [quote EXCEPT ![q] = "sent"] ELSE quote
  /\ Run("run", Release(q), None)
  /\ UNCHANGED <<periodStatus, sourceReady, accepted, won, subject, approval, period, run,
                 results, interrupts>>

(* Mutant: a closed period stops the draft and not the rest.                 *)
ExecuteInvoiceAnyway(q) ==
  /\ MayExecute(Invoice(q))
  /\ IF IsOpen(period[q]) THEN Produce(Invoice(q), "run")
     ELSE Run("run", Invoice(q), None) /\ UNCHANGED <<results, run>>
  /\ UNCHANGED <<periodStatus, sourceReady, quote, accepted, won, subject, approval, period,
                 interrupts>>

(* createDraftInvoiceFromApproval: the period comes before the existing draft. *)
ExecuteInvoice(q) ==
  /\ MayExecute(Invoice(q))
  /\ IF IsOpen(period[q]) THEN Produce(Invoice(q), "run") ELSE FailRun(Invoice(q), "locked")
  /\ UNCHANGED <<periodStatus, sourceReady, quote, accepted, won, subject, approval, period,
                 interrupts>>

(* createCrmTaskFromApproval does not look for the task of an earlier        *)
(* execution: the unique source_key makes the INSERT throw.                  *)
ExecuteTask(k) ==
  LET a == TaskOf(k) IN
  /\ MayExecute(a)
  /\ IF results[a] = 0 THEN Produce(a, "run") ELSE FailRun(a, "failed")
  /\ UNCHANGED <<periodStatus, sourceReady, quote, accepted, won, subject, approval, period,
                 interrupts>>

(* createServiceReplyFromApproval: a message has no source key.              *)
ExecuteReply(c) ==
  LET a == Reply(c) IN
  /\ MayExecute(a)
  /\ results[a] < MaxReplies
  /\ results' = [results EXCEPT ![a] = @ + 1]
  /\ Run("subject", a, None)
  /\ UNCHANGED <<periodStatus, sourceReady, quote, accepted, won, subject, approval, period,
                 run, interrupts>>

(* publishLegalAnswerFromApproval *)
ExecuteLegal(n) ==
  /\ MayExecute(Legal(n))
  /\ Produce(Legal(n), "subject")
  /\ UNCHANGED <<periodStatus, sourceReady, quote, accepted, won, subject, approval, period,
                 interrupts>>

(* createPrivacyExportPacketFromRequest and its deletion counterpart: a new  *)
(* packet needs the reviewed law, an existing one is taken as it is.         *)
ExecutePrivacy(r) ==
  LET a == Privacy(r) IN
  /\ MayExecute(a)
  /\ IF results[a] > 0 \/ sourceReady THEN Produce(a, "subject") ELSE FailRun(a, "failed")
  /\ UNCHANGED <<periodStatus, sourceReady, quote, accepted, won, subject, approval, period,
                 interrupts>>

(* retryDraftInvoiceWorkflowRun; a period that is still closed is an error   *)
(* that leaves the run as it is.                                             *)
Retry(q) ==
  /\ cpu = Idle
  /\ run[Invoice(q)] = "locked"
  /\ IsOpen(period[q])
  /\ Produce(Invoice(q), "run")
  /\ UNCHANGED <<periodStatus, sourceReady, quote, accepted, won, subject, approval, period,
                 interrupts>>

(* The second half of the three actions that change their subject: the case   *)
(* waits for the customer, the request is fulfilled, the question published. *)
MarkSubject ==
  /\ cpu.at = "subject"
  /\ LET a == cpu.approval
         isLegal == a[2] \in Question IN
     /\ subject' = [subject EXCEPT ![a[2]] = IF isLegal THEN "published" ELSE "handled"]
     /\ Goto(IF isLegal THEN "flag" ELSE "run")
  /\ UNCHANGED <<periodStatus, sourceReady, quote, accepted, won, approval, period, run,
                 results, interrupts>>

(* The review_required flag of the answer.                                   *)
ClearFlag ==
  /\ cpu.at = "flag"
  /\ subject' = [subject EXCEPT ![cpu.approval[2]] = "handled"]
  /\ Goto("run")
  /\ UNCHANGED <<periodStatus, sourceReady, quote, accepted, won, approval, period, run,
                 results, interrupts>>

(* INSERT INTO workflow_runs, or its UPDATE by a retry                       *)
RecordRun ==
  /\ cpu.at = "run"
  /\ run' = [run EXCEPT ![cpu.approval] = "completed"]
  /\ Goto("executed")
  /\ UNCHANGED <<periodStatus, sourceReady, quote, accepted, won, subject, approval, period,
                 results, interrupts>>

MarkExecuted ==
  /\ cpu.at = "executed"
  /\ approval' = [approval EXCEPT ![cpu.approval] = "executed"]
  /\ cpu' = Idle
  /\ UNCHANGED <<periodStatus, sourceReady, quote, accepted, won, subject, period, run,
                 results, interrupts>>

-----------------------------------------------------------------------------
(* A handler is cut short.                                                   *)

Crash ==
  /\ cpu # Idle
  /\ interrupts < MaxInterrupts
  /\ interrupts' = interrupts + 1
  /\ cpu' = Idle
  /\ UNCHANGED <<periodStatus, sourceReady, quote, accepted, won, subject, approval, period,
                 run, results>>

(* The failed run of a statement that throws; with a run already there the   *)
(* INSERT breaks the unique index, and a retry catches nothing.              *)
FailedIfNone(a) == run' = IF run[a] = "none" THEN [run EXCEPT ![a] = "failed"] ELSE run

(* A statement of the execution throws, the database being busy or full: the  *)
(* first one, which leaves nothing but the failed run, or a later one.       *)
FirstStatementThrows(a) ==
  /\ MayExecute(a)
  /\ interrupts < MaxInterrupts
  /\ interrupts' = interrupts + 1
  /\ FailRun(a, "failed")
  /\ UNCHANGED <<periodStatus, sourceReady, quote, accepted, won, subject, approval, period>>

StatementThrows ==
  /\ cpu.at \in ExecuteLabel
  /\ interrupts < MaxInterrupts
  /\ interrupts' = interrupts + 1
  /\ FailedIfNone(cpu.approval)
  /\ cpu' = Idle
  /\ UNCHANGED <<periodStatus, sourceReady, quote, accepted, won, subject, approval, period,
                 results>>

Next ==
  \/ \E p \in Period: SetPeriod(p, "open") \/ SetPeriod(p, "closed")
  \/ \E ready \in BOOLEAN: ReviewSource(ready)
  \/ \E q \in Quote: CreateQuote(q) \/ RequestRelease(q)
  \/ \E q \in Quote, p \in Period: Accept(q, p)
  \/ \E s \in Question \cup PrivacyRequest: RequestReview(s)
  \/ \E a \in Approval: Decide(a, "approved") \/ Decide(a, "rejected")
  \/ \E q \in Quote: ExecuteRelease(q) \/ ExecuteInvoice(q) \/ Retry(q)
  \/ \E k \in CollectionTask: ExecuteTask(k)
  \/ \E c \in Case: ExecuteReply(c)
  \/ \E n \in Question: ExecuteLegal(n)
  \/ \E r \in PrivacyRequest: ExecutePrivacy(r)
  \/ AcceptQuote \/ WinDeal \/ InsertApproval
  \/ MarkSubject \/ ClearFlag \/ RecordRun \/ MarkExecuted
  \/ \E a \in Approval: FirstStatementThrows(a)
  \/ Crash \/ StatementThrows

Spec == Init /\ [][Next]_vars
-----------------------------------------------------------------------------
(* Properties.                                                               *)

(* Nothing is released, invoiced, published, exported, answered or put on the *)
(* task list without an owner's approval, and the approval is never rejected *)
(* afterwards: POST .../decision and .../execute with whatever was cut short *)
(* before.                                                                   *)
OwnerApproved ==
  \A a \in Approval: Times(a) > 0 => approval[a] \in {"approved", "executed"}

(* A draft invoice can be traced: its quote was released with the owner's     *)
(* approval, the customer accepted it, its deal is won and the invoice was   *)
(* approved as well, whichever statements a crash left undone.               *)
InvoiceHasProvenance ==
  \A q \in Quote: results[Invoice(q)] > 0 =>
    /\ q \in accepted \cap won
    /\ quote[q] = "accepted"
    /\ \A a \in {Release(q), Invoice(q)}: approval[a] \in {"approved", "executed"}

(* An approval marked executed has a completed run and its result: no failure *)
(* and no crash makes the owner's list claim something that did not happen.  *)
ExecutedIsDone ==
  \A a \in Approval: approval[a] = "executed" => run[a] = "completed" /\ Times(a) > 0

(* The rows that handlers write for an approval agree: acceptance, quote,     *)
(* deal and invoice approval; the review, its request and what it did; the   *)
(* run and the approval's own status.                                        *)
Agrees(a) ==
  /\ a \in InvoiceApproval =>
       LET q == a[2] IN /\ q \in accepted <=> quote[q] = "accepted"
                        /\ q \in accepted <=> q \in won
                        /\ q \in accepted <=> approval[a] # "none"
  /\ a \in ReviewApproval => /\ subject[a[2]] = "none" <=> approval[a] = "none"
                             /\ subject[a[2]] = "handled" <=> run[a] = "completed"
  /\ run[a] = "completed" <=> approval[a] = "executed"

(* Whenever no handler runs, the approvals whose rows do not agree are at     *)
(* most the interruptions: a handler that dies or throws halfway leaves its  *)
(* own rows apart, for good or until a repetition repairs them (app.js:55922, *)
(* 57348), and those of no other approval, then or by what runs later.       *)
HandlersComplete ==
  cpu = Idle => Cardinality({a \in Approval: ~Agrees(a)}) <= interrupts

(* A reply has no key of its own, and an execution that dies before its run   *)
(* is repeated: the customer gets one reply, and one more for each time an   *)
(* execution was cut short, never two for a double click (app.js:57434).     *)
RepliesAreCrashes == \A c \in Case: results[Reply(c)] <= 1 + interrupts

(* A draft invoice is created only while its period is open: the period was   *)
(* chosen by the customer, may be closed after the approval and reopened     *)
(* before a retry.                                                           *)
DraftInOpenPeriod ==
  [][\A q \in Quote: results'[Invoice(q)] > results[Invoice(q)] => IsOpen(period[q])]_vars

(* A completed run stays completed: neither a second execution, nor a retry,  *)
(* nor the failure of a later statement rewrites it.                         *)
CompletedStays ==
  [][\A a \in Approval: run[a] = "completed" => run'[a] = "completed"]_vars

(* The workflow does what it promises: every action at most once and after    *)
(* its approval.  A service reply breaks the promise, see RepliesAreCrashes;  *)
(* the others keep it through crashes.                                       *)
Gov == INSTANCE GovernedActions WITH
  decision <- [a \in Approval |-> IF approval[a] = "executed" THEN "approved" ELSE approval[a]],
  times    <- [a \in Approval |-> Times(a)]

GovernedOnce == Gov!Spec
=============================================================================
