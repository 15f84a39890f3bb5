----------------------- MODULE WorkflowApprovalsProofs -----------------------
(***************************************************************************)
(* What TLAPS proves of the approval workflow for every set of quotes,     *)
(* questions, requests, cases, tasks and periods, and any number of crashes *)
(* and failing statements.                                                 *)
(***************************************************************************)
EXTENDS WorkflowApprovals, FiniteSetTheorems, TLAPS

(* The label of a frame tells its kind, its kind what it belongs to.         *)
LEMMA Frames ==
  ASSUME TypeOK
  PROVE  /\ cpu = Idle <=> cpu.at = "idle"
         /\ cpu.at \in {"quote", "deal"} => cpu \in AcceptFrame
         /\ cpu.at = "approval" => cpu \in AskFrame
         /\ cpu.at \in ExecuteLabel => cpu \in ExecuteFrame
BY DEF TypeOK, Idle, AcceptFrame, AskFrame, ExecuteFrame, ExecuteLabel

(* What a handler is after it went on.                                       *)
LEMMA GoesOn ==
  ASSUME TypeOK, NEW label, Goto(label)
  PROVE  /\ cpu.at # "idle" => cpu'.at = label /\ cpu'.approval = cpu.approval
         /\ cpu.at \in {"quote", "deal"} /\ label \in {"quote", "deal"} => cpu' \in AcceptFrame
         /\ cpu.at \in {"quote", "deal"} /\ label = "approval" => cpu' \in AskFrame
         /\ cpu.at \in ExecuteLabel /\ label \in ExecuteLabel => cpu' \in ExecuteFrame
BY Frames DEF Goto, Run, AcceptFrame, AskFrame, ExecuteFrame

(* The frame of an execution.                                                *)
LEMMA Executes ==
  ASSUME NEW label \in ExecuteLabel, NEW a \in Approval, Run(label, a, None)
  PROVE  cpu' \in ExecuteFrame /\ cpu'.at = label /\ cpu'.approval = a
BY DEF Run, ExecuteFrame

LEMMA Kinds ==
  /\ \A q \in Quote: Release(q) \in Approval /\ Invoice(q) \in Approval
  /\ \A n \in Question: Legal(n) \in Approval
  /\ \A r \in PrivacyRequest: Privacy(r) \in Approval
  /\ \A c \in Case: Reply(c) \in Approval
  /\ \A k \in CollectionTask: TaskOf(k) \in Approval
BY DEF Approval, ReleaseApproval, InvoiceApproval, ReviewApproval, SeedApproval

(* Every kind of approval but a release counts its results.                  *)
LEMMA Counted ==
  /\ \A q \in Quote: Invoice(q) \notin ReleaseApproval
  /\ \A n \in Question: Legal(n) \notin ReleaseApproval
  /\ \A r \in PrivacyRequest: Privacy(r) \notin ReleaseApproval
  /\ \A c \in Case: Reply(c) \notin ReleaseApproval
  /\ \A k \in CollectionTask: TaskOf(k) \notin ReleaseApproval
BY DEF ReleaseApproval, Release, Invoice, Legal, Privacy, Reply, TaskOf

-----------------------------------------------------------------------------
(* Type correctness.                                                         *)

LEMMA ProduceType ==
  ASSUME TypeOK, NEW a \in Approval, NEW next \in ExecuteLabel, Produce(a, next)
  PROVE  /\ results' \in [Approval \ ReleaseApproval -> Nat]
         /\ cpu' \in ExecuteFrame
         /\ run' = run
<1>1. run' = run  BY DEF Produce
<1>2. results' \in [Approval \ ReleaseApproval -> Nat]  BY DEF Produce, TypeOK
<1>3. (IF results[a] = 0 THEN next ELSE "run") \in ExecuteLabel
  BY DEF ExecuteLabel
<1>4. cpu' \in ExecuteFrame  BY <1>3, Executes DEF Produce
<1> QED  BY <1>1, <1>2, <1>4

LEMMA FailType ==
  ASSUME TypeOK, NEW a \in Approval, NEW status \in {"failed", "locked"}, FailRun(a, status)
  PROVE  /\ run' \in [Approval -> {"none", "completed", "failed", "locked"}]
         /\ results' = results /\ cpu' = cpu
BY DEF TypeOK, FailRun

(* An interrupt is counted up to its bound.                                  *)
LEMMA InterruptType ==
  ASSUME TypeOK, interrupts < MaxInterrupts, interrupts' = interrupts + 1
  PROVE  interrupts' \in 0..MaxInterrupts
BY BoundsAreNatural DEF TypeOK

LEMMA TypeInit == Init => TypeOK
<1> SUFFICES ASSUME Init PROVE TypeOK  OBVIOUS
<1>1. interrupts \in 0..MaxInterrupts  BY BoundsAreNatural DEF Init
<1> QED  BY <1>1 DEF Init, TypeOK, Idle

LEMMA TypeStep == TypeOK /\ [Next]_vars => TypeOK'
<1> SUFFICES ASSUME TypeOK, [Next]_vars PROVE TypeOK'  OBVIOUS
<1> USE Kinds
<1>1. ASSUME NEW p \in Period, NEW status \in {"open", "closed"}, SetPeriod(p, status) PROVE TypeOK'
  BY <1>1 DEF TypeOK, SetPeriod
<1>2. ASSUME NEW ready \in BOOLEAN, ReviewSource(ready) PROVE TypeOK'
  BY <1>2 DEF TypeOK, ReviewSource
<1>3. ASSUME NEW q \in Quote, CreateQuote(q) PROVE TypeOK'
  BY <1>3 DEF TypeOK, CreateQuote
<1>4. ASSUME NEW q \in Quote, RequestRelease(q) PROVE TypeOK'
  BY <1>4 DEF TypeOK, RequestRelease
<1>5. ASSUME NEW q \in Quote, NEW p \in Period, Accept(q, p) PROVE TypeOK'
  <2>1. cpu' \in AcceptFrame
    BY <1>5 DEF Accept, Run, AcceptFrame, InvoiceApproval
  <2> QED  BY <1>5, <2>1 DEF TypeOK, Accept
<1>6. ASSUME NEW s \in Question \cup PrivacyRequest, RequestReview(s) PROVE TypeOK'
  <2>1. (IF s \in PrivacyRequest THEN Privacy(s) ELSE Legal(s)) \in ReviewApproval
    BY DEF ReviewApproval
  <2>2. cpu' \in AskFrame  BY <1>6, <2>1 DEF RequestReview, Run, AskFrame
  <2> QED  BY <1>6, <2>2 DEF TypeOK, RequestReview
<1>7. ASSUME NEW a \in Approval, NEW decision \in {"approved", "rejected"}, Decide(a, decision)
      PROVE TypeOK'
  BY <1>7 DEF TypeOK, Decide
<1>8. ASSUME NEW q \in Quote, ExecuteRelease(q) PROVE TypeOK'
  <2>1. cpu' \in ExecuteFrame  BY <1>8, Executes DEF ExecuteRelease, ExecuteLabel
  <2> QED  BY <1>8, <2>1 DEF TypeOK, ExecuteRelease
<1>9. ASSUME NEW q \in Quote, ExecuteInvoice(q) PROVE TypeOK'
  <2>1. CASE Produce(Invoice(q), "run")
    BY <1>9, <2>1, ProduceType DEF TypeOK, ExecuteInvoice, ExecuteLabel
  <2>2. CASE FailRun(Invoice(q), "locked")
    BY <1>9, <2>2, FailType DEF TypeOK, ExecuteInvoice
  <2> QED  BY <1>9, <2>1, <2>2 DEF ExecuteInvoice
<1>10. ASSUME NEW q \in Quote, Retry(q) PROVE TypeOK'
  <2>1. Produce(Invoice(q), "run")  BY <1>10 DEF Retry
  <2> QED  BY <1>10, <2>1, ProduceType DEF TypeOK, Retry, ExecuteLabel
<1>11. ASSUME NEW k \in CollectionTask, ExecuteTask(k) PROVE TypeOK'
  <2>1. CASE Produce(TaskOf(k), "run")
    BY <1>11, <2>1, ProduceType DEF TypeOK, ExecuteTask, ExecuteLabel
  <2>2. CASE FailRun(TaskOf(k), "failed")
    BY <1>11, <2>2, FailType DEF TypeOK, ExecuteTask
  <2> QED  BY <1>11, <2>1, <2>2 DEF ExecuteTask
<1>12. ASSUME NEW c \in Case, ExecuteReply(c) PROVE TypeOK'
  <2>1. cpu' \in ExecuteFrame  BY <1>12, Executes DEF ExecuteReply, ExecuteLabel
  <2>2. results' \in [Approval \ ReleaseApproval -> Nat]
    BY <1>12, Counted DEF TypeOK, ExecuteReply
  <2> QED  BY <1>12, <2>1, <2>2 DEF TypeOK, ExecuteReply
<1>13. ASSUME NEW n \in Question, ExecuteLegal(n) PROVE TypeOK'
  <2>1. Produce(Legal(n), "subject")  BY <1>13 DEF ExecuteLegal
  <2> QED  BY <1>13, <2>1, ProduceType DEF TypeOK, ExecuteLegal, ExecuteLabel
<1>14. ASSUME NEW r \in PrivacyRequest, ExecutePrivacy(r) PROVE TypeOK'
  <2>1. CASE Produce(Privacy(r), "subject")
    BY <1>14, <2>1, ProduceType DEF TypeOK, ExecutePrivacy, ExecuteLabel
  <2>2. CASE FailRun(Privacy(r), "failed")
    BY <1>14, <2>2, FailType DEF TypeOK, ExecutePrivacy
  <2> QED  BY <1>14, <2>1, <2>2 DEF ExecutePrivacy
<1>15. CASE AcceptQuote
  <2>1. cpu' \in AcceptFrame  BY <1>15, GoesOn DEF AcceptQuote
  <2> QED  BY <1>15, <2>1 DEF TypeOK, AcceptQuote
<1>16. CASE WinDeal
  <2>1. cpu' \in AskFrame  BY <1>16, GoesOn DEF WinDeal
  <2>2. cpu.approval[2] \in Quote  BY <1>16, Frames DEF WinDeal, AcceptFrame, InvoiceApproval, Invoice
  <2>3. won' \subseteq Quote  BY <1>16, <2>2 DEF WinDeal, TypeOK
  <2> QED  BY <1>16, <2>1, <2>3 DEF TypeOK, WinDeal
<1>17. CASE InsertApproval
  <2>1. cpu \in AskFrame  BY <1>17, Frames DEF InsertApproval
  <2>2. period' \in [Quote -> Period \cup {None}]
    BY <1>17, <2>1 DEF InsertApproval, TypeOK, AskFrame
  <2> QED  BY <1>17, <2>2 DEF TypeOK, InsertApproval
<1>18. CASE MarkSubject
  <2>1. CASE cpu.approval[2] \in Question
    <3>1. Goto("flag")  BY <1>18, <2>1 DEF MarkSubject
    <3>2. cpu' \in ExecuteFrame  BY <1>18, <3>1, GoesOn DEF MarkSubject, ExecuteLabel
    <3> QED  BY <1>18, <3>2 DEF TypeOK, MarkSubject
  <2>2. CASE cpu.approval[2] \notin Question
    <3>1. Goto("run")  BY <1>18, <2>2 DEF MarkSubject
    <3>2. cpu' \in ExecuteFrame  BY <1>18, <3>1, GoesOn DEF MarkSubject, ExecuteLabel
    <3> QED  BY <1>18, <3>2 DEF TypeOK, MarkSubject
  <2> QED  BY <2>1, <2>2
<1>19. CASE ClearFlag
  <2>1. cpu' \in ExecuteFrame  BY <1>19, GoesOn DEF ClearFlag, ExecuteLabel
  <2> QED  BY <1>19, <2>1 DEF TypeOK, ClearFlag
<1>20. CASE RecordRun
  <2>1. cpu' \in ExecuteFrame  BY <1>20, GoesOn DEF RecordRun, ExecuteLabel
  <2> QED  BY <1>20, <2>1 DEF TypeOK, RecordRun
<1>21. CASE MarkExecuted
  BY <1>21 DEF TypeOK, MarkExecuted
<1>22. CASE Crash
  BY <1>22, InterruptType DEF TypeOK, Crash
<1>23. CASE StatementThrows
  BY <1>23, InterruptType DEF TypeOK, StatementThrows, FailedIfNone
<1>24. ASSUME NEW a \in Approval, FirstStatementThrows(a) PROVE TypeOK'
  BY <1>24, FailType, InterruptType DEF TypeOK, FirstStatementThrows
<1>25. CASE UNCHANGED vars
  BY <1>25 DEF TypeOK, vars
<1> QED  BY <1>1, <1>2, <1>3, <1>4, <1>5, <1>6, <1>7, <1>8, <1>9, <1>10, <1>11, <1>12, <1>13,
            <1>14, <1>15, <1>16, <1>17, <1>18, <1>19, <1>20, <1>21, <1>22, <1>23, <1>24, <1>25
         DEF Next

(* Every table and the running handler keep their type.                      *)
THEOREM TypeCorrect == Spec => []TypeOK
BY TypeInit, TypeStep, PTL DEF Spec
-----------------------------------------------------------------------------
(* The steps, as far as quotes, approvals, runs and results are concerned:   *)
(* the six executions and the retry act or fail alike.                       *)

Decided(a) == approval[a] \in {"approved", "executed"}

(* A run that a retry may complete belongs to a decided approval.            *)
LockedIsDecided == \A a \in Approval: run[a] = "locked" => Decided(a)

Tables == <<quote, accepted, won, approval, run, results>>

(* The first statement of an execution or a retry produces a result.         *)
Acts(a) ==
  /\ cpu = Idle /\ Decided(a)
  /\ results' = [results EXCEPT ![a] = results'[a]]
  /\ results'[a] > 0
  /\ results'[a] = 1 \/ a \in {Reply(c): c \in Case}
  /\ cpu'.at \in ExecuteLabel \ {"executed"} /\ cpu'.approval = a
  /\ UNCHANGED <<quote, accepted, won, approval, run>>

(* The first statement of an execution fails, or its guardrail does.         *)
Fails(a) ==
  /\ Decided(a)
  /\ run[a] = "none"
  /\ \E status \in {"failed", "locked"}: run' = [run EXCEPT ![a] = status]
  /\ UNCHANGED <<quote, accepted, won, approval, results, cpu>>

(* An execution goes on with its subject.                                    *)
Proceeds ==
  /\ cpu.at \in ExecuteLabel \ {"executed"}
  /\ cpu'.at \in ExecuteLabel \ {"executed"} /\ cpu'.approval = cpu.approval
  /\ UNCHANGED Tables

LEMMA ProduceActs ==
  ASSUME TypeOK, cpu = Idle, NEW a \in Approval \ ReleaseApproval, Decided(a),
         NEW next \in ExecuteLabel \ {"executed"}, Produce(a, next),
         UNCHANGED <<quote, accepted, won, approval>>
  PROVE  Acts(a)
<1>1. run' = run /\ results' = [results EXCEPT ![a] = 1]  BY DEF Produce
<1>2. results'[a] = 1  BY <1>1 DEF TypeOK
<1>3. (IF results[a] = 0 THEN next ELSE "run") \in ExecuteLabel \ {"executed"}
  BY DEF ExecuteLabel
<1>4. cpu'.at \in ExecuteLabel \ {"executed"} /\ cpu'.approval = a
  BY <1>3 DEF Produce, Run
<1>5. results' = [results EXCEPT ![a] = results'[a]]  BY <1>1, <1>2
<1>6. results'[a] > 0  BY <1>2
<1> QED  BY <1>1, <1>2, <1>4, <1>5, <1>6 DEF Acts

LEMMA FailRunFails ==
  ASSUME NEW a \in Approval, MayExecute(a), NEW status \in {"failed", "locked"},
         FailRun(a, status), UNCHANGED <<quote, accepted, won, approval>>
  PROVE  Fails(a)
BY DEF Fails, FailRun, MayExecute, Decided

LEMMA Steps ==
  ASSUME TypeOK, LockedIsDecided, [Next]_vars
  PROVE  \/ UNCHANGED Tables /\ cpu' \in {cpu, Idle}
         \/ \E q \in Quote: CreateQuote(q) \/ RequestRelease(q) \/ ExecuteRelease(q)
         \/ \E q \in Quote, p \in Period: Accept(q, p)
         \/ \E s \in Question \cup PrivacyRequest: RequestReview(s)
         \/ \E a \in Approval, decision \in {"approved", "rejected"}: Decide(a, decision)
         \/ \E a \in Approval \ ReleaseApproval: Acts(a)
         \/ \E a \in Approval: Fails(a)
         \/ Proceeds
         \/ AcceptQuote \/ WinDeal \/ InsertApproval
         \/ RecordRun \/ MarkExecuted \/ StatementThrows
<1> USE Kinds, Counted
<1>1. ASSUME NEW p \in Period, NEW status \in {"open", "closed"}, SetPeriod(p, status)
      PROVE  UNCHANGED Tables /\ cpu' = cpu
  BY <1>1 DEF SetPeriod, Tables
<1>2. ASSUME NEW ready \in BOOLEAN, ReviewSource(ready) PROVE UNCHANGED Tables /\ cpu' = cpu
  BY <1>2 DEF ReviewSource, Tables
<1>3. ASSUME NEW q \in Quote, ExecuteInvoice(q) PROVE Acts(Invoice(q)) \/ Fails(Invoice(q))
  <2>1. MayExecute(Invoice(q)) /\ UNCHANGED <<quote, accepted, won, approval>>
    BY <1>3 DEF ExecuteInvoice
  <2>2. CASE Produce(Invoice(q), "run")
    BY <2>1, <2>2, ProduceActs DEF MayExecute, Decided, ExecuteLabel
  <2>3. CASE FailRun(Invoice(q), "locked")
    BY <2>1, <2>3, FailRunFails
  <2> QED  BY <1>3, <2>2, <2>3 DEF ExecuteInvoice
<1>4. ASSUME NEW q \in Quote, Retry(q) PROVE Acts(Invoice(q))
  <2>1. Decided(Invoice(q))  BY <1>4 DEF Retry, LockedIsDecided
  <2> QED  BY <1>4, <2>1, ProduceActs DEF Retry, ExecuteLabel
<1>5. ASSUME NEW k \in CollectionTask, ExecuteTask(k) PROVE Acts(TaskOf(k)) \/ Fails(TaskOf(k))
  <2>1. MayExecute(TaskOf(k)) /\ UNCHANGED <<quote, accepted, won, approval>>
    BY <1>5 DEF ExecuteTask
  <2>2. CASE Produce(TaskOf(k), "run")
    BY <2>1, <2>2, ProduceActs DEF MayExecute, Decided, ExecuteLabel
  <2>3. CASE FailRun(TaskOf(k), "failed")
    BY <2>1, <2>3, FailRunFails
  <2> QED  BY <1>5, <2>2, <2>3 DEF ExecuteTask
<1>6. ASSUME NEW c \in Case, ExecuteReply(c) PROVE Acts(Reply(c))
  <2>1. results'[Reply(c)] = results[Reply(c)] + 1 /\ results[Reply(c)] \in Nat
    BY <1>6 DEF ExecuteReply, TypeOK
  <2>2. results' = [results EXCEPT ![Reply(c)] = results'[Reply(c)]]
    BY <1>6 DEF ExecuteReply, TypeOK
  <2>3. cpu'.at = "subject" /\ cpu'.approval = Reply(c)  BY <1>6 DEF ExecuteReply, Run
  <2> QED  BY <1>6, <2>1, <2>2, <2>3 DEF Acts, ExecuteReply, MayExecute, Decided, ExecuteLabel
<1>7. ASSUME NEW n \in Question, ExecuteLegal(n) PROVE Acts(Legal(n))
  BY <1>7, ProduceActs DEF ExecuteLegal, MayExecute, Decided, ExecuteLabel
<1>8. ASSUME NEW r \in PrivacyRequest, ExecutePrivacy(r) PROVE Acts(Privacy(r)) \/ Fails(Privacy(r))
  <2>1. MayExecute(Privacy(r)) /\ UNCHANGED <<quote, accepted, won, approval>>
    BY <1>8 DEF ExecutePrivacy
  <2>2. CASE Produce(Privacy(r), "subject")
    BY <2>1, <2>2, ProduceActs DEF MayExecute, Decided, ExecuteLabel
  <2>3. CASE FailRun(Privacy(r), "failed")
    BY <2>1, <2>3, FailRunFails
  <2> QED  BY <1>8, <2>2, <2>3 DEF ExecutePrivacy
<1>9. CASE MarkSubject
  <2>1. \E label \in {"flag", "run"}: Goto(label)  BY <1>9 DEF MarkSubject
  <2>2. cpu'.at \in {"flag", "run"} /\ cpu'.approval = cpu.approval
    BY <1>9, <2>1, GoesOn DEF MarkSubject
  <2> QED  BY <1>9, <2>2 DEF MarkSubject, Proceeds, Tables, ExecuteLabel
<1>10. CASE ClearFlag
  BY <1>10, GoesOn DEF ClearFlag, Proceeds, Tables, ExecuteLabel
<1>11. CASE Crash
  BY <1>11 DEF Crash, Tables
<1>12. ASSUME NEW a \in Approval, FirstStatementThrows(a) PROVE Fails(a)
  BY <1>12, FailRunFails DEF FirstStatementThrows
<1>13. CASE UNCHANGED vars
  BY <1>13 DEF vars, Tables
<1> QED
  BY <1>1, <1>2, <1>3, <1>4, <1>5, <1>6, <1>7, <1>8, <1>9, <1>10, <1>11, <1>12, <1>13 DEF Next
-----------------------------------------------------------------------------
(* An approved action stays approved.                                        *)

LEMMA DecidedStays ==
  ASSUME TypeOK, LockedIsDecided, [Next]_vars, NEW a \in Approval, Decided(a)
  PROVE  Decided(a)'
<1>1. ASSUME UNCHANGED approval PROVE Decided(a)'
  BY <1>1 DEF Decided
<1>2. ASSUME NEW q \in Quote, RequestRelease(q) PROVE Decided(a)'
  BY <1>2 DEF Decided, RequestRelease, TypeOK
<1>3. ASSUME NEW b \in Approval, NEW decision \in {"approved", "rejected"}, Decide(b, decision)
      PROVE  Decided(a)'
  BY <1>3 DEF Decided, Decide, TypeOK
<1>4. CASE InsertApproval
  BY <1>4 DEF Decided, InsertApproval, TypeOK
<1>5. CASE MarkExecuted
  BY <1>5 DEF Decided, MarkExecuted, TypeOK
<1> QED
  BY <1>1, <1>2, <1>3, <1>4, <1>5, Steps
  DEF Tables, CreateQuote, ExecuteRelease, Accept, RequestReview, Acts, Fails, Proceeds,
      AcceptQuote, WinDeal, RecordRun, StatementThrows

-----------------------------------------------------------------------------
(* The inductive invariant: whatever took effect, and whatever handler is     *)
(* about to go on, belongs to a decided approval.                            *)

Known(q) == quote[q] \in {"sent", "accepted"}

GovInv ==
  /\ TypeOK
  /\ LockedIsDecided
  /\ \A q \in Quote: Known(q) => Decided(Release(q))
  /\ \A q \in accepted: Known(q)
  /\ \A a \in Approval \ ReleaseApproval: results[a] > 0 => Decided(a)
  /\ cpu.at \in ExecuteLabel => Decided(cpu.approval)
  /\ cpu.at = "quote" => cpu.approval[2] \in accepted

LEMMA GovInit == Init => GovInv
<1> SUFFICES ASSUME Init PROVE GovInv  OBVIOUS
<1>1. TypeOK  BY TypeInit
<1>2. cpu.at = "idle"  BY DEF Init, Idle
<1> QED  BY <1>1, <1>2 DEF Init, GovInv, LockedIsDecided, Known, ExecuteLabel

(* The next values of the conjuncts, one lemma for each table.               *)
LEMMA LockedStep ==
  ASSUME GovInv, [Next]_vars
  PROVE  LockedIsDecided'
<1> USE DEF GovInv
<1>1. ASSUME NEW a \in Approval, run'[a] = "locked" PROVE Decided(a)
  <2>1. ASSUME UNCHANGED run PROVE Decided(a)
    BY <1>1, <2>1 DEF LockedIsDecided
  <2>2. ASSUME NEW b \in Approval, Fails(b) PROVE Decided(a)
    <3>1. CASE a = b  BY <2>2, <3>1 DEF Fails
    <3>2. CASE a # b  BY <1>1, <2>2, <3>2 DEF Fails, LockedIsDecided, TypeOK
    <3> QED  BY <3>1, <3>2
  <2>3. CASE RecordRun
    BY <1>1, <2>3 DEF RecordRun, LockedIsDecided, TypeOK
  <2>4. CASE StatementThrows
    BY <1>1, <2>4 DEF StatementThrows, FailedIfNone, LockedIsDecided, TypeOK
  <2> QED
    BY <2>1, <2>2, <2>3, <2>4, Steps
    DEF Tables, CreateQuote, RequestRelease, ExecuteRelease, Accept, RequestReview, Decide,
        Acts, Proceeds, AcceptQuote, WinDeal, InsertApproval, MarkExecuted
<1> QED  BY <1>1, DecidedStays DEF LockedIsDecided

(* A quote becomes known by its release, and stays known.                    *)
LEMMA KnownStep ==
  ASSUME GovInv, [Next]_vars, NEW q \in Quote
  PROVE  /\ Known(q) => Known(q)'
         /\ Known(q)' => Decided(Release(q))
<1> USE DEF GovInv
<1>1. ASSUME UNCHANGED quote PROVE (Known(q) <=> Known(q)')
  BY <1>1 DEF Known
<1>2. ASSUME NEW r \in Quote, CreateQuote(r) PROVE (Known(q) <=> Known(q)')
  BY <1>2 DEF Known, CreateQuote, TypeOK
<1>3. ASSUME NEW r \in Quote, ExecuteRelease(r)
      PROVE  (Known(q) => Known(q)') /\ (Known(q)' => Known(q) \/ Decided(Release(q)))
  <2>1. Decided(Release(r))  BY <1>3 DEF ExecuteRelease, MayExecute, Decided
  <2>2. CASE q = r  BY <1>3, <2>1, <2>2 DEF Known, ExecuteRelease, TypeOK
  <2>3. CASE q # r  BY <1>3, <2>3 DEF Known, ExecuteRelease, TypeOK
  <2> QED  BY <2>2, <2>3
<1>4. CASE AcceptQuote
  <2>1. cpu.approval[2] \in accepted  BY <1>4 DEF AcceptQuote
  <2>2. Known(cpu.approval[2])  BY <2>1
  <2>3. quote' = [quote EXCEPT ![cpu.approval[2]] = "accepted"]  BY <1>4 DEF AcceptQuote
  <2>4. Known(q) <=> Known(q)'  BY <2>2, <2>3 DEF Known, TypeOK
  <2> QED  BY <2>4
<1>5. (Known(q) => Known(q)') /\ (Known(q)' => Known(q) \/ Decided(Release(q)))
  BY <1>1, <1>2, <1>3, <1>4, Steps
  DEF Tables, RequestRelease, Accept, RequestReview, Decide, Acts, Fails, Proceeds, WinDeal,
      InsertApproval, RecordRun, MarkExecuted, StatementThrows
<1> QED  BY <1>5

(* A result appears with a decided approval.                                 *)
LEMMA ResultStep ==
  ASSUME GovInv, [Next]_vars, NEW a \in Approval \ ReleaseApproval, results'[a] > 0
  PROVE  Decided(a)
<1> USE DEF GovInv
<1>1. ASSUME UNCHANGED results PROVE Decided(a)
  BY <1>1
<1>2. ASSUME NEW b \in Approval \ ReleaseApproval, Acts(b) PROVE Decided(a)
  <2>1. CASE a = b  BY <1>2, <2>1 DEF Acts
  <2>2. CASE a # b
    <3>1. results'[a] = results[a]  BY <1>2, <2>2 DEF Acts, TypeOK
    <3> QED  BY <3>1
  <2> QED  BY <2>1, <2>2
<1> QED
  BY <1>1, <1>2, Steps
  DEF Tables, CreateQuote, RequestRelease, ExecuteRelease, Accept, RequestReview, Decide,
      Fails, Proceeds, AcceptQuote, WinDeal, InsertApproval, RecordRun, MarkExecuted,
      StatementThrows

(* A handler that executes has a decided approval.                           *)
LEMMA FrameStep ==
  ASSUME GovInv, [Next]_vars, cpu'.at \in ExecuteLabel
  PROVE  Decided(cpu'.approval) /\ cpu'.approval \in Approval
<1> USE DEF GovInv
<1>0. cpu.at \in ExecuteLabel => Decided(cpu.approval) /\ cpu.approval \in Approval
  BY Frames DEF ExecuteFrame
<1>1. ASSUME cpu' \in {cpu, Idle} PROVE Decided(cpu'.approval) /\ cpu'.approval \in Approval
  BY <1>0, <1>1 DEF Idle, ExecuteLabel
<1>2. ASSUME NEW q \in Quote, ExecuteRelease(q)
      PROVE  Decided(cpu'.approval) /\ cpu'.approval \in Approval
  BY <1>2, Kinds DEF ExecuteRelease, MayExecute, Run, Decided
<1>3. ASSUME NEW q \in Quote, NEW p \in Period, Accept(q, p) PROVE FALSE
  BY <1>3 DEF Accept, Run, ExecuteLabel
<1>4. ASSUME NEW s, RequestReview(s) PROVE FALSE
  BY <1>4 DEF RequestReview, Run, ExecuteLabel
<1>5. ASSUME NEW a \in Approval, Acts(a)
      PROVE  Decided(cpu'.approval) /\ cpu'.approval \in Approval
  BY <1>5 DEF Acts
<1>6. ASSUME Proceeds PROVE Decided(cpu'.approval) /\ cpu'.approval \in Approval
  BY <1>0, <1>6 DEF Proceeds
<1>7. ASSUME AcceptQuote \/ WinDeal PROVE FALSE
  BY <1>7 DEF AcceptQuote, WinDeal, Goto, Run, ExecuteLabel
<1>8. ASSUME RecordRun PROVE Decided(cpu'.approval) /\ cpu'.approval \in Approval
  BY <1>0, <1>8, GoesOn DEF RecordRun, ExecuteLabel
<1> QED
  BY <1>1, <1>2, <1>3, <1>4, <1>5, <1>6, <1>7, <1>8, Steps
  DEF CreateQuote, RequestRelease, Decide, Fails, InsertApproval, MarkExecuted, StatementThrows

(* An accepted quote was known, and so is the one about to be marked.        *)
LEMMA AcceptStep ==
  ASSUME GovInv, [Next]_vars
  PROVE  /\ \A q \in accepted': Known(q)
         /\ cpu'.at = "quote" => cpu'.approval[2] \in accepted'
<1> USE DEF GovInv
<1>1. ASSUME UNCHANGED accepted, cpu' \in {cpu, Idle} \/ cpu'.at # "quote"
      PROVE  /\ \A q \in accepted': Known(q)
             /\ cpu'.at = "quote" => cpu'.approval[2] \in accepted'
  BY <1>1 DEF Idle
<1>2. ASSUME NEW q \in Quote, NEW p \in Period, Accept(q, p)
      PROVE  /\ \A r \in accepted': Known(r)
             /\ cpu'.at = "quote" => cpu'.approval[2] \in accepted'
  BY <1>2 DEF Accept, Run, Known, Invoice
<1>3. ASSUME NEW q \in Quote, ExecuteRelease(q) PROVE cpu'.at # "quote"
  BY <1>3 DEF ExecuteRelease, Run
<1>4. ASSUME NEW s, RequestReview(s) PROVE cpu'.at # "quote"
  BY <1>4 DEF RequestReview, Run
<1>5. ASSUME AcceptQuote \/ WinDeal \/ RecordRun PROVE cpu'.at # "quote"
  BY <1>5 DEF AcceptQuote, WinDeal, RecordRun, Goto, Run
<1>6. ASSUME NEW a, Acts(a) PROVE cpu'.at # "quote"
  BY <1>6 DEF Acts, ExecuteLabel
<1>7. ASSUME Proceeds PROVE cpu'.at # "quote"
  BY <1>7 DEF Proceeds, ExecuteLabel
<1> QED
  BY <1>1, <1>2, <1>3, <1>4, <1>5, <1>6, <1>7, Steps
  DEF Tables, CreateQuote, RequestRelease, ExecuteRelease, RequestReview, Decide, Acts, Fails,
      Proceeds, AcceptQuote, WinDeal, InsertApproval, RecordRun, MarkExecuted, StatementThrows

LEMMA GovStep == GovInv /\ [Next]_vars => GovInv'
<1> SUFFICES ASSUME GovInv, [Next]_vars PROVE GovInv'  OBVIOUS
<1>1. TypeOK'  BY TypeStep DEF GovInv
<1>2. LockedIsDecided'  BY LockedStep
<1>3. \A a \in Approval: Decided(a) => Decided(a)'  BY DecidedStays DEF GovInv
<1>4. \A q \in Quote: Known(q)' => Decided(Release(q))'  BY <1>3, KnownStep, Kinds
<1>5. \A q \in accepted': Known(q)'  BY <1>1, AcceptStep, KnownStep DEF TypeOK
<1>6. \A a \in Approval \ ReleaseApproval: results'[a] > 0 => Decided(a)'  BY <1>3, ResultStep
<1>7. cpu'.at \in ExecuteLabel => Decided(cpu.approval)'
  <2> SUFFICES ASSUME cpu'.at \in ExecuteLabel PROVE Decided(cpu.approval)'  OBVIOUS
  <2>1. PICK a \in Approval: a = cpu'.approval /\ Decided(a)  BY FrameStep
  <2>2. Decided(a)'  BY <1>3, <2>1
  <2> QED  BY <2>1, <2>2 DEF Decided
<1>8. (cpu.at = "quote" => cpu.approval[2] \in accepted)'  BY AcceptStep
<1> QED  BY <1>1, <1>2, <1>4, <1>5, <1>6, <1>7, <1>8 DEF GovInv

LEMMA Governance == Spec => []GovInv
BY GovInit, GovStep, PTL DEF Spec

(* Nothing takes effect without an owner's approval.                         *)
THEOREM NothingUnapproved == Spec => []OwnerApproved
<1>1. GovInv => OwnerApproved
  <2> SUFFICES ASSUME GovInv, NEW a \in Approval, Times(a) > 0 PROVE Decided(a)
    BY DEF OwnerApproved, Decided
  <2>1. CASE a \in ReleaseApproval
    <3>1. PICK q \in Quote: a = Release(q)  BY <2>1 DEF ReleaseApproval
    <3>2. Known(q)  BY <2>1, <3>1 DEF Times, Known, Release
    <3> QED  BY <3>1, <3>2 DEF GovInv
  <2>2. CASE a \notin ReleaseApproval
    BY <2>2 DEF Times, GovInv
  <2> QED  BY <2>1, <2>2
<1> QED  BY <1>1, Governance, PTL
-----------------------------------------------------------------------------
(* The provenance of a draft invoice: the approval of an invoice is the last *)
(* statement of an acceptance, so it proves the three before it.             *)

Closed(q) == q \in accepted /\ q \in won /\ quote[q] = "accepted"

ProvInv ==
  /\ GovInv
  /\ \A q \in Quote: approval[Invoice(q)] # "none" => Closed(q)
  /\ cpu.at \in {"quote", "deal"} => cpu.approval[2] \in accepted
  /\ cpu.at = "deal" => quote[cpu.approval[2]] = "accepted"
  /\ cpu.at = "approval" /\ cpu.approval \in InvoiceApproval => Closed(cpu.approval[2])

LEMMA AcceptedStays ==
  ASSUME GovInv, [Next]_vars, NEW q \in Quote
  PROVE  /\ q \in accepted => q \in accepted'
         /\ q \in won => q \in won'
         /\ quote[q] = "accepted" => quote'[q] = "accepted"
<1> USE DEF GovInv
<1>1. ASSUME NEW r \in Quote, CreateQuote(r) \/ ExecuteRelease(r)
      PROVE  quote[q] = "accepted" => quote'[q] = "accepted"
  BY <1>1 DEF CreateQuote, ExecuteRelease, TypeOK
<1>2. CASE AcceptQuote
  BY <1>2 DEF AcceptQuote, TypeOK
<1> QED
  BY <1>1, <1>2, Steps
  DEF Tables, CreateQuote, RequestRelease, ExecuteRelease, Accept, RequestReview, Decide, Acts,
      Fails, Proceeds, AcceptQuote, WinDeal, InsertApproval, RecordRun, MarkExecuted,
      StatementThrows

(* An invoice approval appears only as the last statement of an acceptance.   *)
LEMMA InvoiceApprovalStep ==
  ASSUME ProvInv, [Next]_vars, NEW q \in Quote, approval'[Invoice(q)] # "none"
  PROVE  Closed(q)
<1> USE DEF ProvInv, GovInv
<1>1. ASSUME UNCHANGED approval PROVE Closed(q)
  BY <1>1
<1>2. ASSUME NEW r \in Quote, RequestRelease(r) PROVE Closed(q)
  <2>1. approval'[Invoice(q)] = approval[Invoice(q)]
    BY <1>2 DEF RequestRelease, TypeOK, Release, Invoice
  <2> QED  BY <2>1
<1>3. ASSUME NEW a \in Approval, NEW decision \in {"approved", "rejected"}, Decide(a, decision)
      PROVE  Closed(q)
  BY <1>3, Kinds DEF Decide, TypeOK
<1>4. CASE InsertApproval
  <2>1. CASE cpu.approval = Invoice(q)
    BY <1>4, <2>1 DEF InsertApproval, InvoiceApproval, Invoice
  <2>2. CASE cpu.approval # Invoice(q)
    BY <1>4, <2>2, Kinds DEF InsertApproval, TypeOK
  <2> QED  BY <2>1, <2>2
<1>5. CASE MarkExecuted
  <2>1. cpu.approval \in Approval /\ approval[cpu.approval] # "none"
    BY <1>5, Frames DEF MarkExecuted, ExecuteFrame, ExecuteLabel, Decided
  <2>2. approval[Invoice(q)] # "none"  BY <1>5, <2>1, Kinds DEF MarkExecuted, TypeOK
  <2> QED  BY <2>2
<1> QED
  BY <1>1, <1>2, <1>3, <1>4, <1>5, Steps
  DEF Tables, CreateQuote, ExecuteRelease, Accept, RequestReview, Acts, Fails, Proceeds,
      AcceptQuote, WinDeal, RecordRun, StatementThrows

(* What the three statements of an acceptance leave for the next one.        *)
AcceptKnows ==
  /\ cpu.at \in {"quote", "deal"} => cpu.approval[2] \in accepted
  /\ cpu.at = "deal" => quote[cpu.approval[2]] = "accepted"
  /\ cpu.at = "approval" /\ cpu.approval \in InvoiceApproval => Closed(cpu.approval[2])

LEMMA AcceptKnowsStep ==
  ASSUME ProvInv, [Next]_vars
  PROVE  AcceptKnows'
<1> USE DEF ProvInv, GovInv
<1>1. ASSUME cpu' \in {cpu, Idle}, UNCHANGED <<quote, accepted, won>> PROVE AcceptKnows'
  BY <1>1 DEF AcceptKnows, Idle, Closed
<1>2. ASSUME cpu'.at \in ExecuteLabel PROVE AcceptKnows'
  BY <1>2 DEF AcceptKnows, ExecuteLabel
<1>3. ASSUME NEW q \in Quote, CreateQuote(q) PROVE AcceptKnows'
  <2>1. cpu = Idle  BY <1>3 DEF CreateQuote
  <2>2. cpu' = Idle  BY <1>3, <2>1 DEF CreateQuote
  <2> QED  BY <2>2 DEF AcceptKnows, Idle
<1>4. ASSUME NEW q \in Quote, NEW p \in Period, Accept(q, p) PROVE AcceptKnows'
  BY <1>4 DEF Accept, Run, AcceptKnows, Invoice
<1>5. ASSUME NEW s \in Question \cup PrivacyRequest, RequestReview(s) PROVE AcceptKnows'
  <2>1. cpu'.at = "approval" /\ cpu'.approval \notin InvoiceApproval
    BY <1>5 DEF RequestReview, Run, InvoiceApproval, Invoice, Legal, Privacy
  <2> QED  BY <2>1 DEF AcceptKnows
<1>6. CASE AcceptQuote
  <2>1. cpu \in AcceptFrame /\ cpu.approval[2] \in Quote
    BY <1>6, Frames DEF AcceptQuote, AcceptFrame, InvoiceApproval, Invoice
  <2>2. cpu'.at = "deal" /\ cpu'.approval = cpu.approval  BY <1>6, GoesOn DEF AcceptQuote
  <2>3. quote'[cpu.approval[2]] = "accepted"  BY <1>6, <2>1 DEF AcceptQuote, TypeOK
  <2> QED  BY <1>6, <2>2, <2>3 DEF AcceptKnows, AcceptQuote
<1>7. CASE WinDeal
  <2>1. cpu'.at = "approval" /\ cpu'.approval = cpu.approval  BY <1>7, GoesOn DEF WinDeal
  <2> QED  BY <1>7, <2>1 DEF AcceptKnows, WinDeal, Closed
<1>8. ASSUME NEW q \in Quote, ExecuteRelease(q) PROVE cpu'.at \in ExecuteLabel
  BY <1>8 DEF ExecuteRelease, Run, ExecuteLabel
<1>9. CASE RecordRun
  <2>1. cpu'.at \in ExecuteLabel  BY <1>9, GoesOn DEF RecordRun, ExecuteLabel
  <2> QED  BY <1>2, <2>1
<1> QED
  BY <1>1, <1>2, <1>3, <1>4, <1>5, <1>6, <1>7, <1>8, <1>9, Steps
  DEF Tables, RequestRelease, Decide, Acts, Fails, Proceeds, InsertApproval, MarkExecuted,
      StatementThrows

LEMMA ProvStep == ProvInv /\ [Next]_vars => ProvInv'
<1> SUFFICES ASSUME ProvInv, [Next]_vars PROVE ProvInv'  OBVIOUS
<1>1. GovInv'  BY GovStep DEF ProvInv
<1>2. \A q \in Quote: Closed(q) => Closed(q)'  BY AcceptedStays DEF ProvInv, Closed
<1>3. (\A q \in Quote: approval[Invoice(q)] # "none" => Closed(q))'
  BY <1>2, InvoiceApprovalStep
<1>4. AcceptKnows'  BY AcceptKnowsStep
<1> QED  BY <1>1, <1>3, <1>4 DEF ProvInv, AcceptKnows

(* A draft invoice can be traced to a released, accepted and won quote and    *)
(* two approvals, whichever statements a crash left undone.                  *)
THEOREM Provenance == Spec => []InvoiceHasProvenance
<1>1. Init => ProvInv
  <2> SUFFICES ASSUME Init PROVE ProvInv  OBVIOUS
  <2>1. GovInv  BY GovInit
  <2>2. \A q \in Quote: Invoice(q) \notin SeedApproval
    BY DEF SeedApproval, Invoice, Reply, TaskOf
  <2>3. \A q \in Quote: approval[Invoice(q)] = "none"  BY <2>2, Kinds DEF Init
  <2>4. cpu.at = "idle"  BY DEF Init, Idle
  <2> QED  BY <2>1, <2>3, <2>4 DEF ProvInv
<1>2. ProvInv => InvoiceHasProvenance
  <2> SUFFICES ASSUME ProvInv, NEW q \in Quote, results[Invoice(q)] > 0
               PROVE  Closed(q) /\ Decided(Release(q)) /\ Decided(Invoice(q))
    BY DEF InvoiceHasProvenance, Closed, Decided
  <2>1. Decided(Invoice(q))  BY Kinds, Counted DEF ProvInv, GovInv
  <2>2. Closed(q)  BY <2>1 DEF ProvInv, Decided
  <2>3. Decided(Release(q))  BY <2>2 DEF ProvInv, GovInv, Known, Closed
  <2> QED  BY <2>1, <2>2, <2>3
<1> QED  BY <1>1, <1>2, ProvStep, PTL DEF Spec

-----------------------------------------------------------------------------
(* Action properties.                                                        *)

(* A completed run stays completed.                                          *)
THEOREM RunsStayCompleted == Spec => CompletedStays
<1>1. ASSUME GovInv, [Next]_vars, NEW a \in Approval, run[a] = "completed"
      PROVE  run'[a] = "completed"
  <2> USE DEF GovInv
  <2>1. ASSUME NEW b \in Approval, Fails(b) PROVE run'[a] = "completed"
    BY <1>1, <2>1 DEF Fails, TypeOK
  <2>2. CASE RecordRun  BY <1>1, <2>2 DEF RecordRun, TypeOK
  <2>3. CASE StatementThrows  BY <1>1, <2>3 DEF StatementThrows, FailedIfNone, TypeOK
  <2> QED
    BY <1>1, <2>1, <2>2, <2>3, Steps
    DEF Tables, CreateQuote, RequestRelease, ExecuteRelease, Accept, RequestReview, Decide,
        Acts, Proceeds, AcceptQuote, WinDeal, InsertApproval, MarkExecuted
<1>2. GovInv /\ [Next]_vars => [\A a \in Approval: run[a] = "completed" => run'[a] = "completed"]_vars
  BY <1>1
<1> QED  BY <1>2, Governance, PTL DEF Spec, CompletedStays
(* An execution leaves the results of other approvals alone.                 *)
LEMMA OtherResults ==
  ASSUME TypeOK, NEW a, NEW b \in Approval \ ReleaseApproval, a # b, NEW next, NEW status,
         Produce(a, next) \/ FailRun(a, status)
  PROVE  results'[b] = results[b]
<1>1. CASE Produce(a, next)  BY <1>1 DEF Produce, TypeOK
<1>2. CASE FailRun(a, status)  BY <1>2 DEF FailRun
<1> QED  BY <1>1, <1>2

(* A draft invoice is created in an open period only.                        *)
THEOREM DraftsInOpenPeriods == Spec => DraftInOpenPeriod
<1>1. ASSUME GovInv, [Next]_vars, NEW q \in Quote, results'[Invoice(q)] > results[Invoice(q)]
      PROVE  IsOpen(period[q])
  <2> USE DEF GovInv
  <2>0. Invoice(q) \in Approval \ ReleaseApproval  BY Kinds, Counted
  <2>1. results[Invoice(q)] \in Nat  BY <1>1, <2>0 DEF TypeOK
  <2>2. results'[Invoice(q)] # results[Invoice(q)]  BY <1>1, <2>1
  <2>3. ASSUME NEW r \in Quote, ExecuteInvoice(r) PROVE IsOpen(period[q])
    <3>1. CASE IsOpen(period[r]) /\ Produce(Invoice(r), "run")
      <4>1. Invoice(q) = Invoice(r)  BY <2>2, <3>1 DEF Produce, TypeOK
      <4> QED  BY <3>1, <4>1 DEF Invoice
    <3>2. CASE FailRun(Invoice(r), "locked")  BY <2>2, <3>2 DEF FailRun
    <3> QED  BY <2>3, <3>1, <3>2 DEF ExecuteInvoice
  <2>4. ASSUME NEW r \in Quote, Retry(r) PROVE IsOpen(period[q])
    <3>1. Invoice(q) = Invoice(r)  BY <2>2, <2>4 DEF Retry, Produce, TypeOK
    <3> QED  BY <2>4, <3>1 DEF Retry, Invoice
  <2>5. ASSUME NEW k \in CollectionTask, ExecuteTask(k) PROVE FALSE
    <3>1. Invoice(q) # TaskOf(k)  BY DEF Invoice, TaskOf
    <3>2. Produce(TaskOf(k), "run") \/ FailRun(TaskOf(k), "failed")  BY <2>5 DEF ExecuteTask
    <3>3. results'[Invoice(q)] = results[Invoice(q)]  BY <1>1, <2>0, <3>1, <3>2, OtherResults
    <3> QED  BY <2>2, <3>3
  <2>6. ASSUME NEW c \in Case, ExecuteReply(c) PROVE FALSE
    <3>1. Invoice(q) # Reply(c)  BY DEF Invoice, Reply
    <3>2. results'[Invoice(q)] = results[Invoice(q)]
      BY <2>6, <3>1 DEF ExecuteReply, TypeOK
    <3> QED  BY <2>2, <3>2
  <2>7. ASSUME NEW n \in Question, ExecuteLegal(n) PROVE FALSE
    <3>1. Invoice(q) # Legal(n)  BY DEF Invoice, Legal
    <3>2. results'[Invoice(q)] = results[Invoice(q)]
      BY <2>7, <3>1 DEF ExecuteLegal, Produce, TypeOK
    <3> QED  BY <2>2, <3>2
  <2>8. ASSUME NEW r \in PrivacyRequest, ExecutePrivacy(r) PROVE FALSE
    <3>1. Invoice(q) # Privacy(r)  BY DEF Invoice, Privacy
    <3>2. Produce(Privacy(r), "subject") \/ FailRun(Privacy(r), "failed")  BY <2>8 DEF ExecutePrivacy
    <3>3. results'[Invoice(q)] = results[Invoice(q)]  BY <1>1, <2>0, <3>1, <3>2, OtherResults
    <3> QED  BY <2>2, <3>3
  <2> QED
    BY <1>1, <2>2, <2>3, <2>4, <2>5, <2>6, <2>7, <2>8
    DEF Next, vars, SetPeriod, ReviewSource, CreateQuote, RequestRelease, Accept, RequestReview,
        Decide, ExecuteRelease, AcceptQuote, WinDeal, InsertApproval, MarkSubject, ClearFlag,
        RecordRun, MarkExecuted, Crash, StatementThrows, FirstStatementThrows, FailRun
<1>2. GovInv /\ [Next]_vars =>
        [\A q \in Quote: results'[Invoice(q)] > results[Invoice(q)] => IsOpen(period[q])]_vars
  BY <1>1
<1> QED  BY <1>2, Governance, PTL DEF Spec, DraftInOpenPeriod

-----------------------------------------------------------------------------
(* An executed approval has a completed run and a result.                    *)

Done(a) == Times(a) > 0

DoneInv ==
  /\ GovInv
  /\ \A q \in Quote: approval[Release(q)] # "none" => quote[q] # "none"
  /\ \A a \in Approval: run[a] = "completed" => Done(a)
  /\ \A a \in Approval: approval[a] = "executed" => run[a] = "completed"
  /\ cpu.at \in ExecuteLabel => Done(cpu.approval)
  /\ cpu.at = "executed" => run[cpu.approval] = "completed"

LEMMA DoneReleased ==
  ASSUME NEW q \in Quote
  PROVE  (Done(Release(q)) <=> Known(q)) /\ (Done(Release(q))' <=> Known(q)')
BY DEF Done, Times, Known, Release, ReleaseApproval

LEMMA DoneCounted ==
  ASSUME NEW a \in Approval \ ReleaseApproval
  PROVE  (Done(a) <=> results[a] > 0) /\ (Done(a)' <=> results'[a] > 0)
BY DEF Done, Times

LEMMA DoneStays ==
  ASSUME GovInv, [Next]_vars, NEW a \in Approval, Done(a)
  PROVE  Done(a)'
<1>1. CASE a \in ReleaseApproval
  <2>1. PICK q \in Quote: a = Release(q)  BY <1>1 DEF ReleaseApproval
  <2>2. Known(q)  BY <2>1, DoneReleased
  <2>3. Known(q)'  BY <2>2, KnownStep
  <2>4. Done(Release(q))'  BY <2>3, DoneReleased
  <2> QED  BY <2>1, <2>4 DEF Done, Times
<1>2. CASE a \notin ReleaseApproval
  <2>1. results[a] > 0  BY <1>2, DoneCounted
  <2>2. ASSUME NEW b \in Approval \ ReleaseApproval, Acts(b) PROVE results'[a] > 0
    BY <1>2, <2>1, <2>2 DEF Acts, GovInv, TypeOK
  <2>3. results'[a] > 0
    BY <2>1, <2>2, Steps
    DEF GovInv, Tables, CreateQuote, RequestRelease, ExecuteRelease, Accept, RequestReview, Decide,
        Fails, Proceeds, AcceptQuote, WinDeal, InsertApproval, RecordRun, MarkExecuted,
        StatementThrows
  <2> QED  BY <1>2, <2>3, DoneCounted
<1> QED  BY <1>1, <1>2

(* The rows that the run of an approval relies on.                           *)
LEMMA ReleasableStep ==
  ASSUME DoneInv, [Next]_vars, NEW q \in Quote, approval'[Release(q)] # "none"
  PROVE  quote'[q] # "none"
<1> USE DEF DoneInv, GovInv
<1>1. quote[q] # "none" => quote'[q] # "none"
  <2>1. ASSUME NEW r \in Quote, CreateQuote(r) \/ ExecuteRelease(r)
        PROVE  quote[q] # "none" => quote'[q] # "none"
    BY <2>1 DEF CreateQuote, ExecuteRelease, TypeOK
  <2>2. CASE AcceptQuote  BY <2>2 DEF AcceptQuote, TypeOK
  <2> QED
    BY <2>1, <2>2, Steps
    DEF Tables, RequestRelease, Accept, RequestReview, Decide, Acts, Fails, Proceeds, WinDeal,
        InsertApproval, RecordRun, MarkExecuted, StatementThrows
<1>2. ASSUME UNCHANGED approval PROVE quote[q] # "none"
  BY <1>2
<1>3. ASSUME NEW r \in Quote, RequestRelease(r) PROVE quote[q] # "none"
  <2>1. CASE q = r  BY <1>3, <2>1 DEF RequestRelease
  <2>2. CASE q # r
    <3>1. approval'[Release(q)] = approval[Release(q)]
      BY <1>3, <2>2 DEF RequestRelease, TypeOK, Release
    <3> QED  BY <3>1
  <2> QED  BY <2>1, <2>2
<1>4. ASSUME NEW a \in Approval, NEW d \in {"approved", "rejected"}, Decide(a, d)
      PROVE  quote[q] # "none"
  BY <1>4, Kinds DEF Decide, TypeOK
<1>5. CASE InsertApproval
  <2>1. cpu.approval # Release(q)
    BY <1>5, Frames
    DEF InsertApproval, AskFrame, InvoiceApproval, ReviewApproval, Release, Invoice, Legal, Privacy
  <2> QED  BY <1>5, <2>1, Kinds DEF InsertApproval, TypeOK
<1>6. CASE MarkExecuted
  <2>1. Decided(cpu.approval)  BY <1>6 DEF MarkExecuted, ExecuteLabel
  <2> QED  BY <1>6, <2>1, Kinds DEF MarkExecuted, TypeOK, Decided
<1> QED
  BY <1>1, <1>2, <1>3, <1>4, <1>5, <1>6, Steps
  DEF Tables, CreateQuote, ExecuteRelease, Accept, RequestReview, Acts, Fails, Proceeds,
      AcceptQuote, WinDeal, RecordRun, StatementThrows

LEMMA CompletedStep ==
  ASSUME DoneInv, [Next]_vars, NEW a \in Approval
  PROVE  /\ run[a] = "completed" => run'[a] = "completed"
         /\ run'[a] = "completed" => Done(a)
<1> USE DEF DoneInv, GovInv
<1>1. ASSUME NEW b \in Approval, Fails(b)
      PROVE  run[a] = "completed" <=> run'[a] = "completed"
  BY <1>1 DEF Fails, TypeOK
<1>2. CASE RecordRun
  <2>1. Done(cpu.approval)  BY <1>2 DEF RecordRun, ExecuteLabel
  <2>2. run' = [run EXCEPT ![cpu.approval] = "completed"]  BY <1>2 DEF RecordRun
  <2> QED  BY <2>1, <2>2 DEF TypeOK
<1>3. CASE StatementThrows
  BY <1>3 DEF StatementThrows, FailedIfNone, TypeOK
<1> QED
  BY <1>1, <1>2, <1>3, Steps
  DEF Tables, CreateQuote, RequestRelease, ExecuteRelease, Accept, RequestReview, Decide,
      Acts, Proceeds, AcceptQuote, WinDeal, InsertApproval, MarkExecuted

LEMMA ExecutedStep ==
  ASSUME DoneInv, [Next]_vars, NEW a \in Approval, approval'[a] = "executed"
  PROVE  run[a] = "completed"
<1> USE DEF DoneInv, GovInv
<1>1. ASSUME UNCHANGED approval PROVE run[a] = "completed"
  BY <1>1
<1>2. ASSUME NEW q \in Quote, RequestRelease(q) PROVE run[a] = "completed"
  BY <1>2 DEF RequestRelease, TypeOK
<1>3. ASSUME NEW b \in Approval, NEW d \in {"approved", "rejected"}, Decide(b, d)
      PROVE  run[a] = "completed"
  BY <1>3 DEF Decide, TypeOK
<1>4. CASE InsertApproval
  BY <1>4 DEF InsertApproval, TypeOK
<1>5. CASE MarkExecuted
  <2>1. run[cpu.approval] = "completed"  BY <1>5 DEF MarkExecuted
  <2> QED  BY <1>5, <2>1 DEF MarkExecuted, TypeOK
<1> QED
  BY <1>1, <1>2, <1>3, <1>4, <1>5, Steps
  DEF Tables, CreateQuote, ExecuteRelease, Accept, RequestReview, Acts, Fails, Proceeds,
      AcceptQuote, WinDeal, RecordRun, StatementThrows

(* What an execution has done when it goes on.                               *)
LEMMA DoneFrameStep ==
  ASSUME DoneInv, [Next]_vars, cpu'.at \in ExecuteLabel
  PROVE  /\ \E a \in Approval: a = cpu'.approval /\ Done(a)'
         /\ cpu'.at = "executed" => run'[cpu'.approval] = "completed"
<1> DEFINE Good == /\ \E a \in Approval: a = cpu'.approval /\ Done(a)'
                   /\ cpu'.at = "executed" => run'[cpu'.approval] = "completed"
<1> USE DEF DoneInv
<1>0. cpu.at \in ExecuteLabel => cpu.approval \in Approval
  BY Frames DEF ExecuteFrame, GovInv
<1>s. \A a \in Approval: Done(a) => Done(a)'  BY DoneStays
<1>r. \A a \in Approval: run[a] = "completed" => run'[a] = "completed"  BY CompletedStep
<1>1. ASSUME cpu' \in {cpu, Idle} PROVE Good
  BY <1>0, <1>1, <1>s, <1>r DEF Idle, ExecuteLabel
<1>2. ASSUME NEW q \in Quote, ExecuteRelease(q) PROVE Good
  <2>1. cpu'.approval = Release(q) /\ cpu'.at = "run"  BY <1>2 DEF ExecuteRelease, Run
  <2>2. quote[q] # "none"  BY <1>2 DEF ExecuteRelease, MayExecute
  <2>3. Known(q)'  BY <1>2, <2>2 DEF ExecuteRelease, Known, TypeOK, GovInv
  <2> QED  BY <2>1, <2>3, DoneReleased, Kinds
<1>3. ASSUME NEW a \in Approval \ ReleaseApproval, Acts(a) PROVE Good
  <2>1. Done(a)'  BY <1>3, DoneCounted DEF Acts
  <2> QED  BY <1>3, <2>1 DEF Acts
<1>4. CASE Proceeds
  <2>1. cpu.approval \in Approval /\ Done(cpu.approval)  BY <1>0, <1>4 DEF Proceeds
  <2> QED  BY <1>4, <1>s, <2>1 DEF Proceeds
<1>5. CASE RecordRun
  <2>1. cpu.approval \in Approval /\ Done(cpu.approval)
    BY <1>0, <1>5 DEF RecordRun, ExecuteLabel
  <2>2. cpu'.approval = cpu.approval  BY <1>5, GoesOn DEF RecordRun, GovInv
  <2>3. run'[cpu.approval] = "completed"  BY <1>5, <2>1 DEF RecordRun, GovInv, TypeOK
  <2> QED  BY <1>s, <2>1, <2>2, <2>3
<1>6. ASSUME NEW q \in Quote, NEW p \in Period, Accept(q, p) PROVE FALSE
  BY <1>6 DEF Accept, Run, ExecuteLabel
<1>7. ASSUME NEW s, RequestReview(s) PROVE FALSE
  BY <1>7 DEF RequestReview, Run, ExecuteLabel
<1>8. ASSUME AcceptQuote \/ WinDeal PROVE FALSE
  BY <1>8 DEF AcceptQuote, WinDeal, Goto, Run, ExecuteLabel
<1> QED
  BY <1>1, <1>2, <1>3, <1>4, <1>5, <1>6, <1>7, <1>8, Steps
  DEF GovInv, CreateQuote, RequestRelease, Decide, Fails, InsertApproval, MarkExecuted,
      StatementThrows

LEMMA DoneStep == DoneInv /\ [Next]_vars => DoneInv'
<1> SUFFICES ASSUME DoneInv, [Next]_vars PROVE DoneInv'  OBVIOUS
<1>1. GovInv'  BY GovStep DEF DoneInv
<1>2. (\A q \in Quote: approval[Release(q)] # "none" => quote[q] # "none")'
  BY ReleasableStep
<1>3. \A a \in Approval: run'[a] = "completed" => Done(a)'
  BY CompletedStep, DoneStays DEF DoneInv
<1>4. (\A a \in Approval: approval[a] = "executed" => run[a] = "completed")'
  BY CompletedStep, ExecutedStep
<1>5. cpu'.at \in ExecuteLabel => Done(cpu.approval)'
  <2> SUFFICES ASSUME cpu'.at \in ExecuteLabel PROVE Done(cpu.approval)'  OBVIOUS
  <2>1. PICK a \in Approval: a = cpu'.approval /\ Done(a)'  BY DoneFrameStep
  <2> QED  BY <2>1 DEF Done, Times
<1>6. (cpu.at = "executed" => run[cpu.approval] = "completed")'
  BY DoneFrameStep DEF ExecuteLabel
<1> QED  BY <1>1, <1>2, <1>3, <1>4, <1>5, <1>6 DEF DoneInv

(* An executed approval never claims what did not happen.                    *)
THEOREM ExecutedMeansDone == Spec => []ExecutedIsDone
<1>1. Init => DoneInv
  <2> SUFFICES ASSUME Init PROVE DoneInv  OBVIOUS
  <2>1. GovInv  BY GovInit
  <2>2. \A q \in Quote: Release(q) \notin SeedApproval
    BY DEF SeedApproval, Release, Reply, TaskOf
  <2>3. \A q \in Quote: approval[Release(q)] = "none"  BY <2>2, Kinds DEF Init
  <2>4. cpu.at = "idle"  BY DEF Init, Idle
  <2>5. \A a \in Approval: run[a] = "none" /\ approval[a] # "executed"  BY DEF Init
  <2> QED  BY <2>1, <2>3, <2>4, <2>5 DEF DoneInv, ExecuteLabel
<1>2. DoneInv => ExecutedIsDone
  BY DEF DoneInv, ExecutedIsDone, Done
<1> QED  BY <1>1, <1>2, DoneStep, PTL DEF Spec

-----------------------------------------------------------------------------
(* Refinement of GovernedActions.  A service reply may be sent twice, so it    *)
(* needs a tenant without reply approvals.                                   *)

decision == [a \in Approval |-> IF approval[a] = "executed" THEN "approved" ELSE approval[a]]
times    == [a \in Approval |-> Times(a)]

OnceInv == GovInv /\ \A a \in Approval \ ReleaseApproval: results[a] \in {0, 1}

LEMMA OnceStep ==
  ASSUME Case = {}, OnceInv, [Next]_vars
  PROVE  OnceInv'
<1> USE DEF OnceInv
<1>1. GovInv'  BY GovStep
<1>2. ASSUME NEW a \in Approval \ ReleaseApproval PROVE results'[a] \in {0, 1}
  <2>1. ASSUME NEW b \in Approval \ ReleaseApproval, Acts(b) PROVE results'[a] \in {0, 1}
    <3>1. CASE a = b  BY <2>1, <3>1 DEF Acts
    <3>2. CASE a # b  BY <2>1, <3>2 DEF Acts, GovInv, TypeOK
    <3> QED  BY <3>1, <3>2
  <2> QED
    BY <2>1, Steps
    DEF GovInv, Tables, CreateQuote, RequestRelease, ExecuteRelease, Accept, RequestReview, Decide,
        Fails, Proceeds, AcceptQuote, WinDeal, InsertApproval, RecordRun, MarkExecuted,
        StatementThrows
<1> QED  BY <1>1, <1>2

(* What is known of a quote decides whether its release took effect.         *)
LEMMA ReleaseTimes ==
  ASSUME NEW q \in Quote
  PROVE  /\ Times(Release(q)) = IF Known(q) THEN 1 ELSE 0
         /\ Times(Release(q))' = IF Known(q)' THEN 1 ELSE 0
BY DEF Times, Known, Release, ReleaseApproval

(* A step that makes no quote known and no result keeps the times.           *)
LEMMA SameTimes ==
  ASSUME UNCHANGED results, \A q \in Quote: Known(q) <=> Known(q)'
  PROVE  times' = times
<1>1. ASSUME NEW a \in Approval PROVE Times(a)' = Times(a)
  <2>1. CASE a \in ReleaseApproval
    <3>1. PICK q \in Quote: a = Release(q)  BY <2>1 DEF ReleaseApproval
    <3>2. Times(Release(q))' = Times(Release(q))  BY ReleaseTimes
    <3> QED  BY <3>1, <3>2 DEF Times
  <2>2. CASE a \notin ReleaseApproval  BY <2>2 DEF Times
  <2> QED  BY <2>1, <2>2
<1> QED  BY <1>1 DEF times

(* Only the approvals that a step decides change for the abstract workflow.   *)
LEMMA SameDecision == ASSUME UNCHANGED approval PROVE decision' = decision
BY DEF decision

LEMMA NewDecision ==
  ASSUME TypeOK, NEW a \in Approval, NEW s \in {"pending", "approved", "rejected"},
         approval' = [approval EXCEPT ![a] = s]
  PROVE  decision' = [decision EXCEPT ![a] = s]
BY DEF decision, TypeOK

Abstract == <<decision, times>>

LEMMA GovernStep ==
  ASSUME Case = {}, OnceInv, [Next]_vars
  PROVE  [Gov!Next]_Abstract
<1> USE DEF OnceInv, GovInv
<1>k. ASSUME NEW q \in Quote PROVE Known(q) => Known(q)'
  BY KnownStep
<1>1. ASSUME UNCHANGED <<quote, approval, results>> PROVE UNCHANGED Abstract
  BY <1>1, SameTimes, SameDecision DEF Abstract, Known
<1>2. ASSUME NEW q \in Quote, CreateQuote(q) PROVE UNCHANGED Abstract
  <2>1. \A r \in Quote: Known(r) <=> Known(r)'  BY <1>2 DEF CreateQuote, Known, TypeOK
  <2> QED  BY <1>2, <2>1, SameTimes, SameDecision DEF CreateQuote, Abstract
<1>3. ASSUME NEW a \in Approval, approval[a] = "none",
             approval' = [approval EXCEPT ![a] = "pending"], UNCHANGED <<quote, results>>
      PROVE  Gov!Next
  <2>1. decision' = [decision EXCEPT ![a] = "pending"]  BY <1>3, NewDecision
  <2>2. decision[a] = "none"  BY <1>3 DEF decision
  <2>3. times' = times  BY <1>3, SameTimes DEF Known
  <2>4. Gov!Ask(a)  BY <2>1, <2>2, <2>3 DEF Gov!Ask, decision, times
  <2> QED  BY <2>4 DEF Gov!Next
<1>4. ASSUME NEW q \in Quote, RequestRelease(q) PROVE Gov!Next
  BY <1>3, <1>4, Kinds DEF RequestRelease
<1>5. ASSUME NEW a \in Approval, NEW d \in {"approved", "rejected"}, Decide(a, d) PROVE Gov!Next
  <2>1. decision' = [decision EXCEPT ![a] = d]  BY <1>5, NewDecision DEF Decide
  <2>2. decision[a] = "pending"  BY <1>5 DEF decision, Decide
  <2>3. times' = times  BY <1>5, SameTimes DEF Known, Decide
  <2>4. Gov!Answer(a, d)  BY <2>1, <2>2, <2>3 DEF Gov!Answer, decision, times
  <2> QED  BY <2>4 DEF Gov!Next
<1>6. ASSUME NEW q \in Quote, ExecuteRelease(q) PROVE [Gov!Next]_Abstract
  <2>1. Decided(Release(q)) /\ Release(q) \in Approval
    BY <1>6, Kinds DEF ExecuteRelease, MayExecute, Decided
  <2>2. decision' = decision  BY <1>6, SameDecision DEF ExecuteRelease
  <2>3. decision[Release(q)] = "approved"  BY <2>1 DEF decision, Decided
  <2>4. CASE quote[q] # "draft"
    <3>1. UNCHANGED <<quote, approval, results>>  BY <1>6, <2>4 DEF ExecuteRelease
    <3> QED  BY <1>1, <3>1
  <2>5. CASE quote[q] = "draft"
    <3>1. ~Known(q) /\ Known(q)'  BY <1>6, <2>5 DEF ExecuteRelease, Known, TypeOK
    <3>2. \A r \in Quote \ {q}: Known(r) <=> Known(r)'
      BY <1>6, <2>5 DEF ExecuteRelease, Known, TypeOK
    <3>3. times[Release(q)] = 0  BY <2>1, <3>1, ReleaseTimes DEF times
    <3>4. ASSUME NEW a \in Approval PROVE Times(a)' = IF a = Release(q) THEN 1 ELSE Times(a)
      <4>1. CASE a \in ReleaseApproval
        <5>1. PICK r \in Quote: a = Release(r)  BY <4>1 DEF ReleaseApproval
        <5>2. Times(Release(r))' = IF r = q THEN 1 ELSE Times(Release(r))
          BY <3>1, <3>2, ReleaseTimes
        <5>3. Release(r) = Release(q) <=> r = q  BY DEF Release
        <5> QED  BY <5>1, <5>2, <5>3 DEF Times
      <4>2. CASE a \notin ReleaseApproval
        BY <1>6, <4>2 DEF Times, ExecuteRelease, ReleaseApproval
      <4> QED  BY <4>1, <4>2
    <3>5. times' = [times EXCEPT ![Release(q)] = 1]  BY <3>4 DEF times
    <3>6. Gov!Perform(Release(q))
      BY <2>2, <2>3, <3>3, <3>5 DEF Gov!Perform, decision, times
    <3> QED  BY <2>1, <3>6 DEF Gov!Next
  <2> QED  BY <2>4, <2>5
<1>7. ASSUME NEW a \in Approval \ ReleaseApproval, Acts(a) PROVE [Gov!Next]_Abstract
  <2>1. decision' = decision /\ decision[a] = "approved"
    BY <1>7, SameDecision DEF Acts, decision, Decided
  <2>2. results'[a] = 1  BY <1>7 DEF Acts
  <2>3. CASE results[a] = 1
    <3>1. results' = results  BY <1>7, <2>2, <2>3 DEF Acts, TypeOK
    <3> QED  BY <1>1, <1>7, <3>1 DEF Acts
  <2>4. CASE results[a] = 0
    <3>1. times[a] = 0  BY <2>4 DEF times, Times
    <3>2. ASSUME NEW b \in Approval PROVE Times(b)' = IF b = a THEN 1 ELSE Times(b)
      <4>1. CASE b \in ReleaseApproval
        BY <1>7, <4>1 DEF Times, Acts
      <4>2. CASE b \notin ReleaseApproval
        <5>1. results'[b] = IF b = a THEN 1 ELSE results[b]  BY <1>7, <2>2, <4>2 DEF Acts, TypeOK
        <5> QED  BY <4>2, <5>1 DEF Times
      <4> QED  BY <4>1, <4>2
    <3>3. times' = [times EXCEPT ![a] = 1]  BY <3>2 DEF times
    <3>4. Gov!Perform(a)  BY <2>1, <3>1, <3>3 DEF Gov!Perform, decision, times
    <3> QED  BY <3>4 DEF Gov!Next
  <2> QED  BY <2>3, <2>4
<1>8. CASE AcceptQuote
  <2>1. Known(cpu.approval[2])  BY <1>8 DEF AcceptQuote
  <2>2. \A r \in Quote: Known(r) <=> Known(r)'  BY <1>8, <2>1 DEF AcceptQuote, Known, TypeOK
  <2> QED  BY <1>8, <2>2, SameTimes, SameDecision DEF AcceptQuote, Abstract
<1>9. CASE InsertApproval
  <2>1. cpu.approval \in Approval
    BY <1>9, Frames DEF InsertApproval, AskFrame, Approval
  <2> QED  BY <1>3, <1>9, <2>1 DEF InsertApproval
<1>10. CASE MarkExecuted
  <2>1. cpu.approval \in Approval /\ Decided(cpu.approval)
    BY <1>10, Frames DEF MarkExecuted, ExecuteFrame, ExecuteLabel
  <2>2. decision' = decision  BY <1>10, <2>1 DEF MarkExecuted, decision, Decided, TypeOK
  <2>3. times' = times  BY <1>10, SameTimes DEF MarkExecuted, Known
  <2> QED  BY <2>2, <2>3 DEF Abstract
<1> QED
  BY <1>1, <1>2, <1>4, <1>5, <1>6, <1>7, <1>8, <1>9, <1>10, Steps
  DEF Tables, Accept, RequestReview, Fails, Proceeds, WinDeal, RecordRun, StatementThrows

(* The workflow implements its promise: every action is done at most once,   *)
(* after its approval, and no decision is taken back.                        *)
THEOREM ImplementsGovernedActions ==
  ASSUME Case = {}
  PROVE  Spec => GovernedOnce
<1>1. Init => Gov!Init
  <2> SUFFICES ASSUME Init PROVE Gov!Init  OBVIOUS
  <2>1. \A a \in Approval: approval[a] \in {"none", "pending"}  BY DEF Init
  <2>2. decision \in [Approval -> {"none", "pending"}]  BY <2>1 DEF decision
  <2>3. \A a \in Approval: Times(a) = 0
    BY DEF Init, Times, ReleaseApproval, Release
  <2> QED  BY <2>2, <2>3 DEF Gov!Init, decision
<1>2. Init => OnceInv  BY GovInit DEF OnceInv, Init
<1>3. OnceInv /\ [Next]_vars => OnceInv'  BY OnceStep
<1>4. OnceInv /\ [Next]_vars => [Gov!Next]_Abstract  BY GovernStep
<1> QED  BY <1>1, <1>2, <1>3, <1>4, PTL DEF Spec, GovernedOnce, Gov!Spec, Abstract, decision, times

-----------------------------------------------------------------------------
(* Replies.  The count of a case's replies is behind the interrupts unless an *)
(* execution is under way or has left its run.                               *)

Sends(c) == cpu.at \in ExecuteLabel \ {"executed"} /\ cpu.approval = Reply(c)

ReplyInv ==
  /\ TypeOK
  /\ \A c \in Case:
       /\ results[Reply(c)] <= 1 + interrupts
       /\ run[Reply(c)] = "none" /\ ~Sends(c) => results[Reply(c)] <= interrupts

(* An execution that stops before its run is recorded was interrupted.       *)
LEMMA InterruptStep ==
  ASSUME TypeOK, [Next]_vars
  PROVE  /\ interrupts' \in {interrupts, interrupts + 1}
         /\ Crash \/ StatementThrows => interrupts' = interrupts + 1
BY DEF Next, vars, SetPeriod, ReviewSource, CreateQuote, RequestRelease, Accept, RequestReview,
       Decide, ExecuteRelease, ExecuteInvoice, Retry, ExecuteTask, ExecuteReply, ExecuteLegal,
       ExecutePrivacy, AcceptQuote, WinDeal, InsertApproval, MarkSubject, ClearFlag, RecordRun,
       MarkExecuted, FirstStatementThrows, Crash, StatementThrows

(* Only an execution of its own approval sends a reply.                      *)
LEMMA OtherReplies ==
  ASSUME TypeOK, [Next]_vars, NEW c \in Case
  PROVE  ExecuteReply(c) \/ results'[Reply(c)] = results[Reply(c)]
<1> DEFINE Same == results'[Reply(c)] = results[Reply(c)]
<1>0. Reply(c) \in Approval \ ReleaseApproval  BY Kinds, Counted
<1>1. ASSUME NEW q \in Quote, ExecuteInvoice(q) \/ Retry(q) PROVE Same
  BY <1>0, <1>1, OtherResults DEF ExecuteInvoice, Retry, Invoice, Reply
<1>2. ASSUME NEW k \in CollectionTask, ExecuteTask(k) PROVE Same
  BY <1>0, <1>2, OtherResults DEF ExecuteTask, TaskOf, Reply
<1>3. ASSUME NEW n \in Question, ExecuteLegal(n) PROVE Same
  BY <1>0, <1>3, OtherResults DEF ExecuteLegal, Legal, Reply
<1>4. ASSUME NEW r \in PrivacyRequest, ExecutePrivacy(r) PROVE Same
  BY <1>0, <1>4, OtherResults DEF ExecutePrivacy, Privacy, Reply
<1>5. ASSUME NEW d \in Case, ExecuteReply(d) PROVE Same \/ ExecuteReply(c)
  <2>1. CASE c = d  BY <1>5, <2>1
  <2>2. CASE c # d
    <3>1. Reply(c) # Reply(d)  BY <2>2 DEF Reply
    <3> QED  BY <1>0, <1>5, <3>1 DEF ExecuteReply, TypeOK
  <2> QED  BY <2>1, <2>2
<1> QED
  BY <1>1, <1>2, <1>3, <1>4, <1>5
  DEF Next, vars, SetPeriod, ReviewSource, CreateQuote, RequestRelease, Accept, RequestReview,
      Decide, ExecuteRelease, AcceptQuote, WinDeal, InsertApproval, MarkSubject, ClearFlag,
      RecordRun, MarkExecuted, FirstStatementThrows, FailRun, Crash, StatementThrows

(* An execution under way goes on, is interrupted, or records its run.       *)
LEMMA SendsStep ==
  ASSUME TypeOK, [Next]_vars, NEW c \in Case, Sends(c), run'[Reply(c)] = "none"
  PROVE  Sends(c)' \/ interrupts' = interrupts + 1
<1>0. cpu # Idle /\ Reply(c) \in Approval  BY Kinds DEF Sends, Idle, ExecuteLabel
<1>1. CASE MarkSubject
  <2>1. \E label \in {"flag", "run"}: Goto(label)  BY <1>1 DEF MarkSubject
  <2> QED  BY <2>1 DEF Goto, Run, Sends, ExecuteLabel
<1>2. CASE ClearFlag
  BY <1>2 DEF ClearFlag, Goto, Run, Sends, ExecuteLabel
<1>3. CASE RecordRun
  BY <1>0, <1>3 DEF RecordRun, Sends, TypeOK
<1>4. CASE Crash \/ StatementThrows
  BY <1>4, InterruptStep
<1>5. CASE UNCHANGED vars
  BY <1>5 DEF vars, Sends
<1> QED
  BY <1>0, <1>1, <1>2, <1>3, <1>4, <1>5
  DEF Next, SetPeriod, ReviewSource, CreateQuote, RequestRelease, Accept, RequestReview,
      Decide, ExecuteRelease, ExecuteInvoice, Retry, ExecuteTask, ExecuteReply, ExecuteLegal,
      ExecutePrivacy, AcceptQuote, WinDeal, InsertApproval, MarkExecuted, FirstStatementThrows,
      MayExecute, Sends, ExecuteLabel

(* A run never goes away.                                                    *)
LEMMA RunStays ==
  ASSUME TypeOK, [Next]_vars, NEW a \in Approval, run'[a] = "none"
  PROVE  run[a] = "none"
<1>1. ASSUME NEW b, NEW status \in {"failed", "locked"}, FailRun(b, status) PROVE run[a] = "none"
  BY <1>1 DEF FailRun, TypeOK
<1>2. ASSUME NEW b, NEW next, Produce(b, next) PROVE run[a] = "none"
  BY <1>2 DEF Produce
<1>3. CASE RecordRun
  BY <1>3 DEF RecordRun, TypeOK
<1>4. CASE StatementThrows
  BY <1>4 DEF StatementThrows, FailedIfNone, TypeOK
<1> QED
  BY <1>1, <1>2, <1>3, <1>4
  DEF Next, vars, SetPeriod, ReviewSource, CreateQuote, RequestRelease, Accept, RequestReview,
      Decide, ExecuteRelease, ExecuteInvoice, Retry, ExecuteTask, ExecuteReply, ExecuteLegal,
      ExecutePrivacy, AcceptQuote, WinDeal, InsertApproval, MarkSubject, ClearFlag, MarkExecuted,
      FirstStatementThrows, Crash

LEMMA ReplyStep == ReplyInv /\ [Next]_vars => ReplyInv'
<1> SUFFICES ASSUME ReplyInv, [Next]_vars PROVE ReplyInv'  OBVIOUS
<1> USE DEF ReplyInv
<1>1. TypeOK'  BY TypeStep
<1>2. ASSUME NEW c \in Case
      PROVE  /\ results'[Reply(c)] <= 1 + interrupts'
             /\ run'[Reply(c)] = "none" /\ ~Sends(c)' => results'[Reply(c)] <= interrupts'
  <2>0. Reply(c) \in Approval \ ReleaseApproval  BY Kinds, Counted
  <2>1. results[Reply(c)] \in Nat /\ interrupts \in Nat  BY <2>0, BoundsAreNatural DEF TypeOK
  <2>2. interrupts' \in {interrupts, interrupts + 1}  BY InterruptStep
  <2>3. CASE ExecuteReply(c)
    <3>1. run[Reply(c)] = "none" /\ ~Sends(c)
      BY <2>3 DEF ExecuteReply, MayExecute, Sends, Idle, ExecuteLabel
    <3>2. results'[Reply(c)] = results[Reply(c)] + 1  BY <2>0, <2>3 DEF ExecuteReply, TypeOK
    <3>3. Sends(c)'  BY <2>3 DEF ExecuteReply, Run, Sends, ExecuteLabel
    <3> QED  BY <2>1, <2>2, <3>1, <3>2, <3>3
  <2>4. CASE results'[Reply(c)] = results[Reply(c)]
    <3>1. run'[Reply(c)] = "none" => run[Reply(c)] = "none"  BY <2>0, RunStays
    <3>2. run'[Reply(c)] = "none" /\ ~Sends(c)' => ~Sends(c) \/ interrupts' = interrupts + 1
      BY SendsStep
    <3> QED  BY <2>1, <2>2, <2>4, <3>1, <3>2
  <2> QED  BY <2>3, <2>4, OtherReplies
<1> QED  BY <1>1, <1>2

(* The customer gets one reply, and one more for each interrupted execution   *)
(* of service.reply.send, never two for a run that was recorded.             *)
THEOREM RepliesAreCounted == Spec => []RepliesAreCrashes
<1>1. Init => ReplyInv
  <2> SUFFICES ASSUME Init PROVE ReplyInv  OBVIOUS
  <2>1. \A c \in Case: results[Reply(c)] = 0 /\ interrupts = 0
    BY Kinds, Counted DEF Init
  <2> QED  BY <2>1, TypeInit DEF ReplyInv
<1>2. ReplyInv => RepliesAreCrashes
  BY DEF ReplyInv, RepliesAreCrashes
<1> QED  BY <1>1, <1>2, ReplyStep, PTL DEF Spec

-----------------------------------------------------------------------------
(* What handlers leave.  The rows of a quote, a review and a run differ only  *)
(* by the statements that the running handler still has to execute, but for  *)
(* one approval per interruption, that of the handler that was cut short.    *)

At(label, a) == cpu.at = label /\ cpu.approval = a

QuoteRows(q) ==
  /\ q \in accepted <=> quote[q] = "accepted" \/ At("quote", Invoice(q))
  /\ q \in accepted <=> q \in won \/ At("quote", Invoice(q)) \/ At("deal", Invoice(q))
  /\ q \in accepted <=> \/ approval[Invoice(q)] # "none"
                        \/ At("quote", Invoice(q)) \/ At("deal", Invoice(q))
                        \/ At("approval", Invoice(q))

ReviewRows(a) ==
  /\ subject[a[2]] # "none" <=> approval[a] # "none" \/ At("approval", a)
  /\ subject[a[2]] = "handled" <=> run[a] = "completed" \/ At("run", a)
  /\ results[a] > 0 =>
       run[a] = "completed" \/ At("subject", a) \/ At("flag", a) \/ At("run", a)
  /\ At("subject", a) \/ At("flag", a) => run[a] # "completed"

RunRows(a) == run[a] = "completed" <=> approval[a] = "executed" \/ At("executed", a)

(* The actions that change a subject are a review's or a reply's.            *)
MarksIts ==
  /\ cpu.at = "subject" => cpu.approval \in ReviewApproval \cup {Reply(c): c \in Case}
  /\ cpu.at = "flag" => cpu.approval \in {Legal(n): n \in Question}

RowsAgree(a) ==
  /\ a \in InvoiceApproval => QuoteRows(a[2])
  /\ a \in ReviewApproval => ReviewRows(a)
  /\ RunRows(a)

Broken == {a \in Approval: ~RowsAgree(a)}

CompleteInv ==
  /\ GovInv
  /\ MarksIts
  /\ IsFiniteSet(Broken) /\ Cardinality(Broken) <= interrupts

(* The first statement of an execution or a retry, as far as reviews go.     *)
Begins(a) ==
  /\ Acts(a)
  /\ run[a] # "completed" /\ subject' = subject
  /\ cpu'.at # "flag"
  /\ cpu'.at = "subject" => a \in ReviewApproval \cup {Reply(c): c \in Case}
  /\ a \in ReviewApproval => run[a] = "none" /\ (results[a] = 0 => cpu'.at = "subject")

LEMMA ReviewKinds ==
  /\ \A n \in Question: Legal(n) \in ReviewApproval
  /\ \A r \in PrivacyRequest: Privacy(r) \in ReviewApproval
  /\ \A q \in Quote: Invoice(q) \notin ReviewApproval /\ Release(q) \notin ReviewApproval
  /\ \A k \in CollectionTask: TaskOf(k) \notin ReviewApproval
  /\ \A c \in Case: Reply(c) \notin ReviewApproval
BY DEF ReviewApproval, Legal, Privacy, Invoice, Release, TaskOf, Reply

LEMMA ProduceBegins ==
  ASSUME TypeOK, cpu = Idle, NEW a \in Approval \ ReleaseApproval, Decided(a),
         run[a] # "completed", NEW next \in {"subject", "run"}, Produce(a, next),
         UNCHANGED <<quote, accepted, won, approval, subject>>,
         next = "subject" => a \in ReviewApproval,
         a \in ReviewApproval => next = "subject" /\ run[a] = "none"
  PROVE  Begins(a)
<1>1. Acts(a)  BY ProduceActs DEF ExecuteLabel
<1>2. cpu'.at = IF results[a] = 0 THEN next ELSE "run"  BY DEF Produce, Run
<1> QED  BY <1>1, <1>2 DEF Begins

(* The steps that cut nothing short.                                         *)
LEMMA Undisturbed ==
  ASSUME TypeOK, LockedIsDecided, [Next]_vars, interrupts' = interrupts
  PROVE  \/ UNCHANGED <<Tables, subject, cpu>>
         \/ \E q \in Quote: CreateQuote(q) \/ RequestRelease(q) \/ ExecuteRelease(q)
         \/ \E q \in Quote, p \in Period: Accept(q, p)
         \/ \E s \in Question \cup PrivacyRequest: RequestReview(s)
         \/ \E a \in Approval, verdict \in {"approved", "rejected"}: Decide(a, verdict)
         \/ \E a \in Approval \ ReleaseApproval: Begins(a)
         \/ \E a \in Approval: Fails(a) /\ subject' = subject
         \/ AcceptQuote \/ WinDeal \/ InsertApproval
         \/ MarkSubject \/ ClearFlag \/ RecordRun \/ MarkExecuted
<1> USE Kinds, Counted
<1>0. interrupts \in Nat  BY BoundsAreNatural DEF TypeOK
<1>1. ~Crash /\ ~StatementThrows
  BY <1>0, InterruptStep
<1>2. ASSUME NEW a \in Approval, FirstStatementThrows(a) PROVE FALSE
  BY <1>0, <1>2 DEF FirstStatementThrows
<1>3. ASSUME NEW p \in Period, NEW status \in {"open", "closed"}, SetPeriod(p, status)
      PROVE  UNCHANGED <<Tables, subject, cpu>>
  BY <1>3 DEF SetPeriod, Tables
<1>4. ASSUME NEW ready \in BOOLEAN, ReviewSource(ready) PROVE UNCHANGED <<Tables, subject, cpu>>
  BY <1>4 DEF ReviewSource, Tables
<1>5. ASSUME NEW q \in Quote, ExecuteInvoice(q)
      PROVE  Begins(Invoice(q)) \/ (Fails(Invoice(q)) /\ subject' = subject)
  <2>1. /\ MayExecute(Invoice(q))
        /\ UNCHANGED <<quote, accepted, won, approval, subject>>
    BY <1>5 DEF ExecuteInvoice
  <2>2. CASE Produce(Invoice(q), "run")
    BY <2>1, <2>2, ProduceBegins, ReviewKinds DEF MayExecute, Decided
  <2>3. CASE FailRun(Invoice(q), "locked")
    BY <2>1, <2>3, FailRunFails
  <2> QED  BY <1>5, <2>2, <2>3 DEF ExecuteInvoice
<1>6. ASSUME NEW q \in Quote, Retry(q) PROVE Begins(Invoice(q))
  <2>1. Decided(Invoice(q))  BY <1>6 DEF Retry, LockedIsDecided
  <2> QED  BY <1>6, <2>1, ProduceBegins, ReviewKinds DEF Retry
<1>7. ASSUME NEW k \in CollectionTask, ExecuteTask(k)
      PROVE  Begins(TaskOf(k)) \/ (Fails(TaskOf(k)) /\ subject' = subject)
  <2>1. /\ MayExecute(TaskOf(k))
        /\ UNCHANGED <<quote, accepted, won, approval, subject>>
    BY <1>7 DEF ExecuteTask
  <2>2. CASE Produce(TaskOf(k), "run")
    BY <2>1, <2>2, ProduceBegins, ReviewKinds DEF MayExecute, Decided
  <2>3. CASE FailRun(TaskOf(k), "failed")
    BY <2>1, <2>3, FailRunFails
  <2> QED  BY <1>7, <2>2, <2>3 DEF ExecuteTask
<1>8. ASSUME NEW c \in Case, ExecuteReply(c) PROVE Begins(Reply(c))
  <2>1. results'[Reply(c)] = results[Reply(c)] + 1 /\ results[Reply(c)] \in Nat
    BY <1>8 DEF ExecuteReply, TypeOK
  <2>2. results' = [results EXCEPT ![Reply(c)] = results'[Reply(c)]]
    BY <1>8 DEF ExecuteReply, TypeOK
  <2>3. cpu'.at = "subject" /\ cpu'.approval = Reply(c)  BY <1>8 DEF ExecuteReply, Run
  <2>4. Acts(Reply(c))
    BY <1>8, <2>1, <2>2, <2>3 DEF Acts, ExecuteReply, MayExecute, Decided, ExecuteLabel
  <2> QED  BY <1>8, <2>3, <2>4, ReviewKinds DEF Begins, ExecuteReply, MayExecute
<1>9. ASSUME NEW n \in Question, ExecuteLegal(n) PROVE Begins(Legal(n))
  BY <1>9, ProduceBegins, ReviewKinds DEF ExecuteLegal, MayExecute, Decided
<1>10. ASSUME NEW r \in PrivacyRequest, ExecutePrivacy(r)
       PROVE  Begins(Privacy(r)) \/ (Fails(Privacy(r)) /\ subject' = subject)
  <2>1. /\ MayExecute(Privacy(r))
        /\ UNCHANGED <<quote, accepted, won, approval, subject>>
    BY <1>10 DEF ExecutePrivacy
  <2>2. CASE Produce(Privacy(r), "subject")
    BY <2>1, <2>2, ProduceBegins, ReviewKinds DEF MayExecute, Decided
  <2>3. CASE FailRun(Privacy(r), "failed")
    BY <2>1, <2>3, FailRunFails
  <2> QED  BY <1>10, <2>2, <2>3 DEF ExecutePrivacy
<1>11. CASE UNCHANGED vars
  BY <1>1, <1>11 DEF vars, Tables
<1> QED
  BY <1>1, <1>2, <1>3, <1>4, <1>5, <1>6, <1>7, <1>8, <1>9, <1>10, <1>11 DEF Next

(* A step of another handler leaves the rows of a quote alone.               *)
LEMMA QuietQuote ==
  ASSUME NEW q \in Quote, QuoteRows(q),
         cpu.at \notin {"quote", "deal", "approval"}, cpu'.at \notin {"quote", "deal", "approval"},
         UNCHANGED <<accepted, won>>,
         quote[q] = "accepted" <=> quote'[q] = "accepted",
         approval[Invoice(q)] = "none" <=> approval'[Invoice(q)] = "none"
  PROVE  QuoteRows(q)'
BY DEF QuoteRows, At

LEMMA QuoteRowsStep ==
  ASSUME GovInv, [Next]_vars, interrupts' = interrupts, NEW q \in Quote, QuoteRows(q)
  PROVE  QuoteRows(q)'
<1> USE DEF GovInv
<1>0. QuoteRows(q)  OBVIOUS
<1>i. \A r \in Quote: Invoice(r) = Invoice(q) => r = q  BY DEF Invoice
<1>k. Invoice(q) \in Approval  BY Kinds
<1>1. CASE UNCHANGED <<Tables, subject, cpu>>
  BY <1>0, <1>1 DEF Tables, QuoteRows, At
<1>2. ASSUME NEW r \in Quote, CreateQuote(r) PROVE QuoteRows(q)'
  BY <1>0, <1>2, QuietQuote DEF CreateQuote, TypeOK, Idle
<1>3. ASSUME NEW r \in Quote, RequestRelease(r) PROVE QuoteRows(q)'
  <2>1. approval'[Invoice(q)] = approval[Invoice(q)]
    BY <1>k, <1>3 DEF RequestRelease, TypeOK, Release, Invoice
  <2> QED  BY <1>0, <1>3, <2>1, QuietQuote DEF RequestRelease, Idle
<1>4. ASSUME NEW r \in Quote, ExecuteRelease(r) PROVE QuoteRows(q)'
  <2>1. quote[q] = "accepted" <=> quote'[q] = "accepted"
    BY <1>4 DEF ExecuteRelease, TypeOK
  <2> QED  BY <1>0, <1>4, <2>1, QuietQuote DEF ExecuteRelease, MayExecute, Run, Idle
<1>5. ASSUME NEW r \in Quote, NEW p \in Period, Accept(r, p) PROVE QuoteRows(q)'
  <2>1. cpu.at = "idle" /\ cpu'.at = "quote" /\ cpu'.approval = Invoice(r)
    BY <1>5 DEF Accept, Idle, Run
  <2>2. q \in accepted' <=> q \in accepted \/ q = r  BY <1>5 DEF Accept
  <2>3. UNCHANGED <<quote, won, approval>>  BY <1>5 DEF Accept
  <2>4. CASE q = r
    <3>1. At("quote", Invoice(q))'  BY <2>1, <2>4 DEF At
    <3> QED  BY <2>2, <2>4, <3>1 DEF QuoteRows
  <2>5. CASE q # r
    <3>1. cpu'.approval # Invoice(q)  BY <1>i, <2>1, <2>5
    <3> QED  BY <1>0, <2>1, <2>2, <2>3, <2>5, <3>1 DEF QuoteRows, At
  <2> QED  BY <2>4, <2>5
<1>6. ASSUME NEW s \in Question \cup PrivacyRequest, RequestReview(s) PROVE QuoteRows(q)'
  <2>1. cpu.at = "idle" /\ cpu'.at = "approval" /\ cpu'.approval # Invoice(q)
    BY <1>6 DEF RequestReview, Idle, Run, Invoice, Legal, Privacy
  <2> QED  BY <1>0, <1>6, <2>1 DEF RequestReview, QuoteRows, At
<1>7. ASSUME NEW a \in Approval, NEW d \in {"approved", "rejected"}, Decide(a, d)
      PROVE  QuoteRows(q)'
  <2>1. approval[Invoice(q)] = "none" <=> approval'[Invoice(q)] = "none"
    BY <1>k, <1>7 DEF Decide, TypeOK
  <2> QED  BY <1>0, <1>7, <2>1, QuietQuote DEF Decide, Idle
<1>8. ASSUME NEW a, Begins(a) PROVE QuoteRows(q)'
  BY <1>0, <1>8, QuietQuote DEF Begins, Acts, Idle, ExecuteLabel
<1>9. ASSUME NEW a, Fails(a) PROVE QuoteRows(q)'
  BY <1>0, <1>9 DEF Fails, QuoteRows, At
<1>10. CASE AcceptQuote
  <2>1. PICK r \in Quote: cpu.approval = Invoice(r)
    BY <1>10, Frames DEF AcceptQuote, AcceptFrame, InvoiceApproval
  <2>2. cpu.at = "quote" /\ cpu'.at = "deal" /\ cpu'.approval = Invoice(r)
    BY <1>10, <2>1, GoesOn DEF AcceptQuote
  <2>3. quote' = [quote EXCEPT ![r] = "accepted"]  BY <1>10, <2>1 DEF AcceptQuote, Invoice
  <2>4. UNCHANGED <<accepted, won, approval>>  BY <1>10 DEF AcceptQuote
  <2>5. CASE q = r
    <3>1. At("quote", Invoice(q)) /\ At("deal", Invoice(q))'  BY <2>1, <2>2, <2>5 DEF At
    <3>2. quote'[q] = "accepted"  BY <2>3, <2>5 DEF TypeOK
    <3> QED  BY <1>0, <2>4, <3>1, <3>2 DEF QuoteRows
  <2>6. CASE q # r
    <3>1. cpu.approval # Invoice(q) /\ cpu'.approval # Invoice(q)  BY <1>i, <2>1, <2>2, <2>6
    <3>2. quote'[q] = quote[q]  BY <2>3, <2>6 DEF TypeOK
    <3> QED  BY <1>0, <2>4, <3>1, <3>2 DEF QuoteRows, At
  <2> QED  BY <2>5, <2>6
<1>11. CASE WinDeal
  <2>1. PICK r \in Quote: cpu.approval = Invoice(r)
    BY <1>11, Frames DEF WinDeal, AcceptFrame, InvoiceApproval
  <2>2. cpu.at = "deal" /\ cpu'.at = "approval" /\ cpu'.approval = Invoice(r)
    BY <1>11, <2>1, GoesOn DEF WinDeal
  <2>3. won' = won \cup {r}  BY <1>11, <2>1 DEF WinDeal, Invoice
  <2>4. UNCHANGED <<accepted, quote, approval>>  BY <1>11 DEF WinDeal
  <2>5. CASE q = r
    <3>1. At("deal", Invoice(q)) /\ At("approval", Invoice(q))'  BY <2>1, <2>2, <2>5 DEF At
    <3>2. q \in won'  BY <2>3, <2>5
    <3>3. ~At("quote", Invoice(q))  BY <2>2 DEF At
    <3> QED  BY <1>0, <2>4, <3>1, <3>2, <3>3 DEF QuoteRows
  <2>6. CASE q # r
    <3>1. cpu.approval # Invoice(q) /\ cpu'.approval # Invoice(q)  BY <1>i, <2>1, <2>2, <2>6
    <3>2. q \in won' <=> q \in won  BY <2>3, <2>6
    <3> QED  BY <1>0, <2>4, <3>1, <3>2 DEF QuoteRows, At
  <2> QED  BY <2>5, <2>6
<1>12. CASE InsertApproval
  <2>1. cpu.at = "approval" /\ cpu'.at = "idle"  BY <1>12 DEF InsertApproval, Idle
  <2>2. approval' = [approval EXCEPT ![cpu.approval] = "pending"]
    BY <1>12 DEF InsertApproval
  <2>3. UNCHANGED <<accepted, won, quote>>  BY <1>12 DEF InsertApproval
  <2>4. CASE cpu.approval = Invoice(q)
    <3>1. At("approval", Invoice(q))  BY <2>1, <2>4 DEF At
    <3>2. approval'[Invoice(q)] # "none"  BY <1>k, <2>2, <2>4 DEF TypeOK
    <3>3. ~At("quote", Invoice(q)) /\ ~At("deal", Invoice(q))  BY <2>1 DEF At
    <3>4. ~At("quote", Invoice(q))' /\ ~At("deal", Invoice(q))' /\ ~At("approval", Invoice(q))'
      BY <2>1 DEF At
    <3> QED  BY <1>0, <2>3, <3>1, <3>2, <3>3, <3>4 DEF QuoteRows
  <2>5. CASE cpu.approval # Invoice(q)
    <3>1. approval'[Invoice(q)] = approval[Invoice(q)]  BY <1>k, <2>2, <2>5 DEF TypeOK
    <3> QED  BY <1>0, <2>1, <2>3, <2>5, <3>1 DEF QuoteRows, At
  <2> QED  BY <2>4, <2>5
<1>13. CASE MarkSubject
  <2>1. \E label \in {"flag", "run"}: Goto(label)  BY <1>13 DEF MarkSubject
  <2>2. cpu'.at \in {"flag", "run"}  BY <2>1 DEF Goto, Run
  <2> QED  BY <1>0, <1>13, <2>2, QuietQuote DEF MarkSubject
<1>14. ASSUME ClearFlag \/ RecordRun PROVE QuoteRows(q)'
  BY <1>0, <1>14, QuietQuote DEF ClearFlag, RecordRun, Goto, Run
<1>15. CASE MarkExecuted
  <2>1. cpu.approval \in Approval /\ approval[cpu.approval] # "none"
    BY <1>15, Frames DEF MarkExecuted, ExecuteFrame, ExecuteLabel, Decided
  <2>2. approval[Invoice(q)] = "none" <=> approval'[Invoice(q)] = "none"
    BY <1>15, <1>k, <2>1 DEF MarkExecuted, TypeOK
  <2> QED  BY <1>0, <1>15, <2>2, QuietQuote DEF MarkExecuted, Idle
<1> QED
  BY <1>1, <1>2, <1>3, <1>4, <1>5, <1>6, <1>7, <1>8, <1>9, <1>10, <1>11, <1>12, <1>13, <1>14,
     <1>15, Undisturbed

(* A run is completed right before its approval is marked.                   *)
LEMMA RunRowsStep ==
  ASSUME GovInv, [Next]_vars, interrupts' = interrupts, NEW a \in Approval, RunRows(a)
  PROVE  RunRows(a)'
<1> USE DEF GovInv
<1>0. RunRows(a)  OBVIOUS
<1>q. ASSUME cpu.at # "executed", cpu'.at # "executed",
             run[a] = "completed" <=> run'[a] = "completed",
             approval[a] = "executed" <=> approval'[a] = "executed"
      PROVE  RunRows(a)'
  BY <1>0, <1>q DEF RunRows, At
<1>1. CASE UNCHANGED <<Tables, subject, cpu>>
  BY <1>0, <1>1 DEF Tables, RunRows, At
<1>2. ASSUME NEW q \in Quote, CreateQuote(q) PROVE RunRows(a)'
  BY <1>q, <1>2 DEF CreateQuote, Idle
<1>3. ASSUME NEW q \in Quote, RequestRelease(q) PROVE RunRows(a)'
  <2>1. approval[a] = "executed" <=> approval'[a] = "executed"
    BY <1>3 DEF RequestRelease, TypeOK
  <2> QED  BY <1>q, <1>3, <2>1 DEF RequestRelease, Idle
<1>4. ASSUME NEW q \in Quote, ExecuteRelease(q) PROVE RunRows(a)'
  BY <1>q, <1>4 DEF ExecuteRelease, MayExecute, Run, Idle
<1>5. ASSUME NEW q \in Quote, NEW p \in Period, Accept(q, p) PROVE RunRows(a)'
  BY <1>q, <1>5 DEF Accept, Run, Idle
<1>6. ASSUME NEW s \in Question \cup PrivacyRequest, RequestReview(s) PROVE RunRows(a)'
  BY <1>q, <1>6 DEF RequestReview, Run, Idle
<1>7. ASSUME NEW b \in Approval, NEW d \in {"approved", "rejected"}, Decide(b, d)
      PROVE  RunRows(a)'
  <2>1. approval[a] = "executed" <=> approval'[a] = "executed"
    BY <1>7 DEF Decide, TypeOK
  <2> QED  BY <1>q, <1>7, <2>1 DEF Decide, Idle
<1>8. ASSUME NEW b, Begins(b) PROVE RunRows(a)'
  BY <1>q, <1>8 DEF Begins, Acts, Idle
<1>9. ASSUME NEW b \in Approval, Fails(b) PROVE RunRows(a)'
  <2>1. run[a] = "completed" <=> run'[a] = "completed"  BY <1>9 DEF Fails, TypeOK
  <2>2. cpu' = cpu /\ approval' = approval  BY <1>9 DEF Fails
  <2> QED  BY <1>0, <2>1, <2>2 DEF RunRows, At
<1>10. CASE AcceptQuote \/ WinDeal
  BY <1>q, <1>10 DEF AcceptQuote, WinDeal, Goto, Run
<1>11. CASE InsertApproval
  <2>1. approval[a] = "executed" <=> approval'[a] = "executed"
    BY <1>11 DEF InsertApproval, TypeOK
  <2> QED  BY <1>q, <1>11, <2>1 DEF InsertApproval, Idle
<1>12. CASE MarkSubject
  <2>1. \E label \in {"flag", "run"}: Goto(label)  BY <1>12 DEF MarkSubject
  <2>2. cpu'.at \in {"flag", "run"}  BY <2>1 DEF Goto, Run
  <2> QED  BY <1>q, <1>12, <2>2 DEF MarkSubject
<1>13. CASE ClearFlag
  BY <1>q, <1>13 DEF ClearFlag, Goto, Run
<1>14. CASE RecordRun
  <2>1. /\ cpu.at = "run" /\ cpu'.at = "executed" /\ cpu'.approval = cpu.approval
        /\ approval' = approval /\ run' = [run EXCEPT ![cpu.approval] = "completed"]
    BY <1>14, GoesOn DEF RecordRun
  <2>2. CASE a = cpu.approval
    <3>1. run'[a] = "completed"  BY <2>1, <2>2 DEF TypeOK
    <3>2. At("executed", a)'  BY <2>1, <2>2 DEF At
    <3> QED  BY <3>1, <3>2 DEF RunRows
  <2>3. CASE a # cpu.approval
    <3>1. run'[a] = run[a]  BY <2>1, <2>3 DEF TypeOK
    <3> QED  BY <1>0, <2>1, <2>3, <3>1 DEF RunRows, At
  <2> QED  BY <2>2, <2>3
<1>15. CASE MarkExecuted
  <2>1. /\ cpu.at = "executed" /\ cpu'.at = "idle" /\ run' = run
        /\ approval' = [approval EXCEPT ![cpu.approval] = "executed"]
    BY <1>15 DEF MarkExecuted, Idle
  <2>2. CASE a = cpu.approval
    <3>1. approval'[a] = "executed"  BY <2>1, <2>2 DEF TypeOK
    <3>2. At("executed", a)  BY <2>1, <2>2 DEF At
    <3> QED  BY <1>0, <2>1, <3>1, <3>2 DEF RunRows
  <2>3. CASE a # cpu.approval
    <3>1. approval'[a] = approval[a]  BY <2>1, <2>3 DEF TypeOK
    <3> QED  BY <1>0, <2>1, <2>3, <3>1 DEF RunRows, At
  <2> QED  BY <2>2, <2>3
<1> QED
  BY <1>1, <1>2, <1>3, <1>4, <1>5, <1>6, <1>7, <1>8, <1>9, <1>10, <1>11, <1>12, <1>13, <1>14,
     <1>15, Undisturbed

LEMMA MarksItsStep ==
  ASSUME GovInv, MarksIts, [Next]_vars, interrupts' = interrupts
  PROVE  MarksIts'
<1> USE DEF GovInv
<1>0. MarksIts  OBVIOUS
<1>1. ASSUME cpu' = cpu PROVE MarksIts'
  BY <1>0, <1>1 DEF MarksIts
<1>2. ASSUME cpu'.at \notin {"subject", "flag"} PROVE MarksIts'
  BY <1>2 DEF MarksIts
<1>3. ASSUME NEW b, Begins(b) PROVE MarksIts'
  BY <1>3 DEF Begins, Acts, MarksIts
<1>4. CASE MarkSubject
  <2>1. CASE cpu.approval[2] \in Question
    <3>1. cpu'.at = "flag" /\ cpu'.approval = cpu.approval
      BY <1>4, <2>1 DEF MarkSubject, Goto, Run
    <3>2. cpu.approval \in ReviewApproval \cup {Reply(c): c \in Case}
      BY <1>0, <1>4 DEF MarkSubject, MarksIts
    <3>3. cpu.approval \in {Legal(n): n \in Question}
      BY <2>1, <3>2, SubjectsApart DEF ReviewApproval, Legal, Privacy, Reply
    <3> QED  BY <3>1, <3>3 DEF MarksIts
  <2>2. CASE cpu.approval[2] \notin Question
    BY <1>2, <1>4, <2>2 DEF MarkSubject, Goto, Run
  <2> QED  BY <2>1, <2>2
<1> QED
  BY <1>1, <1>2, <1>3, <1>4, Undisturbed
  DEF CreateQuote, RequestRelease, ExecuteRelease, Accept, RequestReview, Decide, Fails,
      AcceptQuote, WinDeal, InsertApproval, ClearFlag, RecordRun, MarkExecuted, Goto, Run, Idle

(* A subject has one review.                                                 *)
LEMMA OneReview ==
  ASSUME NEW a \in ReviewApproval
  PROVE  /\ a[2] \in Question \cup PrivacyRequest
         /\ \A b \in ReviewApproval: b[2] = a[2] => b = a
         /\ \A c \in Case: Reply(c) # a /\ c # a[2]
BY SubjectsApart DEF ReviewApproval, Legal, Privacy, Reply

(* A step of another handler leaves the rows of a review alone.              *)
LEMMA QuietReview ==
  ASSUME NEW a \in ReviewApproval, ReviewRows(a),
         cpu.at \in {"approval", "subject", "flag", "run"} => cpu.approval # a,
         cpu'.at \in {"approval", "subject", "flag", "run"} => cpu'.approval # a,
         subject'[a[2]] = subject[a[2]], results'[a] = results[a],
         approval[a] = "none" <=> approval'[a] = "none",
         run[a] = "completed" <=> run'[a] = "completed"
  PROVE  ReviewRows(a)'
BY DEF ReviewRows, At

(* A review is marked and flagged before its run is recorded.                *)
LEMMA MarkedRows ==
  ASSUME GovInv, NEW a \in ReviewApproval, ReviewRows(a),
         cpu.at \in {"subject", "flag", "run"}, cpu.approval = a
  PROVE  /\ approval[a] # "none" /\ subject[a[2]] # "none"
         /\ cpu.at # "run" => run[a] # "completed"
         /\ cpu.at = "run" => subject[a[2]] = "handled"
BY DEF GovInv, ExecuteLabel, Decided, ReviewRows, At

LEMMA MarkSubjectRows ==
  ASSUME GovInv, MarksIts, MarkSubject, NEW a \in ReviewApproval, ReviewRows(a)
  PROVE  ReviewRows(a)'
<1> USE DEF GovInv
<1>1. /\ ReviewRows(a) /\ MarksIts /\ cpu.at = "subject"
      /\ UNCHANGED <<approval, run, results>>
  BY DEF MarkSubject
<1>2. cpu'.at \in {"flag", "run"} /\ cpu'.approval = cpu.approval
  <2>1. \E label \in {"flag", "run"}: Goto(label)  BY DEF MarkSubject
  <2> QED  BY <2>1 DEF Goto, Run
<1>3. cpu.approval \in ReviewApproval \cup {Reply(c): c \in Case}  BY <1>1 DEF MarksIts
<1>4. a[2] \in Subject  BY OneReview DEF Subject
<1>5. CASE cpu.approval = a
  <2>1. approval[a] # "none" /\ run[a] # "completed"  BY <1>1, <1>5, MarkedRows
  <2>2. CASE a[2] \in Question
    <3>1. cpu'.at = "flag" /\ subject'[a[2]] = "published"
      BY <1>4, <1>5, <2>2 DEF MarkSubject, Goto, Run, TypeOK
    <3> QED  BY <1>1, <1>2, <1>5, <2>1, <3>1 DEF ReviewRows, At
  <2>3. CASE a[2] \notin Question
    <3>1. cpu'.at = "run" /\ subject'[a[2]] = "handled"
      BY <1>4, <1>5, <2>3 DEF MarkSubject, Goto, Run, TypeOK
    <3> QED  BY <1>1, <1>2, <1>5, <2>1, <3>1 DEF ReviewRows, At
  <2> QED  BY <2>2, <2>3
<1>6. CASE cpu.approval # a
  <2>1. cpu.approval[2] # a[2]
    BY <1>3, <1>6, OneReview DEF Reply
  <2>2. subject'[a[2]] = subject[a[2]]  BY <1>4, <2>1 DEF MarkSubject, TypeOK
  <2> QED  BY <1>1, <1>2, <1>6, <2>2, QuietReview
<1> QED  BY <1>5, <1>6

LEMMA ClearFlagRows ==
  ASSUME GovInv, MarksIts, ClearFlag, NEW a \in ReviewApproval, ReviewRows(a)
  PROVE  ReviewRows(a)'
<1> USE DEF GovInv
<1>1. /\ ReviewRows(a) /\ MarksIts /\ cpu.at = "flag"
      /\ UNCHANGED <<approval, run, results>>
  BY DEF ClearFlag
<1>2. cpu'.at = "run" /\ cpu'.approval = cpu.approval
  BY DEF ClearFlag, Goto, Run
<1>3. cpu.approval \in ReviewApproval  BY <1>1, ReviewKinds DEF MarksIts
<1>4. a[2] \in Subject  BY OneReview DEF Subject
<1>5. CASE cpu.approval = a
  <2>1. approval[a] # "none" /\ run[a] # "completed"  BY <1>1, <1>5, MarkedRows
  <2>2. subject'[a[2]] = "handled"  BY <1>4, <1>5 DEF ClearFlag, TypeOK
  <2> QED  BY <1>1, <1>2, <1>5, <2>1, <2>2 DEF ReviewRows, At
<1>6. CASE cpu.approval # a
  <2>1. cpu.approval[2] # a[2]  BY <1>3, <1>6, OneReview
  <2>2. subject'[a[2]] = subject[a[2]]  BY <1>4, <2>1 DEF ClearFlag, TypeOK
  <2> QED  BY <1>1, <1>2, <1>6, <2>2, QuietReview
<1> QED  BY <1>5, <1>6

LEMMA ReviewRowsStep ==
  ASSUME GovInv, MarksIts, [Next]_vars, interrupts' = interrupts,
         NEW a \in ReviewApproval, ReviewRows(a)
  PROVE  ReviewRows(a)'
<1> USE DEF GovInv
<1>0. ReviewRows(a)  OBVIOUS
<1>k. /\ a \in Approval \ ReleaseApproval /\ a[2] \in Subject
      /\ a \notin InvoiceApproval
  BY ReviewKinds, OneReview DEF Approval, ReleaseApproval, InvoiceApproval, Subject
<1>1. CASE UNCHANGED <<Tables, subject, cpu>>
  BY <1>0, <1>1 DEF Tables, ReviewRows, At
<1>2. ASSUME NEW q \in Quote, CreateQuote(q) PROVE ReviewRows(a)'
  BY <1>0, <1>2, QuietReview DEF CreateQuote, Idle
<1>3. ASSUME NEW q \in Quote, RequestRelease(q) PROVE ReviewRows(a)'
  <2>1. approval'[a] = approval[a]
    BY <1>3, <1>k, ReviewKinds DEF RequestRelease, TypeOK
  <2> QED  BY <1>0, <1>3, <2>1, QuietReview DEF RequestRelease, Idle
<1>4. ASSUME NEW q \in Quote, ExecuteRelease(q) PROVE ReviewRows(a)'
  BY <1>0, <1>4, QuietReview, ReviewKinds DEF ExecuteRelease, MayExecute, Run, Idle
<1>5. ASSUME NEW q \in Quote, NEW p \in Period, Accept(q, p) PROVE ReviewRows(a)'
  BY <1>0, <1>5, QuietReview DEF Accept, Run, Idle
<1>6. ASSUME NEW s \in Question \cup PrivacyRequest, RequestReview(s) PROVE ReviewRows(a)'
  <2>1. PICK b \in ReviewApproval: b[2] = s /\ cpu'.approval = b
    BY <1>6 DEF RequestReview, Run, ReviewApproval, Legal, Privacy
  <2>2. cpu.at = "idle" /\ cpu'.at = "approval" /\ UNCHANGED <<approval, run, results>>
    BY <1>6 DEF RequestReview, Run, Idle
  <2>3. subject[s] = "none" /\ subject' = [subject EXCEPT ![s] = "open"]
    BY <1>6 DEF RequestReview
  <2>4. CASE a = b
    <3>1. subject'[a[2]] = "open"  BY <1>k, <2>1, <2>3, <2>4 DEF TypeOK
    <3>2. At("approval", a)'  BY <2>1, <2>2, <2>4 DEF At
    <3>3. run[a] # "completed" /\ ~(results[a] > 0)
      BY <1>0, <2>1, <2>2, <2>3, <2>4 DEF ReviewRows, At
    <3> QED  BY <2>2, <3>1, <3>2, <3>3 DEF ReviewRows, At
  <2>5. CASE a # b
    <3>1. a[2] # s  BY <2>1, <2>5, OneReview
    <3>2. subject'[a[2]] = subject[a[2]]  BY <1>k, <2>3, <3>1 DEF TypeOK
    <3> QED  BY <1>0, <2>1, <2>2, <2>5, <3>2, QuietReview
  <2> QED  BY <2>4, <2>5
<1>7. ASSUME NEW b \in Approval, NEW d \in {"approved", "rejected"}, Decide(b, d)
      PROVE  ReviewRows(a)'
  <2>1. approval[a] = "none" <=> approval'[a] = "none"
    BY <1>k, <1>7 DEF Decide, TypeOK
  <2> QED  BY <1>0, <1>7, <2>1, QuietReview DEF Decide, Idle
<1>8. ASSUME NEW b \in Approval \ ReleaseApproval, Begins(b) PROVE ReviewRows(a)'
  <2>1. /\ cpu.at = "idle" /\ cpu'.approval = b
        /\ UNCHANGED <<approval, run, subject>>
        /\ results' = [results EXCEPT ![b] = results'[b]]
    BY <1>8 DEF Begins, Acts, Idle
  <2>2. CASE a = b
    <3>1. run[a] = "none" /\ (results[a] = 0 => cpu'.at = "subject")
      BY <1>8, <2>2 DEF Begins
    <3>2. results[a] = 0  BY <1>0, <1>k, <2>1, <3>1 DEF ReviewRows, At, TypeOK
    <3>3. cpu'.at = "subject" /\ cpu'.approval = a  BY <2>1, <2>2, <3>1, <3>2
    <3> QED  BY <1>0, <2>1, <3>1, <3>3 DEF ReviewRows, At
  <2>3. CASE a # b
    <3>1. results'[a] = results[a]  BY <1>k, <2>1, <2>3 DEF TypeOK
    <3> QED  BY <1>0, <2>1, <2>3, <3>1, QuietReview
  <2> QED  BY <2>2, <2>3
<1>9. ASSUME NEW b \in Approval, Fails(b), subject' = subject PROVE ReviewRows(a)'
  <2>1. run[a] = "completed" <=> run'[a] = "completed"  BY <1>9, <1>k DEF Fails, TypeOK
  <2>2. UNCHANGED <<cpu, approval, results>>  BY <1>9 DEF Fails
  <2> QED  BY <1>0, <1>9, <2>1, <2>2 DEF ReviewRows, At
<1>10. ASSUME AcceptQuote \/ WinDeal PROVE ReviewRows(a)'
  <2>1. cpu.approval \in InvoiceApproval /\ cpu.at \in {"quote", "deal"}
    BY <1>10, Frames DEF AcceptQuote, WinDeal, AcceptFrame
  <2>2. cpu'.approval = cpu.approval  BY <1>10 DEF AcceptQuote, WinDeal, Goto, Run
  <2> QED  BY <1>0, <1>10, <1>k, <2>1, <2>2, QuietReview DEF AcceptQuote, WinDeal
<1>11. CASE InsertApproval
  <2>1. /\ cpu.at = "approval" /\ cpu'.at = "idle" /\ UNCHANGED <<subject, run, results>>
        /\ approval' = [approval EXCEPT ![cpu.approval] = "pending"]
    BY <1>11 DEF InsertApproval, Idle
  <2>2. CASE cpu.approval = a
    <3>1. approval'[a] # "none" /\ subject[a[2]] # "none"
      BY <1>0, <1>k, <2>1, <2>2 DEF ReviewRows, At, TypeOK
    <3> QED  BY <1>0, <2>1, <3>1 DEF ReviewRows, At
  <2>3. CASE cpu.approval # a
    <3>1. approval'[a] = approval[a]  BY <1>k, <2>1, <2>3 DEF TypeOK
    <3> QED  BY <1>0, <2>1, <2>3, <3>1, QuietReview
  <2> QED  BY <2>2, <2>3
<1>12. CASE RecordRun
  <2>1. /\ cpu.at = "run" /\ cpu'.at = "executed" /\ UNCHANGED <<subject, approval, results>>
        /\ run' = [run EXCEPT ![cpu.approval] = "completed"]
    BY <1>12 DEF RecordRun, Goto, Run
  <2>2. CASE cpu.approval = a
    <3>1. run'[a] = "completed"  BY <1>k, <2>1, <2>2 DEF TypeOK
    <3>2. subject[a[2]] = "handled" /\ approval[a] # "none"
      BY <1>0, <2>1, <2>2, MarkedRows
    <3> QED  BY <2>1, <3>1, <3>2 DEF ReviewRows, At
  <2>3. CASE cpu.approval # a
    <3>1. run'[a] = run[a]  BY <1>k, <2>1, <2>3 DEF TypeOK
    <3> QED  BY <1>0, <2>1, <2>3, <3>1, QuietReview
  <2> QED  BY <2>2, <2>3
<1>13. CASE MarkExecuted
  <2>1. cpu.approval \in Approval /\ approval[cpu.approval] # "none"
    BY <1>13, Frames DEF MarkExecuted, ExecuteFrame, ExecuteLabel, Decided
  <2>2. approval[a] = "none" <=> approval'[a] = "none"
    BY <1>13, <1>k, <2>1 DEF MarkExecuted, TypeOK
  <2> QED  BY <1>0, <1>13, <2>2, QuietReview DEF MarkExecuted, Idle
<1> QED
  BY <1>0, <1>1, <1>2, <1>3, <1>4, <1>5, <1>6, <1>7, <1>8, <1>9, <1>10, <1>11, <1>12, <1>13,
     MarkSubjectRows, ClearFlagRows, Undisturbed

LEMMA InvoiceOf == \A a \in InvoiceApproval: a[2] \in Quote /\ a = Invoice(a[2])
BY DEF InvoiceApproval, Invoice

(* A handler that goes on breaks nothing that agrees.                        *)
LEMMA NothingBreaks ==
  ASSUME GovInv, MarksIts, [Next]_vars, interrupts' = interrupts
  PROVE  Broken' \subseteq Broken
<1> SUFFICES ASSUME NEW a \in Approval, RowsAgree(a) PROVE RowsAgree(a)'
  BY DEF Broken
<1>1. a \in InvoiceApproval => QuoteRows(a[2])'
  BY InvoiceOf, QuoteRowsStep DEF RowsAgree
<1>2. a \in ReviewApproval => ReviewRows(a)'
  BY ReviewRowsStep DEF RowsAgree
<1>3. RunRows(a)'
  BY RunRowsStep DEF RowsAgree
<1> QED  BY <1>1, <1>2, <1>3 DEF RowsAgree

(* One that is cut short leaves the rows of its own approval.                *)
LEMMA InterruptBreaksOne ==
  ASSUME GovInv, MarksIts, [Next]_vars, interrupts' # interrupts
  PROVE  MarksIts' /\ \E b: Broken' \subseteq Broken \cup {b}
<1> USE DEF GovInv
<1>1. Crash \/ StatementThrows \/ \E a \in Approval: FirstStatementThrows(a)
  BY DEF Next, vars, SetPeriod, ReviewSource, CreateQuote, RequestRelease, Accept, RequestReview,
         Decide, ExecuteRelease, ExecuteInvoice, Retry, ExecuteTask, ExecuteReply, ExecuteLegal,
         ExecutePrivacy, AcceptQuote, WinDeal, InsertApproval, MarkSubject, ClearFlag, RecordRun,
         MarkExecuted
<1>2. ASSUME NEW b, cpu' = Idle \/ cpu' = cpu, cpu' # cpu => b = cpu.approval,
             UNCHANGED <<quote, accepted, won, subject, approval, results>>,
             \A a \in Approval \ {b}: run'[a] = run[a]
      PROVE  MarksIts' /\ Broken' \subseteq Broken \cup {b}
  <2>1. MarksIts'  BY <1>2 DEF MarksIts, Idle
  <2>2. ASSUME NEW a \in Approval, a # b, RowsAgree(a) PROVE RowsAgree(a)'
    <3>1. \A label \in {"quote", "deal", "approval", "subject", "flag", "run", "executed"}:
            At(label, a)' <=> At(label, a)
      BY <1>2, <2>2 DEF At, Idle
    <3>2. run'[a] = run[a]  BY <1>2, <2>2
    <3>3. CASE a \in InvoiceApproval
      <4>1. a[2] \in Quote /\ a = Invoice(a[2]) /\ QuoteRows(a[2])
        BY <2>2, <3>3, InvoiceOf DEF RowsAgree
      <4>2. QuoteRows(a[2])'  BY <1>2, <3>1, <4>1 DEF QuoteRows
      <4>3. a \notin ReviewApproval  BY <4>1, ReviewKinds
      <4> QED  BY <1>2, <2>2, <3>1, <3>2, <4>2, <4>3 DEF RowsAgree, RunRows
    <3>4. CASE a \notin InvoiceApproval
      BY <1>2, <2>2, <3>1, <3>2, <3>4 DEF RowsAgree, RunRows, ReviewRows
    <3> QED  BY <3>3, <3>4
  <2> QED  BY <2>1, <2>2 DEF Broken
<1>3. CASE Crash
  BY <1>2, <1>3 DEF Crash
<1>4. CASE StatementThrows
  <2>1. \A a \in Approval \ {cpu.approval}: run'[a] = run[a]
    BY <1>4 DEF StatementThrows, FailedIfNone, TypeOK
  <2> QED  BY <1>2, <1>4, <2>1 DEF StatementThrows
<1>5. ASSUME NEW a \in Approval, FirstStatementThrows(a)
      PROVE  MarksIts' /\ Broken' \subseteq Broken \cup {a}
  <2>1. \A c \in Approval \ {a}: run'[c] = run[c]
    BY <1>5 DEF FirstStatementThrows, FailRun, TypeOK
  <2> QED  BY <1>2, <1>5, <2>1 DEF FirstStatementThrows, FailRun
<1> QED  BY <1>1, <1>3, <1>4, <1>5

LEMMA CompleteStep == CompleteInv /\ [Next]_vars => CompleteInv'
<1> SUFFICES ASSUME CompleteInv, [Next]_vars PROVE CompleteInv'  OBVIOUS
<1>1. GovInv /\ GovInv' /\ MarksIts  BY GovStep DEF CompleteInv
<1>2. IsFiniteSet(Broken) /\ Cardinality(Broken) \in Nat /\ Cardinality(Broken) <= interrupts
  BY FS_CardinalityType DEF CompleteInv
<1>3. interrupts \in Nat /\ interrupts' \in {interrupts, interrupts + 1}
  BY <1>1, BoundsAreNatural, InterruptStep DEF GovInv, TypeOK
<1>4. CASE interrupts' = interrupts
  <2>1. Broken' \subseteq Broken /\ MarksIts'  BY <1>1, <1>4, NothingBreaks, MarksItsStep
  <2>2. IsFiniteSet(Broken') /\ Cardinality(Broken') <= Cardinality(Broken)
    BY <1>2, <2>1, FS_Subset
  <2>3. Cardinality(Broken') \in Nat  BY <2>2, FS_CardinalityType
  <2> QED  BY <1>1, <1>2, <1>3, <1>4, <2>1, <2>2, <2>3 DEF CompleteInv
<1>5. CASE interrupts' # interrupts
  <2>1. MarksIts'  BY <1>1, <1>5, InterruptBreaksOne
  <2>2. PICK b: Broken' \subseteq Broken \cup {b}  BY <1>1, <1>5, InterruptBreaksOne
  <2>3. /\ IsFiniteSet(Broken \cup {b})
        /\ Cardinality(Broken \cup {b}) = IF b \in Broken THEN Cardinality(Broken)
                                                         ELSE Cardinality(Broken) + 1
    BY <1>2, FS_AddElement
  <2>4. IsFiniteSet(Broken') /\ Cardinality(Broken') <= Cardinality(Broken \cup {b})
    BY <2>2, <2>3, FS_Subset
  <2>5. Cardinality(Broken') \in Nat  BY <2>4, FS_CardinalityType
  <2> QED  BY <1>1, <1>2, <1>3, <1>5, <2>1, <2>3, <2>4, <2>5 DEF CompleteInv
<1> QED  BY <1>4, <1>5

(* Quote, acceptance, deal and approval, review and request, run and approval *)
(* agree whenever no handler runs, but for one approval per interruption.    *)
THEOREM HandlersLeaveNoGap == Spec => []HandlersComplete
<1>1. Init => CompleteInv
  <2> SUFFICES ASSUME Init PROVE CompleteInv  OBVIOUS
  <2>1. GovInv  BY GovInit
  <2>2. cpu.at = "idle" /\ interrupts = 0  BY DEF Init, Idle
  <2>3. \A a \in InvoiceApproval \cup ReviewApproval: a \in Approval /\ approval[a] = "none"
    BY DEF Init, Approval, InvoiceApproval, ReviewApproval, SeedApproval, Invoice, Legal,
           Privacy, Reply, TaskOf
  <2>4. \A q \in Quote: QuoteRows(q)
    BY <2>2, <2>3 DEF Init, QuoteRows, At, InvoiceApproval
  <2>5. ASSUME NEW a \in ReviewApproval PROVE ReviewRows(a)
    <3>1. a[2] \in Subject \ Case /\ a \in Approval \ ReleaseApproval
      BY OneReview, ReviewKinds DEF Subject, Approval, ReleaseApproval
    <3> QED  BY <2>2, <2>3, <3>1 DEF Init, ReviewRows, At
  <2>6. \A a \in Approval: RunRows(a)  BY <2>2 DEF Init, RunRows, At
  <2>7. MarksIts  BY <2>2 DEF MarksIts
  <2>8. Broken = {}  BY <2>4, <2>5, <2>6, InvoiceOf DEF Broken, RowsAgree
  <2> QED  BY <2>1, <2>2, <2>7, <2>8, FS_EmptySet DEF CompleteInv
<1>2. CompleteInv => HandlersComplete
  <2> SUFFICES ASSUME CompleteInv, cpu = Idle
               PROVE  Cardinality({a \in Approval: ~Agrees(a)}) <= interrupts
    BY DEF HandlersComplete
  <2>1. cpu.at = "idle"  BY DEF Idle
  <2>2. \A a \in Approval: RowsAgree(a) => Agrees(a)
    <3> SUFFICES ASSUME NEW a \in Approval, RowsAgree(a) PROVE Agrees(a)
      OBVIOUS
    <3>1. a \in InvoiceApproval => QuoteRows(a[2]) /\ a = Invoice(a[2])
      BY InvoiceOf DEF RowsAgree
    <3> QED  BY <2>1, <3>1 DEF RowsAgree, Agrees, QuoteRows, ReviewRows, RunRows, At
  <2>3. {a \in Approval: ~Agrees(a)} \subseteq Broken  BY <2>2 DEF Broken
  <2> DEFINE Apart == {a \in Approval: ~Agrees(a)}
  <2>4. Apart \subseteq Broken  BY <2>3
  <2> HIDE DEF Apart
  <2>5. IsFiniteSet(Apart) /\ Cardinality(Apart) <= Cardinality(Broken)
    BY <2>4, FS_Subset DEF CompleteInv
  <2>6. Cardinality(Apart) \in Nat /\ Cardinality(Broken) \in Nat /\ interrupts \in Nat
    BY <2>5, FS_CardinalityType, BoundsAreNatural DEF CompleteInv, GovInv, TypeOK
  <2>7. Cardinality(Apart) <= interrupts  BY <2>5, <2>6 DEF CompleteInv
  <2> QED  BY <2>7 DEF Apart
<1> QED  BY <1>1, <1>2, CompleteStep, PTL DEF Spec

=============================================================================
