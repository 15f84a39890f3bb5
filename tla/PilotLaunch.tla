---------------------------- MODULE PilotLaunch ----------------------------
(***************************************************************************)
(* The way of a clinic/wellness pilot from the installed template to the   *)
(* paid offer (src/server/app.js, installClinicWellnessPilotTemplate to    *)
(* createClinicWellnessPaidOfferPacket).                                   *)
(*                                                                         *)
(* Every packet is one INSERT under a unique source_key that names what it *)
(* was made from, and a second request is answered with the packet that is *)
(* there.  A packet therefore is its source_key here, and a packet holds   *)
(* what the tables said when it was made: the gaps of the installed        *)
(* selection and of the connectors of that moment, the overdue invoices of *)
(* the day of the brief.  Only the resolution of a remediation action      *)
(* takes two statements, and the process may die between them.             *)
(*                                                                         *)
(* The accountant's gate is always blocked, the VAT and the period item of *)
(* a review never being "clear", so that every readiness packet is blocked *)
(* and every plan has an action.  The evidence, commercial and workbench   *)
(* gates are always ready: the packets they look for exist, every package  *)
(* has a price and the compliance lane is never empty.                     *)
(***************************************************************************)
EXTENDS Naturals, FiniteSets

CONSTANTS
  Package,     \* selections of packages, part of the key of an install
  Reduced,     \* those without the package of the receivables handoff
  Connector,   \* the connectors the template requires
  Date,        \* report dates and target launch dates
  MaxCrashes,  \* bound: deaths of the process
  None

ASSUME LaunchAssumption ==
  /\ Reduced \subseteq Package
  /\ MaxCrashes \in Nat

VARIABLES
  install,     \* pilot_template_installs: the gaps, None before
  brief,       \* pilot_owner_briefs: whether money is at risk, None before
  workbench,   \* briefs with a pilot_operator_workbenches row
  review,      \* briefs with a pilot_accountant_reviews row
  readiness,   \* pilot_launch_readiness_packets
  plan,        \* pilot_launch_remediation_plans: the status, "none" before
  resolved,    \* pilot_remediation_action_resolutions: <<plan, action>>
  clearance,   \* pilot_launch_clearance_packets
  offer,       \* cleared clearances with a pilot_paid_offer_packets row
  cpu,         \* the next statement of the running handler
  crashes

packetVars == <<install, brief, workbench, review, readiness>>
gateVars   == <<plan, resolved, clearance, offer>>
launchVars == <<install, brief, workbench, review, readiness, plan,
                resolved, clearance, offer>>

Idle      == [at |-> "idle"]
Brief     == Package \X Date
Readiness == Brief \X Date         \* a plan has the key of its readiness packet

Gap == Connector \cup {"include-hayhashvapah-receivables-handoff"}

(* A row that is not there is not a row with some gaps or some risk.         *)
ASSUME NoneIsNoValue ==
  /\ \A risk \in BOOLEAN: risk # None
  /\ \A gaps \in SUBSET Gap: gaps # None

(* buildPilotTemplateReadiness                                               *)
Gaps(p, missing) == missing \cup
  (IF p \in Reduced THEN {"include-hayhashvapah-receivables-handoff"} ELSE {})

(* buildPilotLaunchRemediationActions                                        *)
Action == {"resolve-accountant-review", "close-overdue-receivable-risk"} \cup Gap

PlanActions(p) ==
  {"resolve-accountant-review"}
  \cup install[p[1][1]]
  \cup (IF brief[p[1]] THEN {"close-overdue-receivable-risk"} ELSE {})

ResolvedOf(p) == {a \in PlanActions(p): <<p, a>> \in resolved}

(* Mutant: one open action does not block.                                   *)
ClearedButOne(p) == Cardinality(PlanActions(p) \ ResolvedOf(p)) <= 1

Cleared(p) == PlanActions(p) \ ResolvedOf(p) = {}

Clearance == [plan: Readiness, resolved: SUBSET Action, status: {"blocked", "cleared"}]

LaunchInit ==
  /\ install = [p \in Package |-> None]
  /\ brief = [b \in Brief |-> None]
  /\ workbench = {}
  /\ review = {}
  /\ readiness = {}
  /\ plan = [p \in Readiness |-> "none"]
  /\ resolved = {}
  /\ clearance = {}
  /\ offer = {}
  /\ cpu = Idle
  /\ crashes = 0

-----------------------------------------------------------------------------
(* installClinicWellnessPilotTemplate: `missing' are the connectors that are  *)
(* not connected and ready.  The gaps are those of this moment for ever, a    *)
(* second install of the selection being answered with the first.            *)
Install(p, missing) ==
  /\ cpu = Idle
  /\ install[p] = None
  /\ install' = [install EXCEPT ![p] = Gaps(p, missing)]
  /\ UNCHANGED <<brief, workbench, review, readiness, gateVars, cpu, crashes>>

(* createClinicWellnessOwnerBrief; `overdue' says whether an invoice is.     *)
OwnerBrief(b, overdue) ==
  /\ cpu = Idle
  /\ install[b[1]] # None
  /\ brief[b] = None
  /\ brief' = [brief EXCEPT ![b] = overdue]
  /\ UNCHANGED <<install, workbench, review, readiness, gateVars, cpu, crashes>>

(* createClinicWellnessOperatorWorkbench                                     *)
OperatorWorkbench(b) ==
  /\ cpu = Idle
  /\ brief[b] # None
  /\ b \notin workbench
  /\ workbench' = workbench \cup {b}
  /\ UNCHANGED <<install, brief, review, readiness, gateVars, cpu, crashes>>

(* createClinicWellnessAccountantReview                                      *)
AccountantReview(b) ==
  /\ cpu = Idle
  /\ b \in workbench \ review
  /\ review' = review \cup {b}
  /\ UNCHANGED <<install, brief, workbench, readiness, gateVars, cpu, crashes>>

(* createClinicWellnessLaunchReadinessPacket                                 *)
LaunchReadiness(p) ==
  /\ cpu = Idle
  /\ p[1] \in review
  /\ p \notin readiness
  /\ readiness' = readiness \cup {p}
  /\ UNCHANGED <<install, brief, workbench, review, gateVars, cpu, crashes>>

(* createClinicWellnessLaunchRemediationPlan                                 *)
RemediationPlan(p) ==
  /\ cpu = Idle
  /\ p \in readiness
  /\ plan[p] = "none"
  /\ plan' = [plan EXCEPT ![p] = "open"]
  /\ UNCHANGED <<packetVars, resolved, clearance, offer, cpu, crashes>>

(* resolveClinicWellnessRemediationAction: the resolution, and when it was   *)
(* the last the status of the plan.  A resolution that is there is answered  *)
(* without a look at that status.                                            *)
ResolveAction(p, a) ==
  /\ cpu = Idle
  /\ plan[p] # "none"
  /\ a \in PlanActions(p) \ ResolvedOf(p)
  /\ resolved' = resolved \cup {<<p, a>>}
  /\ cpu' = IF PlanActions(p) \ ResolvedOf(p) = {a} THEN [at |-> "plan", plan |-> p] ELSE Idle
  /\ UNCHANGED <<packetVars, plan, clearance, offer, crashes>>

ResolvePlan ==
  /\ cpu.at = "plan"
  /\ plan' = [plan EXCEPT ![cpu.plan] = "resolved"]
  /\ cpu' = Idle
  /\ UNCHANGED <<packetVars, resolved, clearance, offer, crashes>>

(* createClinicWellnessPaidOfferPacket                                       *)
MayOffer(c) == c \in clearance \ offer /\ c.status = "cleared"

(* createClinicWellnessLaunchClearancePacket: looks at the resolutions, not   *)
(* at the status of the plan, and not at the gates again.                    *)
LaunchClearance(p) ==
  LET c == [plan |-> p, resolved |-> ResolvedOf(p),
            status |-> IF Cleared(p) THEN "cleared" ELSE "blocked"] IN
  /\ cpu = Idle
  /\ plan[p] # "none"
  /\ c \notin clearance
  /\ clearance' = clearance \cup {c}
  /\ UNCHANGED <<packetVars, plan, resolved, offer, cpu, crashes>>

PaidOffer(c) ==
  /\ cpu = Idle
  /\ MayOffer(c)
  /\ offer' = offer \cup {c}
  /\ UNCHANGED <<packetVars, plan, resolved, clearance, cpu, crashes>>

(* The process dies; the tables stay and nothing of the request is left.     *)
Crash ==
  /\ crashes < MaxCrashes
  /\ crashes' = crashes + 1
  /\ cpu' = Idle
  /\ UNCHANGED launchVars

-----------------------------------------------------------------------------
Evidence ==
  \/ \E p \in Package, missing \in SUBSET Connector: Install(p, missing)
  \/ \E b \in Brief:
       \/ \E overdue \in BOOLEAN: OwnerBrief(b, overdue)
       \/ OperatorWorkbench(b) \/ AccountantReview(b)
  \/ \E p \in Readiness: LaunchReadiness(p) \/ RemediationPlan(p)

Clearing ==
  \/ \E p \in Readiness: (\E a \in Action: ResolveAction(p, a)) \/ LaunchClearance(p)
  \/ ResolvePlan
  \/ \E c \in clearance: PaidOffer(c)

-----------------------------------------------------------------------------
(* Properties.                                                               *)

(* The rows have the shape of their tables.                                  *)
LaunchTypeOK ==
  /\ install \in [Package -> (SUBSET Gap) \cup {None}]
  /\ brief \in [Brief -> BOOLEAN \cup {None}]
  /\ workbench \subseteq Brief
  /\ review \subseteq workbench
  /\ readiness \subseteq Readiness
  /\ plan \in [Readiness -> {"none", "open", "resolved"}]
  /\ resolved \subseteq Readiness \X Action
  /\ clearance \subseteq Clearance
  /\ offer \subseteq clearance
  /\ crashes \in 0..MaxCrashes

Earned(c) ==
  /\ c.plan \in readiness
  /\ c.plan[1] \in review
  /\ Cleared(c.plan)

(* A paid offer is made of a launch whose whole chain of evidence is there    *)
(* and of whose plan every action is resolved, at the time and for ever.     *)
OfferIsEarned == \A c \in offer: Earned(c)

(* A launch is offered once: retries and clearances of a later day lead to    *)
(* the same offer, so that a launch cannot be sold twice.                    *)
OneOfferPerPlan == \A c, d \in offer: c.plan = d.plan => c = d

(* Once a launch is cleared no later request finds it blocked: the plan's     *)
(* actions are those of the installed template and of the brief, which stay. *)
ClearedIsFinal ==
  [][\A c \in clearance' \ clearance:
       c.status = "blocked" => \A d \in clearance: d.plan = c.plan => d.status = "blocked"
    ]_<<launchVars, cpu, crashes>>
=============================================================================
