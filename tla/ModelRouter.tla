----------------------------- MODULE ModelRouter -----------------------------
(***************************************************************************)
(* ModelRouter::decide (structuring/router.rs): how one raw event is       *)
(* decided by the rules, by Haiku, by a repaired Haiku answer or by        *)
(* Sonnet, or falls back to the rules after models were asked in vain; and *)
(* whether build_packet_set (structuring/packet.rs) puts a context flag    *)
(* beside the packet of the decision.                                      *)
(*                                                                         *)
(* The event is abstracted to what routing, the rule engine                *)
(* (structuring/rule.rs) and the evidence gate (structuring/nli.rs) tell   *)
(* apart; a model's answer to what routing, the provider's checks          *)
(* (ai/contract.rs), the gate and the packet read of it.                   *)
(* Scores are percentages.                                                 *)
(***************************************************************************)
EXTENDS Integers

CONSTANTS
  Events,         \* subset of EventSpace
  Answers,        \* subset of AnswerSpace
  EscalateBelow,  \* escalate_if_confidence_below
  None            \* no answer

(* A kind stands for the event types that are treated alike: delisting for *)
(* deposits and withdrawals too, incident for regulatory, partnership for  *)
(* governance, macro and social types.                                     *)
Kinds == {"delisting", "listing", "incident", "funding_shift", "token_unlock",
          "partnership", "other"}

(* A source quality of "official_notice" stands for every trusted one.     *)
EventSpace ==
  [kind : Kinds,             \* classify_event_type of title and body
   evidence : BOOLEAN,       \* a sentence of the text has a rule keyword
   disputed : BOOLEAN,       \* a rumour, unconfirmed, or too many symbols
   symbols : BOOLEAN,        \* some symbol candidate is well-formed
   source : {"plain", "project", "exchange", "official"},
   source_quality : {"community_reaction", "market_snapshot", "global_symbol_scan",
                     "metadata_fallback", "official_notice", "unknown"},
   content_quality : {"title_only", "metadata_fallback", "numeric_observation", "full_text"},
   global_scope : BOOLEAN,   \* source_relevance_scope is global_symbol_scan
   low_score : BOOLEAN,      \* content_quality_score is below 45
   derivative : BOOLEAN,     \* hint, id or kind name a derivatives snapshot
   in_budget : BOOLEAN]      \* within_sonnet_budget of the event's id

Terminals ==
  {"high_confidence_structured", "low_confidence_structured", "general_market_context",
   "conflicted", "unsupported_or_weak", "irrelevant_or_noise"}

(* evidence: its sentences, quoted or taken from the evidence pack by id,  *)
(* occur in the event's text ("found"); one does not, because it is        *)
(* invented or because the pack squeezed its white space ("altered"); an   *)
(* id is not in the pack ("unknown"); or there are none.                   *)
(* symbols: candidates of the event or in its text ("found"), or one is    *)
(* neither ("foreign"), or there are none.                                 *)
AnswerSpace ==
  [kind : Kinds,
   terminal : Terminals,
   confidence : 0..100,
   band : {"low", "medium", "high"},
   evidence : {"found", "altered", "unknown", "none"},
   symbols : {"found", "foreign", "none"},
   symbol_band : {"weak", "moderate", "strong"}]

Contexts == {"symbol", "general", "stale", "pending"}

ASSUME InputsAssumption ==
  /\ Events \subseteq EventSpace
  /\ Answers \subseteq AnswerSpace
  /\ None \notin AnswerSpace
  /\ EscalateBelow \in 0..100

(* ModelStage *)
Stages == {"haiku", "repair", "sonnet"}

VARIABLES
  pc,        \* the call decide is about to make
  event,     \* the raw event
  context,   \* status of its market context
  enabled,   \* enable_bedrock
  calls,     \* how often the provider was asked for each stage
  primary,   \* outcome of the latest Haiku call
  decision   \* the StructuringDecision, once there is one

vars == <<pc, event, context, enabled, calls, primary, decision>>

-----------------------------------------------------------------------------
(***************************************************************************)
(* The rule engine                                                         *)
(***************************************************************************)

HighRisk(e) == e.kind \in {"delisting", "incident"}

HighImpact(kind) ==
  kind \in {"delisting", "listing", "incident", "funding_shift", "token_unlock"}

Contradicted(e) == e.disputed \/ (~e.evidence /\ e.kind # "other")

BaseScore ==
  [delisting |-> 72, listing |-> 72, incident |-> 62, funding_shift |-> 55,
   token_unlock |-> 55, partnership |-> 55, other |-> 35]

RuleConfidence(e) ==
  BaseScore[e.kind]
    + (IF e.evidence THEN 12 ELSE 0)
    + (IF e.symbols /\ e.source = "project" THEN 8 ELSE 0)
    - (IF Contradicted(e) THEN 20 ELSE 0)

(* terminal_decision of the rules                                          *)
RuleTerminal(e) ==
  IF Contradicted(e) THEN "conflicted"
  ELSE IF RuleConfidence(e) >= 80 THEN "high_confidence_structured"
  ELSE IF ~e.symbols /\ RuleConfidence(e) >= 45 THEN "general_market_context"
  ELSE IF RuleConfidence(e) >= 55 THEN "low_confidence_structured"
  ELSE IF HighRisk(e) THEN "unsupported_or_weak" ELSE "irrelevant_or_noise"

WeakGeneralItem(e) ==
  /\ ~e.symbols
  /\ RuleTerminal(e) \in {"general_market_context", "irrelevant_or_noise", "unsupported_or_weak"}

-----------------------------------------------------------------------------
(***************************************************************************)
(* What the router asks of the event                                       *)
(***************************************************************************)

RequiresModel(e) ==
  \/ e.source_quality \in {"community_reaction", "market_snapshot"}
  \/ e.content_quality \in {"title_only", "metadata_fallback"}

NumericSnapshot(e) ==
  e.source_quality = "market_snapshot" \/ e.content_quality = "numeric_observation"

BroadScan(e) ==
  \/ e.content_quality \in {"title_only", "metadata_fallback"}
  \/ e.source_quality \in {"global_symbol_scan", "metadata_fallback"}
  \/ e.global_scope

Trusted(e) == e.source # "plain" \/ e.source_quality = "official_notice"

FundingSnapshot(e, a) ==
  /\ NumericSnapshot(e)
  /\ \/ e.kind = "funding_shift"
     \/ a # None /\ a.kind = "funding_shift"
     \/ e.derivative

RuleIsSufficient ==
  /\ ~RequiresModel(event)
  /\ RuleConfidence(event) >= 82
  /\ ~HighRisk(event)
  /\ event.symbols
  /\ context # "pending"

(* Faulty: a risky event is not exempt from the cost bypass.               *)
BypassesModelsRisky ==
  \/ NumericSnapshot(event) /\ context = "pending"
  \/ WeakGeneralItem(event) /\ BroadScan(event)

BypassesModels ==
  /\ ~HighRisk(event)
  /\ ~Trusted(event)
  /\ \/ NumericSnapshot(event) /\ context = "pending"
     \/ WeakGeneralItem(event) /\ BroadScan(event)

LowValue(a) ==
  a.terminal \in {"general_market_context", "irrelevant_or_noise", "unsupported_or_weak"}

(* Faulty: a numeric snapshot needs no context that supports it.           *)
AdmitsWithoutContext(a) ==
  /\ ~FundingSnapshot(event, a)
  /\ BroadScan(event) => HighRisk(event) \/ Trusted(event)
  /\ a # None /\ LowValue(a) => HighRisk(event) \/ Trusted(event)

(* sonnet_admission_allows: the context must support an escalation of a    *)
(* numeric snapshot, which a general or a stale one does not.              *)
SonnetAdmits(a) ==
  /\ ~FundingSnapshot(event, a)
  /\ NumericSnapshot(event) => context = "symbol"
  /\ BroadScan(event) => HighRisk(event) \/ Trusted(event)
  /\ a # None /\ LowValue(a) => HighRisk(event) \/ Trusted(event)

CanStopAtPrimary(a) ==
  /\ NumericSnapshot(event)
  /\ \/ a.kind = "funding_shift" \/ event.derivative
     \/ /\ context = "pending"
        /\ LowValue(a) \/ a.terminal = "low_confidence_structured"
        /\ a.confidence <= 75

WeakRawClaim(a) == (event.low_score \/ event.global_scope) /\ ~LowValue(a)

WeakSignal(a) ==
  \/ a.confidence < EscalateBelow
  \/ a.terminal = "unsupported_or_weak"
  \/ a.band = "low"

NeedsAudit(a) ==
  a.confidence < IF EscalateBelow + 10 < 100 THEN EscalateBelow + 10 ELSE 100

(* Faulty: an escalation is decided without regard to the budget, which    *)
(* the call to Sonnet then enforces.                                       *)
EscalatesUnbudgeted(a) ==
  /\ SonnetAdmits(a)
  /\ \/ HighRisk(event) \/ a.terminal = "conflicted"
     \/ ~CanStopAtPrimary(a) /\ (WeakRawClaim(a) \/ NeedsAudit(a))

(* should_escalate_from_model                                              *)
Escalates(a) ==
  /\ SonnetAdmits(a)
  /\ \/ HighRisk(event) \/ a.terminal = "conflicted"
     \/ /\ ~CanStopAtPrimary(a)
        /\ \/ WeakRawClaim(a)
           \/ /\ HighImpact(event.kind) \/ HighImpact(a.kind) \/ event.source = "exchange"
              /\ WeakSignal(a)
           \/ NeedsAudit(a)
        /\ event.in_budget

(* Faulty: a claim of high confidence needs no evidence.                   *)
ProviderAcceptsAny(a) == a.evidence # "unknown"

(* hydrate_evidence_sentences and validate_evidence_gate, which the        *)
(* provider calls before it hands the answer out.                          *)
ProviderAccepts(a) ==
  /\ a.evidence # "unknown"
  /\ a.evidence = "none" =>
       a.band # "high" /\ a.terminal \notin {"high_confidence_structured", "conflicted"}

SnapshotFunding(a) ==
  /\ NumericSnapshot(event)
  /\ a.kind = "funding_shift"
  /\ a.terminal \in {"high_confidence_structured", "conflicted"}

(* Faulty: the gate takes the model's word for its evidence.               *)
SupportedUnread(a) ==
  /\ a.symbols # "foreign"
  /\ a.symbols = "none" => a.symbol_band # "strong"
  /\ ~SnapshotFunding(a)

(* Faulty: a single snapshot is enough for any claim about funding.        *)
SupportedFunding(a) ==
  /\ a.evidence # "altered"
  /\ a.band = "high" => a.evidence # "none"
  /\ a.symbols # "foreign"
  /\ a.symbols = "none" => a.symbol_band # "strong"

(* verify_model_response                                                   *)
Supported(a) ==
  /\ a.evidence # "altered"
  /\ a.band = "high" => a.evidence # "none"
  /\ a.symbols # "foreign"
  /\ a.symbols = "none" => a.symbol_band # "strong"
  /\ ~SnapshotFunding(a)

-----------------------------------------------------------------------------
(***************************************************************************)
(* decide and try_sonnet_or_fallback                                       *)
(***************************************************************************)

Decisions ==
  [tier : {"rule_only", "haiku", "sonnet", "fallback_only"},
   answer : Answers \cup {None},
   haiku : 0..2,
   sonnet : 0..1]

ASSUME NoneAssumption == None \notin Decisions

Decide(tier, answer, haiku, sonnet) ==
  /\ pc' = "done"
  /\ decision' = [tier |-> tier, answer |-> answer, haiku |-> haiku, sonnet |-> sonnet]

FallBack(haiku, sonnet) == Decide("fallback_only", None, haiku, sonnet)

Goes(next) == pc' = next /\ UNCHANGED decision

AskedFor(stage) == calls[stage] > 0

Asked(stage) == calls' = [calls EXCEPT ![stage] = @ + 1]

(* refused: by the provider's own checks; unsupported: by the router's     *)
Outcomes == {"none", "failed", "refused", "unsupported", "supported", "conflicted"}

Outcome(a) ==
  IF ~Supported(a) THEN "unsupported"
  ELSE IF a.terminal = "conflicted" THEN "conflicted" ELSE "supported"

(* Faulty: admission is all that Sonnet needs.                             *)
MayAskSonnetUnbudgeted == SonnetAdmits(None)

MayAskSonnet == SonnetAdmits(None) /\ (HighRisk(event) \/ event.in_budget)

(* Faulty: a failed primary call is not counted.                           *)
TrySonnetUncounted(haiku) ==
  IF MayAskSonnet THEN Goes("sonnet") ELSE FallBack(haiku - 1, 0)

TrySonnet(haiku) ==
  IF MayAskSonnet THEN Goes("sonnet") ELSE FallBack(haiku, 0)

(* How many Haiku calls a decision after the Sonnet call reports.          *)
HaikuCalls == IF AskedFor("repair") THEN 2 ELSE 1

DecideByRules ==
  /\ pc = "start"
  /\ \/ /\ RuleIsSufficient \/ BypassesModels
        /\ Decide("rule_only", None, 0, 0)
     \/ /\ ~RuleIsSufficient /\ ~BypassesModels /\ ~enabled
        /\ FallBack(0, 0)
     \/ /\ ~RuleIsSufficient /\ ~BypassesModels /\ enabled
        /\ Goes("haiku")
  /\ UNCHANGED <<event, context, enabled, calls, primary>>

(* The provider fails, or refuses the answer at its own schema and         *)
(* evidence checks: the router sees an error in both cases.                *)
HaikuFails(outcome) ==
  /\ pc = "haiku"
  /\ outcome = "refused" => \E a \in Answers : ~ProviderAccepts(a)
  /\ Asked("haiku")
  /\ primary' = outcome
  /\ TrySonnet(1)
  /\ UNCHANGED <<event, context, enabled>>

HaikuAnswers(a) ==
  /\ pc = "haiku"
  /\ ProviderAccepts(a)
  /\ Asked("haiku")
  /\ primary' = Outcome(a)
  /\ \/ /\ Supported(a) /\ ~Escalates(a)
        /\ Decide("haiku", a, 1, 0)
     \/ /\ ~Supported(a) /\ ~HighRisk(event)
        /\ Goes("repair")
     \/ /\ IF Supported(a) THEN Escalates(a) ELSE HighRisk(event)
        /\ TrySonnet(1)
  /\ UNCHANGED <<event, context, enabled>>

RepairFails ==
  /\ pc = "repair"
  /\ Asked("repair")
  /\ primary' = "failed"
  /\ TrySonnet(2)
  /\ UNCHANGED <<event, context, enabled>>

(* Faulty: an answer that is still unsupported is repaired again.          *)
RepairAnswersAgain(a) ==
  /\ pc = "repair"
  /\ ProviderAccepts(a)
  /\ Asked("repair")
  /\ primary' = Outcome(a)
  /\ IF Supported(a) /\ ~Escalates(a) THEN Decide("haiku", a, 2, 0) ELSE Goes("repair")
  /\ UNCHANGED <<event, context, enabled>>

RepairAnswers(a) ==
  /\ pc = "repair"
  /\ ProviderAccepts(a)
  /\ Asked("repair")
  /\ primary' = Outcome(a)
  /\ IF Supported(a) /\ ~Escalates(a) THEN Decide("haiku", a, 2, 0) ELSE TrySonnet(2)
  /\ UNCHANGED <<event, context, enabled>>

SonnetFails ==
  /\ pc = "sonnet"
  /\ Asked("sonnet")
  /\ FallBack(HaikuCalls, 1)
  /\ UNCHANGED <<event, context, enabled, primary>>

SonnetAnswers(a) ==
  /\ pc = "sonnet"
  /\ ProviderAccepts(a)
  /\ Asked("sonnet")
  /\ IF Supported(a) THEN Decide("sonnet", a, HaikuCalls, 1) ELSE FallBack(HaikuCalls, 1)
  /\ UNCHANGED <<event, context, enabled, primary>>

Init ==
  /\ pc = "start"
  /\ event \in Events
  /\ context \in Contexts
  /\ enabled \in BOOLEAN
  /\ calls = [stage \in Stages |-> 0]
  /\ primary = "none"
  /\ decision = None

Next ==
  \/ DecideByRules
  \/ \E outcome \in {"failed", "refused"} : HaikuFails(outcome)
  \/ \E a \in Answers : HaikuAnswers(a) \/ RepairAnswers(a) \/ SonnetAnswers(a)
  \/ RepairFails
  \/ SonnetFails

Spec == Init /\ [][Next]_vars

-----------------------------------------------------------------------------
(***************************************************************************)
(* The packet of a decision: the model's answer if there is one, or what   *)
(* the rules say                                                           *)
(***************************************************************************)

ClaimedKind == IF decision.answer = None THEN event.kind ELSE decision.answer.kind

ClaimedTerminal ==
  IF decision.answer = None THEN RuleTerminal(event) ELSE decision.answer.terminal

(* The rules' symbols are at least of moderate confidence.                 *)
SymbolsAreKnown ==
  IF decision.answer = None THEN event.symbols
  ELSE decision.answer.symbols # "none" /\ decision.answer.symbol_band # "weak"

(* is_symbol_usable                                                        *)
ContextIsUsable == context \in {"symbol", "stale"}

(* should_emit_context_flag                                                *)
Flagged ==
  /\ pc = "done"
  /\ SymbolsAreKnown
  /\ ClaimedTerminal \in {"high_confidence_structured", "general_market_context"}
  /\ ClaimedKind = "funding_shift" => ContextIsUsable

-----------------------------------------------------------------------------
(***************************************************************************)
(* Properties                                                              *)
(***************************************************************************)

TypeOK ==
  /\ pc \in {"start", "haiku", "repair", "sonnet", "done"}
  /\ event \in Events
  /\ context \in Contexts
  /\ enabled \in BOOLEAN
  /\ calls \in [Stages -> 0..1]
  /\ primary \in Outcomes
  /\ decision \in Decisions \cup {None}
  /\ decision # None <=> pc = "done"

(* The invocation counts of a decision, which the health event reports,    *)
(* are the calls that were made, failed ones included.                     *)
CountsAreCalls ==
  pc = "done" =>
    /\ decision.haiku = calls["haiku"] + calls["repair"]
    /\ decision.sonnet = calls["sonnet"]

(* A packet carries a model's content only if none of its evidence and     *)
(* none of its symbols is made up, and a strong claim only if it has       *)
(* evidence; it names the tier of the model that was asked last.           *)
AnswersAreSupported ==
  pc = "done" /\ decision.answer # None =>
    /\ decision.answer.evidence \in {"found", "none"}
    /\ decision.answer.symbols # "foreign"
    /\ decision.answer.evidence = "none" =>
         /\ decision.answer.band # "high"
         /\ decision.answer.terminal \notin {"high_confidence_structured", "conflicted"}
    /\ decision.tier = (IF AskedFor("sonnet") THEN "sonnet" ELSE "haiku")

(* "Single numeric derivatives snapshots are never allowed to use Sonnet", *)
(* and no numeric snapshot without a symbol context is escalated, whether  *)
(* the way there is an answer, a failed call or a failed repair.           *)
SnapshotsStopAtHaiku ==
  AskedFor("sonnet") /\ NumericSnapshot(event) =>
    context = "symbol" /\ event.kind # "funding_shift" /\ ~event.derivative

(* A Haiku answer that the gate supports is the decision, or Sonnet is     *)
(* asked: the rules decide over it only when it is in conflict and the     *)
(* budget is spent.  Admission is judged twice, by should_escalate and     *)
(* before the call, and the two must not disagree on anything else.        *)
SupportedIsNotDropped ==
  pc = "done" /\ primary \in {"supported", "conflicted"} =>
    \/ decision.tier # "fallback_only"
    \/ AskedFor("sonnet")
    \/ primary = "conflicted" /\ ~event.in_budget /\ ~HighRisk(event)

(* The Sonnet budget is hard for every event that is not of high risk,     *)
(* conflicting answers and provider failures included.                     *)
BudgetIsHard == AskedFor("sonnet") => HighRisk(event) \/ event.in_budget

(* With models enabled, an event of high risk is shown to one.             *)
HighRiskMeetsModel == pc = "done" /\ enabled /\ HighRisk(event) => AskedFor("haiku")

(* Every context flag is about symbols of the event.  If it claims high    *)
(* confidence it rests on a sentence of the event's text: that of the      *)
(* model's answer, or one the rules found, in an event that is not         *)
(* disputed.  Neither the gate nor the rules' score sees to it alone.      *)
FlagsRestOnEvidence ==
  Flagged =>
    IF decision.answer = None THEN event.symbols /\ event.evidence /\ ~event.disputed
    ELSE /\ decision.answer.symbols = "found"
         /\ ClaimedTerminal = "high_confidence_structured" => decision.answer.evidence = "found"

(* "Funding flags require available Market-L1 context", and a single       *)
(* numeric snapshot never makes one of high confidence, whoever decides:   *)
(* the gate forbids it to the models, the rules' scores do not reach it.   *)
FundingFlagsAreGuarded ==
  Flagged /\ ClaimedKind = "funding_shift" =>
    /\ context \notin {"pending", "general"}
    /\ NumericSnapshot(event) => ClaimedTerminal = "general_market_context"

-----------------------------------------------------------------------------
(***************************************************************************)
(* What ENTERPRISE_DOD.md says and the code does not do                    *)
(***************************************************************************)

(* "Rule-only output is blocked for weak raw evidence such as community    *)
(* reaction, market snapshot, title-only, or metadata fallback inputs."    *)
RuleOnlyIsBlocked ==
  pc = "done" /\ RequiresModel(event) => decision.tier # "rule_only"

(* "Haiku repair is attempted for local evidence/schema gate misses before *)
(* Sonnet escalation."                                                     *)
RepairBeforeSonnet ==
  AskedFor("sonnet") /\ primary \in {"refused", "unsupported"} => AskedFor("repair")
=============================================================================
