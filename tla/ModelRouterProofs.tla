-------------------------- MODULE ModelRouterProofs --------------------------
(***************************************************************************)
(* Proofs about ModelRouter, for every set of events and of answers and    *)
(* every confidence threshold.                                             *)
(*                                                                         *)
(* The argument: the call decide is about to make tells which calls were   *)
(* made before (CallsMade), and Sonnet is reached only by way of           *)
(* MayAskSonnet, which does not look at the answer (SonnetIsAdmitted).     *)
(***************************************************************************)
EXTENDS ModelRouter, TLAPS

(* Which calls have been made when decide is about to make the next.       *)
CallsMade ==
  /\ pc \in {"start", "haiku"} => primary = "none" /\ \A stage \in Stages : calls[stage] = 0
  /\ pc = "repair" => calls["haiku"] = 1 /\ calls["repair"] = 0 /\ calls["sonnet"] = 0
  /\ pc = "sonnet" => calls["haiku"] = 1 /\ calls["sonnet"] = 0

SonnetIsAdmitted == pc = "sonnet" \/ AskedFor("sonnet") => MayAskSonnet

(* What holds of the calls and the way to them.                            *)
Routed == TypeOK /\ CallsMade /\ SonnetIsAdmitted

(* An answer that is decided on has passed both checks.                    *)
AnswerPassed ==
  pc = "done" /\ decision.answer # None =>
    ProviderAccepts(decision.answer) /\ Supported(decision.answer)

(* What holds of a decision.                                               *)
Decided ==
  /\ AnswerPassed
  /\ CountsAreCalls
  /\ AnswersAreSupported
  /\ SupportedIsNotDropped
  /\ HighRiskMeetsModel

(* The inductive invariant.                                                *)
IInv == Routed /\ Decided

-----------------------------------------------------------------------------
(* An escalation that admits an answer admits the call to Sonnet, which is *)
(* judged without the answer: only the budget can stop it, and only a      *)
(* conflicting answer gets that far without a budget.                      *)
LEMMA EscalationIsAdmitted ==
  ASSUME NEW a \in Answers, Escalates(a)
  PROVE  MayAskSonnet \/ (a.terminal = "conflicted" /\ ~event.in_budget /\ ~HighRisk(event))
BY DEF Escalates, MayAskSonnet, SonnetAdmits, FundingSnapshot

(* What the gate's outcome says of the answer.                             *)
LEMMA OutcomeOfSupported ==
  ASSUME NEW a \in Answers
  PROVE  /\ Outcome(a) \in Outcomes
         /\ Outcome(a) \in {"supported", "conflicted"} => Supported(a)
         /\ Supported(a) /\ a.terminal = "conflicted" => Outcome(a) = "conflicted"
BY DEF Outcome, Outcomes

(* What the two checks together say of an answer.                          *)
LEMMA PassedAnswers ==
  ASSUME NEW a \in Answers, ProviderAccepts(a), Supported(a)
  PROVE  /\ a.evidence \in {"found", "none"}
         /\ a.symbols \in {"found", "none"}
         /\ a.symbols = "none" => a.symbol_band # "strong"
         /\ a.evidence = "none" =>
              /\ a.band # "high"
              /\ a.terminal \notin {"high_confidence_structured", "conflicted"}
         /\ ~SnapshotFunding(a)
<1>1. a \in AnswerSpace
  BY InputsAssumption
<1>2. a.evidence \in {"found", "altered", "unknown", "none"}
  BY <1>1 DEF AnswerSpace
<1>3. a.symbols \in {"found", "foreign", "none"}
  BY <1>1 DEF AnswerSpace
<1>4. QED
  BY <1>2, <1>3 DEF ProviderAccepts, Supported

(* A call adds one to its stage, and to no other.                          *)
LEMMA AskedOnce ==
  ASSUME TypeOK, NEW stage \in Stages, calls[stage] = 0, Asked(stage)
  PROVE  /\ calls' \in [Stages -> 0..1]
         /\ calls'[stage] = 1
         /\ \A other \in Stages \ {stage} : calls'[other] = calls[other]
BY DEF TypeOK, Asked

(* What a decision made now looks like.                                    *)
LEMMA DecisionMade ==
  ASSUME NEW tier \in {"rule_only", "haiku", "sonnet", "fallback_only"},
         NEW answer \in Answers \cup {None},
         NEW haiku \in 0..2, NEW sonnet \in 0..1,
         Decide(tier, answer, haiku, sonnet)
  PROVE  /\ pc' = "done"
         /\ decision' \in Decisions
         /\ decision' # None
         /\ decision'.tier = tier /\ decision'.answer = answer
         /\ decision'.haiku = haiku /\ decision'.sonnet = sonnet
BY NoneAssumption DEF Decide, Decisions

-----------------------------------------------------------------------------
LEMMA InitOK == Init => IInv
<1> SUFFICES ASSUME Init PROVE IInv
  OBVIOUS
<1>1. TypeOK
  BY DEF Init, TypeOK, Outcomes
<1>2. CallsMade /\ SonnetIsAdmitted
  BY DEF Init, CallsMade, SonnetIsAdmitted, AskedFor, Stages
<1>3. Decided
  BY DEF Init, Decided, AnswerPassed, CountsAreCalls, AnswersAreSupported, SupportedIsNotDropped,
         HighRiskMeetsModel
<1>4. QED
  BY <1>1, <1>2, <1>3 DEF IInv, Routed

-----------------------------------------------------------------------------
(* Haiku or its repair has been asked, and Sonnet is tried next: either it *)
(* is admitted, or the rules decide and no supported answer is dropped.    *)
LEMMA TrySonnetOK ==
  ASSUME IInv,
         NEW stage \in {"haiku", "repair"}, pc = stage,
         Asked(stage), TrySonnet(IF stage = "haiku" THEN 1 ELSE 2),
         primary' \in Outcomes,
         UNCHANGED <<event, context, enabled>>,
         \/ MayAskSonnet
         \/ primary' \notin {"supported", "conflicted"}
         \/ primary' = "conflicted" /\ ~event.in_budget /\ ~HighRisk(event)
  PROVE  IInv'
<1>1. /\ calls' \in [Stages -> 0..1]
      /\ calls'["haiku"] = 1 /\ calls'["sonnet"] = 0
      /\ calls'["repair"] = IF stage = "haiku" THEN 0 ELSE 1
  <2>1. calls[stage] = 0 /\ stage \in Stages
    BY DEF IInv, Routed, CallsMade, Stages
  <2>2. /\ calls' \in [Stages -> 0..1] /\ calls'[stage] = 1
        /\ \A other \in Stages \ {stage} : calls'[other] = calls[other]
    BY <2>1, AskedOnce DEF IInv, Routed
  <2>3. QED
    BY <2>2 DEF IInv, Routed, CallsMade, Stages
<1>2. decision = None
  BY DEF IInv, Routed, TypeOK
<1>3. CASE MayAskSonnet
  <2>1. pc' = "sonnet" /\ decision' = decision
    BY <1>3 DEF TrySonnet, Goes
  <2>2. TypeOK'
    BY <1>1, <1>2, <2>1 DEF IInv, Routed, TypeOK
  <2>3. CallsMade' /\ SonnetIsAdmitted'
    BY <1>1, <1>3, <2>1
    DEF CallsMade, SonnetIsAdmitted, MayAskSonnet, SonnetAdmits, FundingSnapshot,
        NumericSnapshot, BroadScan, Trusted, HighRisk, LowValue
  <2>4. Decided'
    BY <2>1 DEF Decided, AnswerPassed, CountsAreCalls, AnswersAreSupported, SupportedIsNotDropped,
                HighRiskMeetsModel
  <2>5. QED
    BY <2>2, <2>3, <2>4 DEF IInv, Routed
<1>4. CASE ~MayAskSonnet
  <2> DEFINE haiku == IF stage = "haiku" THEN 1 ELSE 2
  <2>1. Decide("fallback_only", None, haiku, 0)
    BY <1>4 DEF TrySonnet, FallBack
  <2>2. /\ pc' = "done" /\ decision' \in Decisions /\ decision' # None
        /\ decision'.tier = "fallback_only" /\ decision'.answer = None
        /\ decision'.haiku = haiku /\ decision'.sonnet = 0
    <3>1. haiku \in 0..2
      OBVIOUS
    <3>2. QED
      BY <2>1, <3>1, DecisionMade
  <2>3. TypeOK'
    BY <1>1, <2>2 DEF IInv, Routed, TypeOK
  <2>4. CallsMade' /\ SonnetIsAdmitted'
    BY <1>1, <2>2 DEF CallsMade, SonnetIsAdmitted, AskedFor
  <2>5. CountsAreCalls' /\ AnswersAreSupported' /\ AnswerPassed'
    BY <1>1, <2>2 DEF CountsAreCalls, AnswersAreSupported, AnswerPassed
  <2>6. SupportedIsNotDropped' /\ HighRiskMeetsModel'
    BY <1>1, <1>4, <2>2
    DEF SupportedIsNotDropped, HighRiskMeetsModel, HighRisk, AskedFor
  <2>7. QED
    BY <2>3, <2>4, <2>5, <2>6 DEF IInv, Routed, Decided
<1>5. QED
  BY <1>3, <1>4

(* The decision is the supported answer of Haiku or of its repair.         *)
LEMMA HaikuDecidesOK ==
  ASSUME IInv,
         NEW stage \in {"haiku", "repair"}, pc = stage,
         NEW a \in Answers, ProviderAccepts(a), Supported(a),
         Asked(stage), Decide("haiku", a, IF stage = "haiku" THEN 1 ELSE 2, 0),
         primary' = Outcome(a),
         UNCHANGED <<event, context, enabled>>
  PROVE  IInv'
<1> DEFINE haiku == IF stage = "haiku" THEN 1 ELSE 2
<1>1. /\ calls' \in [Stages -> 0..1]
      /\ calls'["haiku"] = 1 /\ calls'["sonnet"] = 0
      /\ calls'["repair"] = haiku - 1
  <2>1. calls[stage] = 0 /\ stage \in Stages
    BY DEF IInv, Routed, CallsMade, Stages
  <2>2. /\ calls' \in [Stages -> 0..1] /\ calls'[stage] = 1
        /\ \A other \in Stages \ {stage} : calls'[other] = calls[other]
    BY <2>1, AskedOnce DEF IInv, Routed
  <2>3. QED
    BY <2>2 DEF IInv, Routed, CallsMade, Stages
<1>2. /\ pc' = "done" /\ decision' \in Decisions /\ decision' # None
      /\ decision'.tier = "haiku" /\ decision'.answer = a
      /\ decision'.haiku = haiku /\ decision'.sonnet = 0
  <2>1. haiku \in 0..2 /\ a \in Answers \cup {None} /\ Decide("haiku", a, haiku, 0)
    OBVIOUS
  <2>2. QED
    BY <2>1, DecisionMade
<1>3. TypeOK'
  BY <1>1, <1>2, OutcomeOfSupported DEF IInv, Routed, TypeOK
<1>4. CallsMade' /\ SonnetIsAdmitted'
  BY <1>1, <1>2 DEF CallsMade, SonnetIsAdmitted, AskedFor
<1>5. CountsAreCalls' /\ AnswerPassed' /\ AnswersAreSupported'
  <2>1. CountsAreCalls'
    BY <1>1, <1>2 DEF CountsAreCalls
  <2>2. AnswerPassed'
    BY <1>2 DEF AnswerPassed, Supported, SnapshotFunding, NumericSnapshot
  <2>3. AnswersAreSupported'
    BY <1>1, <1>2, PassedAnswers DEF AnswersAreSupported, AskedFor
  <2>4. QED
    BY <2>1, <2>2, <2>3
<1>6. SupportedIsNotDropped' /\ HighRiskMeetsModel'
  BY <1>1, <1>2 DEF SupportedIsNotDropped, HighRiskMeetsModel, AskedFor
<1>7. QED
  BY <1>3, <1>4, <1>5, <1>6 DEF IInv, Routed, Decided

-----------------------------------------------------------------------------
(* One lemma per action.                                                   *)
LEMMA DecideByRulesOK == ASSUME IInv, DecideByRules PROVE IInv'
<1>1. pc = "start" /\ primary = "none" /\ \A stage \in Stages : calls[stage] = 0
  BY DEF DecideByRules, IInv, Routed, CallsMade
<1>2. UNCHANGED <<event, context, enabled, calls, primary>>
  BY DEF DecideByRules
<1>3. CASE Goes("haiku")
  <2>1. TypeOK'
    BY <1>1, <1>2, <1>3 DEF Goes, IInv, Routed, TypeOK
  <2>2. CallsMade' /\ SonnetIsAdmitted'
    BY <1>1, <1>2, <1>3 DEF Goes, CallsMade, SonnetIsAdmitted, AskedFor, Stages
  <2>3. Decided'
    BY <1>3 DEF Goes, Decided, AnswerPassed, CountsAreCalls, AnswersAreSupported, SupportedIsNotDropped,
                HighRiskMeetsModel
  <2>4. QED
    BY <2>1, <2>2, <2>3 DEF IInv, Routed
<1>4. ASSUME NEW tier \in {"rule_only", "fallback_only"}, Decide(tier, None, 0, 0),
             tier = "rule_only" => ~HighRisk(event),
             tier = "fallback_only" => ~enabled
      PROVE  IInv'
  <2>1. /\ pc' = "done" /\ decision' \in Decisions /\ decision' # None
        /\ decision'.tier = tier /\ decision'.answer = None
        /\ decision'.haiku = 0 /\ decision'.sonnet = 0
    BY <1>4, DecisionMade
  <2>2. TypeOK'
    BY <1>1, <1>2, <2>1 DEF IInv, Routed, TypeOK
  <2>3. CallsMade' /\ SonnetIsAdmitted'
    BY <1>1, <1>2, <2>1 DEF CallsMade, SonnetIsAdmitted, AskedFor, Stages
  <2>4. CountsAreCalls' /\ AnswersAreSupported' /\ AnswerPassed'
    BY <1>1, <1>2, <2>1 DEF CountsAreCalls, AnswersAreSupported, AnswerPassed, Stages
  <2>5. SupportedIsNotDropped'
    BY <1>1, <1>2, <2>1 DEF SupportedIsNotDropped, IInv, Routed, CallsMade
  <2>6. HighRiskMeetsModel'
    BY <1>2, <1>4 DEF HighRiskMeetsModel, HighRisk
  <2>7. QED
    BY <2>2, <2>3, <2>4, <2>5, <2>6 DEF IInv, Routed, Decided
<1>5. QED
  BY <1>3, <1>4 DEF DecideByRules, FallBack, RuleIsSufficient, BypassesModels

LEMMA HaikuFailsOK ==
  ASSUME IInv, NEW outcome \in {"failed", "refused"}, HaikuFails(outcome)
  PROVE  IInv'
<1>1. outcome \in Outcomes /\ outcome \notin {"supported", "conflicted"}
  BY DEF Outcomes
<1>2. /\ pc = "haiku" /\ Asked("haiku") /\ TrySonnet(1) /\ primary' = outcome
      /\ UNCHANGED <<event, context, enabled>>
  BY DEF HaikuFails
<1>3. QED
  BY <1>1, <1>2, TrySonnetOK

LEMMA RepairFailsOK == ASSUME IInv, RepairFails PROVE IInv'
<1>1. /\ pc = "repair" /\ Asked("repair") /\ TrySonnet(2) /\ primary' = "failed"
      /\ UNCHANGED <<event, context, enabled>>
  BY DEF RepairFails
<1>2. primary' \in Outcomes /\ primary' \notin {"supported", "conflicted"}
  BY <1>1 DEF Outcomes
<1>3. QED
  BY <1>1, <1>2, TrySonnetOK

LEMMA HaikuAnswersOK ==
  ASSUME IInv, NEW a \in Answers, HaikuAnswers(a)
  PROVE  IInv'
<1>1. /\ pc = "haiku" /\ Asked("haiku") /\ primary' = Outcome(a) /\ ProviderAccepts(a)
      /\ UNCHANGED <<event, context, enabled>>
  BY DEF HaikuAnswers
<1>2. Outcome(a) \in Outcomes
  BY OutcomeOfSupported
<1>3. CASE Supported(a) /\ ~Escalates(a) /\ Decide("haiku", a, 1, 0)
  BY <1>1, <1>3, HaikuDecidesOK
<1>4. CASE ~Supported(a) /\ Goes("repair")
  <2>1. calls["haiku"] = 0 /\ \A stage \in Stages : calls[stage] = 0
    BY <1>1 DEF IInv, Routed, CallsMade, Stages
  <2>2. /\ calls' \in [Stages -> 0..1]
        /\ calls'["haiku"] = 1 /\ calls'["repair"] = 0 /\ calls'["sonnet"] = 0
    BY <1>1, <2>1, AskedOnce DEF IInv, Routed, Stages
  <2>3. pc' = "repair" /\ decision' = decision /\ decision = None
    BY <1>1, <1>4 DEF Goes, IInv, Routed, TypeOK
  <2>4. TypeOK'
    BY <1>1, <1>2, <2>2, <2>3 DEF IInv, Routed, TypeOK
  <2>5. CallsMade' /\ SonnetIsAdmitted'
    BY <2>2, <2>3 DEF CallsMade, SonnetIsAdmitted, AskedFor
  <2>6. Decided'
    BY <2>3 DEF Decided, AnswerPassed, CountsAreCalls, AnswersAreSupported, SupportedIsNotDropped,
                HighRiskMeetsModel
  <2>7. QED
    BY <2>4, <2>5, <2>6 DEF IInv, Routed
<1>5. CASE (IF Supported(a) THEN Escalates(a) ELSE HighRisk(event)) /\ TrySonnet(1)
  <2>1. \/ MayAskSonnet
        \/ primary' \notin {"supported", "conflicted"}
        \/ primary' = "conflicted" /\ ~event.in_budget /\ ~HighRisk(event)
    BY <1>1, <1>5, EscalationIsAdmitted, OutcomeOfSupported
  <2>2. QED
    BY <1>1, <1>2, <1>5, <2>1, TrySonnetOK
<1>6. QED
  BY <1>3, <1>4, <1>5 DEF HaikuAnswers

LEMMA RepairAnswersOK ==
  ASSUME IInv, NEW a \in Answers, RepairAnswers(a)
  PROVE  IInv'
<1>1. /\ pc = "repair" /\ Asked("repair") /\ primary' = Outcome(a) /\ ProviderAccepts(a)
      /\ UNCHANGED <<event, context, enabled>>
  BY DEF RepairAnswers
<1>2. Outcome(a) \in Outcomes
  BY OutcomeOfSupported
<1>3. CASE Supported(a) /\ ~Escalates(a) /\ Decide("haiku", a, 2, 0)
  BY <1>1, <1>3, HaikuDecidesOK
<1>4. CASE ~(Supported(a) /\ ~Escalates(a)) /\ TrySonnet(2)
  <2>1. \/ MayAskSonnet
        \/ primary' \notin {"supported", "conflicted"}
        \/ primary' = "conflicted" /\ ~event.in_budget /\ ~HighRisk(event)
    BY <1>1, <1>4, EscalationIsAdmitted, OutcomeOfSupported
  <2>2. QED
    BY <1>1, <1>2, <1>4, <2>1, TrySonnetOK
<1>5. QED
  BY <1>3, <1>4 DEF RepairAnswers

(* Both outcomes of the call to Sonnet decide.                             *)
LEMMA SonnetDecidesOK ==
  ASSUME IInv, pc = "sonnet", Asked("sonnet"),
         UNCHANGED <<event, context, enabled, primary>>,
         \/ FallBack(HaikuCalls, 1)
         \/ \E a \in Answers : /\ ProviderAccepts(a) /\ Supported(a)
                             /\ Decide("sonnet", a, HaikuCalls, 1)
  PROVE  IInv'
<1>1. /\ calls' \in [Stages -> 0..1]
      /\ calls'["haiku"] = 1 /\ calls'["sonnet"] = 1
      /\ calls'["repair"] = HaikuCalls - 1
  <2>1. calls["sonnet"] = 0 /\ calls["haiku"] = 1 /\ calls["repair"] \in 0..1
    BY DEF IInv, Routed, CallsMade, TypeOK, Stages
  <2>2. /\ calls' \in [Stages -> 0..1] /\ calls'["sonnet"] = 1
        /\ calls'["haiku"] = calls["haiku"] /\ calls'["repair"] = calls["repair"]
    BY <2>1, AskedOnce DEF IInv, Routed, Stages
  <2>3. QED
    BY <2>1, <2>2 DEF HaikuCalls, AskedFor
<1>2. HaikuCalls \in 1..2 /\ MayAskSonnet
  BY DEF HaikuCalls, IInv, Routed, SonnetIsAdmitted
<1>3. PICK tier \in {"sonnet", "fallback_only"}, answer \in Answers \cup {None} :
        /\ Decide(tier, answer, HaikuCalls, 1)
        /\ \/ answer = None
           \/ /\ tier = "sonnet" /\ answer \in Answers
              /\ ProviderAccepts(answer) /\ Supported(answer)
  BY DEF FallBack
<1>4. /\ pc' = "done" /\ decision' \in Decisions /\ decision' # None
      /\ decision'.tier = tier /\ decision'.answer = answer
      /\ decision'.haiku = HaikuCalls /\ decision'.sonnet = 1
  BY <1>2, <1>3, DecisionMade
<1>5. TypeOK'
  BY <1>1, <1>4 DEF IInv, Routed, TypeOK
<1>6. CallsMade' /\ SonnetIsAdmitted'
  BY <1>2, <1>4
  DEF CallsMade, SonnetIsAdmitted, MayAskSonnet, SonnetAdmits, FundingSnapshot,
      NumericSnapshot, BroadScan, Trusted, HighRisk, LowValue
<1>7. CountsAreCalls'
  BY <1>1, <1>2, <1>4 DEF CountsAreCalls
<1>8. AnswersAreSupported' /\ AnswerPassed'
  <2>1. AnswerPassed'
    BY <1>3, <1>4 DEF AnswerPassed, Supported, SnapshotFunding, NumericSnapshot
  <2>2. AnswersAreSupported'
    BY <1>1, <1>3, <1>4, PassedAnswers DEF AnswersAreSupported, AskedFor
  <2>3. QED
    BY <2>1, <2>2
<1>9. SupportedIsNotDropped' /\ HighRiskMeetsModel'
  BY <1>1 DEF SupportedIsNotDropped, HighRiskMeetsModel, AskedFor
<1>10. QED
  BY <1>5, <1>6, <1>7, <1>8, <1>9 DEF IInv, Routed, Decided

LEMMA SonnetFailsOK == ASSUME IInv, SonnetFails PROVE IInv'
BY SonnetDecidesOK DEF SonnetFails

LEMMA SonnetAnswersOK ==
  ASSUME IInv, NEW a \in Answers, SonnetAnswers(a)
  PROVE  IInv'
BY SonnetDecidesOK DEF SonnetAnswers

LEMMA StutterOK == ASSUME IInv, UNCHANGED vars PROVE IInv'
BY DEF vars, IInv, Routed, Decided, TypeOK, CallsMade, SonnetIsAdmitted, AskedFor,
       MayAskSonnet, SonnetAdmits, FundingSnapshot, NumericSnapshot, BroadScan, Trusted,
       HighRisk, LowValue, AnswerPassed, Supported, SnapshotFunding, CountsAreCalls, AnswersAreSupported, SupportedIsNotDropped,
       HighRiskMeetsModel

LEMMA NextOK == IInv /\ [Next]_vars => IInv'
<1> SUFFICES ASSUME IInv, [Next]_vars PROVE IInv'
  OBVIOUS
<1>1. CASE DecideByRules
  BY <1>1, DecideByRulesOK
<1>2. ASSUME NEW outcome \in {"failed", "refused"}, HaikuFails(outcome) PROVE IInv'
  BY <1>2, HaikuFailsOK
<1>3. ASSUME NEW a \in Answers, HaikuAnswers(a) PROVE IInv'
  BY <1>3, HaikuAnswersOK
<1>4. ASSUME NEW a \in Answers, RepairAnswers(a) PROVE IInv'
  BY <1>4, RepairAnswersOK
<1>5. ASSUME NEW a \in Answers, SonnetAnswers(a) PROVE IInv'
  BY <1>5, SonnetAnswersOK
<1>6. CASE RepairFails
  BY <1>6, RepairFailsOK
<1>7. CASE SonnetFails
  BY <1>7, SonnetFailsOK
<1>8. CASE UNCHANGED vars
  BY <1>8, StutterOK
<1>9. QED
  BY <1>1, <1>2, <1>3, <1>4, <1>5, <1>6, <1>7, <1>8 DEF Next

-----------------------------------------------------------------------------
(* The inductive invariant holds in every reachable state.                 *)
THEOREM InvariantHolds == Spec => []IInv
BY InitOK, NextOK, PTL DEF Spec

(* Every variable keeps its type; in particular no stage is asked twice,   *)
(* and there is a decision exactly when decide has returned.               *)
THEOREM TypeCorrect == Spec => []TypeOK
<1>1. IInv => TypeOK
  BY DEF IInv, Routed
<1>2. QED
  BY <1>1, InvariantHolds, PTL

(* The invocation counts that a decision reports are the calls made.       *)
THEOREM CountsAreCallsAlways == Spec => []CountsAreCalls
<1>1. IInv => CountsAreCalls
  BY DEF IInv, Decided
<1>2. QED
  BY <1>1, InvariantHolds, PTL

(* No answer that the evidence gate refuses becomes a decision.            *)
THEOREM AnswersAreSupportedAlways == Spec => []AnswersAreSupported
<1>1. IInv => AnswersAreSupported
  BY DEF IInv, Decided
<1>2. QED
  BY <1>1, InvariantHolds, PTL

(* The two admission checks for Sonnet agree: a supported Haiku answer is  *)
(* dropped only when it is in conflict and the budget is spent.            *)
THEOREM SupportedIsNotDroppedAlways == Spec => []SupportedIsNotDropped
<1>1. IInv => SupportedIsNotDropped
  BY DEF IInv, Decided
<1>2. QED
  BY <1>1, InvariantHolds, PTL

(* Numeric snapshots reach Sonnet neither by an answer nor by a failure,   *)
(* unless a symbol context supports them.                                  *)
THEOREM SnapshotsStopAtHaikuAlways == Spec => []SnapshotsStopAtHaiku
<1>1. IInv => SnapshotsStopAtHaiku
  BY DEF IInv, Routed, SonnetIsAdmitted, MayAskSonnet, SonnetAdmits, FundingSnapshot,
         SnapshotsStopAtHaiku
<1>2. QED
  BY <1>1, InvariantHolds, PTL

(* No way to Sonnet passes by the budget, but for events of high risk.     *)
THEOREM BudgetIsHardAlways == Spec => []BudgetIsHard
<1>1. IInv => BudgetIsHard
  BY DEF IInv, Routed, SonnetIsAdmitted, MayAskSonnet, BudgetIsHard
<1>2. QED
  BY <1>1, InvariantHolds, PTL

(* With models enabled, an event of high risk is shown to Haiku.           *)
THEOREM HighRiskMeetsModelAlways == Spec => []HighRiskMeetsModel
<1>1. IInv => HighRiskMeetsModel
  BY DEF IInv, Decided
<1>2. QED
  BY <1>1, InvariantHolds, PTL

-----------------------------------------------------------------------------
(* The rules claim high confidence only with evidence: without it an event *)
(* of any kind but "other" is contradicted, and "other" scores too low.    *)
LEMMA RulesNeedEvidence ==
  ASSUME NEW e \in EventSpace, RuleTerminal(e) = "high_confidence_structured"
  PROVE  /\ e.evidence /\ ~e.disputed
         /\ e.kind # "funding_shift"
<1>1. ~Contradicted(e) /\ RuleConfidence(e) >= 80
  BY DEF RuleTerminal
<1>2. e.kind \in Kinds /\ e.evidence \in BOOLEAN /\ e.disputed \in BOOLEAN
  BY DEF EventSpace
<1>3. ~e.disputed /\ (e.evidence \/ e.kind = "other")
  BY <1>1, <1>2, Zenon DEF Contradicted
<1>4. BaseScore["other"] = 35 /\ BaseScore["funding_shift"] = 55
  BY DEF BaseScore
<1>5. e.evidence /\ e.kind # "funding_shift"
  BY <1>1, <1>2, <1>3, <1>4 DEF RuleConfidence
<1>6. QED
  BY <1>3, <1>5

(* Rules never give general market context to an event with symbols.       *)
LEMMA RulesKeepSymbols ==
  ASSUME NEW e \in EventSpace, e.symbols,
         RuleTerminal(e) \in {"high_confidence_structured", "general_market_context"}
  PROVE  RuleTerminal(e) = "high_confidence_structured"
BY DEF RuleTerminal

(* A context flag of high confidence rests on a sentence of the event,     *)
(* whichever way the router took.                                          *)
THEOREM FlagsRestOnEvidenceAlways == Spec => []FlagsRestOnEvidence
<1>1. ASSUME IInv, Flagged PROVE FlagsRestOnEvidence
  <2>1. event \in EventSpace /\ decision \in Decisions
    BY <1>1, InputsAssumption DEF IInv, Routed, TypeOK, Flagged
  <2>2. CASE decision.answer = None
    <3>1. event.symbols /\ RuleTerminal(event) = "high_confidence_structured"
      BY <1>1, <2>1, <2>2, RulesKeepSymbols DEF Flagged, SymbolsAreKnown, ClaimedTerminal
    <3>2. event.evidence /\ ~event.disputed
      BY <2>1, <3>1, RulesNeedEvidence
    <3>3. QED
      BY <2>2, <3>1, <3>2 DEF FlagsRestOnEvidence
  <2>3. CASE decision.answer # None
    <3>1. /\ decision.answer \in Answers
          /\ ProviderAccepts(decision.answer) /\ Supported(decision.answer)
      BY <1>1, <2>1, <2>3 DEF IInv, Decided, AnswerPassed, Flagged, Decisions
    <3>2. QED
      BY <1>1, <2>3, <3>1, PassedAnswers
      DEF FlagsRestOnEvidence, Flagged, SymbolsAreKnown, ClaimedTerminal
  <2>4. QED
    BY <2>2, <2>3
<1>2. IInv => FlagsRestOnEvidence
  BY <1>1 DEF FlagsRestOnEvidence
<1>3. QED
  BY <1>2, InvariantHolds, PTL

(* A funding flag needs a usable market context, and a single snapshot     *)
(* never makes one of high confidence.                                     *)
THEOREM FundingFlagsAreGuardedAlways == Spec => []FundingFlagsAreGuarded
<1>1. ASSUME IInv, Flagged, ClaimedKind = "funding_shift"
      PROVE  FundingFlagsAreGuarded
  <2>1. event \in EventSpace /\ decision \in Decisions
    BY <1>1, InputsAssumption DEF IInv, Routed, TypeOK, Flagged
  <2>2. context \notin {"pending", "general"}
    BY <1>1 DEF Flagged, ContextIsUsable
  <2>3. CASE decision.answer = None
    <3>1. event.symbols /\ RuleTerminal(event) = "high_confidence_structured"
      BY <1>1, <2>1, <2>3, RulesKeepSymbols DEF Flagged, SymbolsAreKnown, ClaimedTerminal
    <3>2. event.kind = "funding_shift"
      BY <1>1, <2>3 DEF ClaimedKind
    <3>3. QED
      BY <2>1, <3>1, <3>2, RulesNeedEvidence
  <2>4. CASE decision.answer # None
    <3>1. /\ decision.answer \in Answers
          /\ ProviderAccepts(decision.answer) /\ Supported(decision.answer)
      BY <1>1, <2>1, <2>4 DEF IInv, Decided, AnswerPassed, Flagged, Decisions
    <3>2. ~SnapshotFunding(decision.answer) /\ decision.answer.kind = "funding_shift"
      BY <1>1, <2>4, <3>1, PassedAnswers DEF ClaimedKind
    <3>3. NumericSnapshot(event) => ClaimedTerminal = "general_market_context"
      BY <1>1, <2>4, <3>2 DEF SnapshotFunding, ClaimedTerminal, Flagged
    <3>4. QED
      BY <2>2, <3>3 DEF FundingFlagsAreGuarded
  <2>5. QED
    BY <2>3, <2>4
<1>2. IInv => FundingFlagsAreGuarded
  BY <1>1 DEF FundingFlagsAreGuarded
<1>3. QED
  BY <1>2, InvariantHolds, PTL
=============================================================================
