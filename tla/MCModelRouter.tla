---------------------------- MODULE MCModelRouter ----------------------------
(* Instances of ModelRouter for TLC.                                       *)
EXTENDS ModelRouter

(* One value of each attribute for every way routing can take it.  Events  *)
(* without evidence are those of projects, where the score is highest.     *)
RoutedEvents ==
  {e \in [kind : {"listing", "incident", "funding_shift", "other"},
          evidence : BOOLEAN, disputed : {FALSE}, symbols : BOOLEAN,
          source : {"plain", "exchange", "project"},
          source_quality : {"community_reaction", "market_snapshot", "unknown"},
          content_quality : {"title_only", "numeric_observation", "full_text"},
          global_scope : BOOLEAN, low_score : {FALSE},
          derivative : BOOLEAN, in_budget : BOOLEAN] :
     e.evidence <=> e.source # "project"}

SoundAnswers ==
  {a \in [kind : {"funding_shift", "partnership"},
          terminal : {"high_confidence_structured", "low_confidence_structured",
                      "general_market_context", "conflicted", "unsupported_or_weak"},
          confidence : {50, 70, 90},
          band : {"low", "high"},
          evidence : {"found"}, symbols : {"found"}, symbol_band : {"moderate"}] :
     a.band = "high" <=> a.confidence = 90}

(* Something is wrong with the evidence or with the symbols.               *)
DoubtfulAnswers ==
  {a \in [kind : {"partnership"},
          terminal : {"high_confidence_structured", "general_market_context"},
          confidence : {90},
          band : {"medium", "high"},
          evidence : {"found", "altered", "unknown", "none"},
          symbols : {"found", "foreign", "none"},
          symbol_band : {"strong"}] :
     a.evidence = "found" <=> a.symbols # "found"}

RoutedAnswers == SoundAnswers \cup DoubtfulAnswers
=============================================================================
