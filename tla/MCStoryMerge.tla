----------------------------- MODULE MCStoryMerge -----------------------------
(* An instance of StoryMerge for TLC.                                      *)
EXTENDS StoryMerge, TLC

CONSTANTS w1, w2, day, title, s1, s2, abc, abcLower

(* Events 1, 2 and 3 have keys of their own, 4 has the segment of 2.       *)
MCRaw ==
  [e \in Events |->
     [segment |-> IF e = 4 THEN 2 ELSE e, hour |-> 0, date |-> day, title |-> title,
      source |-> IF e = 1 THEN s1 ELSE s2]]

MCCanonical == [s \in {abc, abcLower} |-> abc]

Funding ==
  [type |-> "funding_shift", symbols |-> {abc}, flags |-> {},
   terminal |-> "general_market_context", known |-> TRUE, usable |-> TRUE,
   fallback |-> FALSE]

(* The same claim made without a context, by rumour after the models have  *)
(* failed, and of another topic.                                           *)
MCClaims ==
  [e \in Events |->
     CASE e = 1 -> {[Funding EXCEPT !.flags = {"rumor_vs_official"}]}
       [] e = 2 -> {Funding, [Funding EXCEPT !.usable = FALSE]}
       [] e = 3 -> {[Funding EXCEPT !.symbols = {abcLower}, !.flags = {"evidence_weak"},
                       !.terminal = "low_confidence_structured", !.fallback = TRUE]}
       [] e = 4 -> {[Funding EXCEPT !.type = "incident"]}]

MCSymmetry == Permutations(Workers)
=============================================================================
