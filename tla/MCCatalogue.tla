---------------------------- MODULE MCCatalogue ------------------------------
(* Small instances of Catalogue for TLC. *)
EXTENDS Catalogue

CONSTANTS leaf, kit, pdp, plp, q1, q2

MCParents == [p \in Products |-> IF p = leaf THEN {kit} ELSE {}]
MCSubject == [k \in Keys |-> IF k = pdp THEN kit ELSE Listing]
MCTags == Products \cup {Listing}
MCTagsOf == [k \in Keys |-> IF k = plp THEN MCTags ELSE {kit}]
MCPurgers == {<<"event", e>> : e \in Events} \cup {<<"indexed", w>> : w \in Workers}

NoEvent == [kind |-> "none", product |-> kit]
Of(kind, p) == [kind |-> kind, product |-> p]
Asks(k1, k2) == [r \in Requests |-> IF r = q1 THEN k1 ELSE k2]
Still == [events |-> <<NoEvent, NoEvent>>, asks |-> Asks(NoPage, NoPage), faults |-> 0,
          restart |-> FALSE, expiry |-> FALSE, categories |-> FALSE]

\* Reindexing alone: a burst of edits, one with many failures, a component of a bundle, a full scan.
Reindexing ==
    { [Still EXCEPT !.events = <<Of("price", kit), Of("price", kit)>>, !.faults = 1, !.restart = TRUE],
      [Still EXCEPT !.events = <<Of("price", kit), NoEvent>>, !.faults = 3],
      [Still EXCEPT !.events = <<Of("product", leaf), NoEvent>>, !.faults = 1],
      [Still EXCEPT !.events = <<Of("price", kit), Of("full", kit)>>] }

\* Pages: two visitors without an edit, two with one, one visitor with failures.
Visitors == [Still EXCEPT !.asks = Asks(plp, plp)]
Visiting ==
    { [Visitors EXCEPT !.faults = 1, !.restart = TRUE, !.expiry = TRUE],
      [Visitors EXCEPT !.events = <<Of("price", kit), NoEvent>>],
      [Still EXCEPT !.events = <<Of("product", kit), NoEvent>>, !.asks = Asks(NoPage, plp), !.faults = 1, !.expiry = TRUE],
      [Still EXCEPT !.events = <<Of("price", kit), NoEvent>>, !.asks = Asks(NoPage, pdp), !.faults = 1, !.expiry = TRUE] }

MCSetups == Reindexing \cup Visiting \cup {[Still EXCEPT !.categories = TRUE]}
==============================================================================
