--------------------------- MODULE MatchTrackerMC ---------------------------
EXTENDS MatchTracker
\* The end of a battle comes after the start of the next; the live ends in a
\* battle; a gift, and an update that names no battle, before one.
Rooms == {<<[kind |-> "start",  battle |-> 1, score |-> 4],
            [kind |-> "start",  battle |-> 2, score |-> 0],
            [kind |-> "end",    battle |-> 1, score |-> NoScore]>>,
          <<[kind |-> "update", battle |-> 1, score |-> 4],
            [kind |-> "update", battle |-> 1, score |-> 0],
            [kind |-> "drop",   battle |-> 0, score |-> NoScore]>>,
          <<[kind |-> "gift",   battle |-> 0, score |-> NoScore],
            [kind |-> "update", battle |-> 0, score |-> 4],
            [kind |-> "start",  battle |-> 1, score |-> NoScore]>>}
=============================================================================
