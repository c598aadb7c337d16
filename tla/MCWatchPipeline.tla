--------------------------- MODULE MCWatchPipeline ---------------------------
(* Small instances of WatchPipeline for TLC. *)
EXTENDS WatchPipeline, TLC

CONSTANTS cards, rents, get1, get2, get3, stream1

\* get3 reads the rents, the others the cards.
MCQueryOf == [r \in Reads |-> IF r = get3 THEN rents ELSE cards]

=============================================================================
