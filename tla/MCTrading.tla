------------------------------ MODULE MCTrading ------------------------------
(***************************************************************************)
(* Trading on a small instance: two markets of one city and day, the two   *)
(* strategies.                                                             *)
(***************************************************************************)
EXTENDS Trading, TLC

CONSTANTS t1, t2

Ticks == <<t1, t2>>
City == [t \in {t1, t2} |-> "nyc"]
OneDay == [t \in {t1, t2} |-> "day"]
Closes1 == [t \in {t1, t2} |-> IF t = t1 THEN 2 ELSE Never]

Ensemble == "weather_ensemble_disagreement"
Stale    == "weather_stale_quote"
Both     == <<Ensemble, Stale>>

\* A low quote, a high one, one in half-cents, a crossed one and half a book.
SomeBooks == { [bid |-> 4, ask |-> 20], [bid |-> 160, ask |-> 176],
               [bid |-> 61, ask |-> 83], [bid |-> 70, ask |-> 60],
               [bid |-> NoPrice, ask |-> 20] }

\* Two hours that have begun at once, and one that begins later.
SomeOutlooks == { (0 :> 180), (0 :> 148), (2 :> 160) }

SomeConfig == (Ensemble :> [maxAge |-> 0, exposure |-> 30, correlation |-> 50])
           @@ (Stale :> [maxAge |-> 0, floor |-> 160, exposure |-> 100, correlation |-> 100])
SomeKelly == [s \in {Ensemble, Stale} |-> 4]
=============================================================================
