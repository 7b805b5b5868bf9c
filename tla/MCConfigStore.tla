--------------------------- MODULE MCConfigStore ---------------------------
(* ConfigStore with two workers, one good and one bad configuration.       *)
EXTENDS ConfigStore

CONSTANTS w1, w2, default, good, bad

MCWorkers == {w1, w2}
MCConfigs == {good, bad}
MCGood == {default, good}
MCInner == {bad}
MCNoInner == {}
=============================================================================
