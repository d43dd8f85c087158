--------------------------- MODULE MCOrfsThreads ---------------------------
(* Instances of OrfsThreads: the event thread patches genes (block 0) and  *)
(* configuration (block 1); the app thread reads and, when "power off"     *)
(* starts, flushes the configuration.                                      *)
EXTENDS OrfsThreads

CONSTANTS event, app

GENE_BLOCK   == 0
CONFIG_BLOCK == 1

OneWriter  == [t \in Thread |-> IF t = event THEN {GENE_BLOCK, CONFIG_BLOCK} ELSE {}]
TwoWriters == [t \in Thread |->
  IF t = event THEN {GENE_BLOCK, CONFIG_BLOCK} ELSE {CONFIG_BLOCK}]
=============================================================================
