-------------------------- MODULE MCTestnetBootstrap --------------------------
(***************************************************************************)
(* Two client instances in two collections: a lighthouse-like one, which   *)
(* reads the ENR before the consensus checkpoint, on geth, and a prysm-    *)
(* like one, which reads it after, on nethermind; one config reader.       *)
(***************************************************************************)
EXTENDS BootstrapRefinement

CONSTANTS lighthouse, prysm

MCClients == {lighthouse, prysm}
MCEager == {lighthouse}
MCCollectionOf == [c \in MCClients |-> IF c = lighthouse THEN 1 ELSE 2]
MCGenesisFile ==
  [c \in MCClients |-> IF c = lighthouse THEN "geth_genesis"
                                         ELSE "nethermind_genesis"]
=============================================================================
