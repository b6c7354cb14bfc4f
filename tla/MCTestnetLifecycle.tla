-------------------------- MODULE MCTestnetLifecycle --------------------------
(***************************************************************************)
(* One client and one config reader over two experiments.                  *)
(***************************************************************************)
EXTENDS TestnetLifecycle

CONSTANTS client

MCClients == {client}
MCCollectionOf == [c \in MCClients |-> 1]
MCGenesisFile == [c \in MCClients |-> "besu_genesis"]
=============================================================================
