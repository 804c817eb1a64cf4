----------------------------- MODULE MCEventBus -----------------------------
(* An instance of the bus in its process for TLC: a client that reads what   *)
(* it is sent and one that may be slow for ever.                             *)
EXTENDS Lifespan

CONSTANTS t1, reader, slow

MCClients == {reader, slow}
MCTasks == {t1}
MCInitEvents == {<<>>}
MCReaders == {reader}

MCSpec == LifeSpec /\ LifeFairness(MCReaders)

DeliveredToReaders == Delivered(MCReaders)
=============================================================================
