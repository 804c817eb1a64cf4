------------------------------- MODULE MCTray -------------------------------
(* An instance of Tray for TLC: one task, running when the daemon boots, and *)
(* the tray as the only client.                                              *)
EXTENDS Tray

CONSTANTS t1

MCTasks == {t1}
MCInitEvents == {<<t1>>}
MCClients == {tray}
=============================================================================
