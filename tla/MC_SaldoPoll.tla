---------------------------- MODULE MC_SaldoPoll ----------------------------
(* Two runs of the poller, cron's this minute and one that is late. *)
EXTENDS SaldoPoll

CONSTANTS now, late

MCPoller == {now, late}
=============================================================================
