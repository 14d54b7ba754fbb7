---------------------------- MODULE MCDraftRuns ----------------------------
(* DraftRuns for TLC: a guarded run (the daily cron, or the first draft of  *)
(* onboarding), a draft on request and a seeder.                            *)
EXTENDS DraftRuns

CONSTANTS daily, request, seeder, i1, i2, i3

MCCallers == {daily, request, seeder}
MCGuarded == {daily}
MCSeeders == {seeder}
MCIds == {i1, i2, i3}
=============================================================================
