-------------------------- MODULE CommandJournalMC --------------------------
(* Small instances of CommandJournal for TLC. *)
EXTENDS CommandJournal

CONSTANTS c1, c2, id1, id2, x, y

MCCalls == {c1, c2}
MCIds == {id1, id2}
MCContents == {x, y}
=============================================================================
