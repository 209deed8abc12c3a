---------------------------- MODULE MCSubagents -----------------------------
(* A skill that calls itself twice in a turn, or a tool that bills, for TLC. *)
EXTENDS Subagents

CONSTANTS work, draw

WorkTwiceOrDraw == {<<>>, <<work, work>>, <<draw>>}
=============================================================================
