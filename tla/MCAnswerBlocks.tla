---------------------------- MODULE MCAnswerBlocks ----------------------------
(* The answer-block program and the distance sweep on their own.                *)
EXTENDS AnswerBlocks, MCAnswerCases

==============================================================================
