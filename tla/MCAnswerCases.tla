---------------------------- MODULE MCAnswerCases ----------------------------
(* Rows of one or two prompt tokens whose answers run to their limit or stop at *)
(* either end token, with and without the FACT line.                            *)
EXTENDS Naturals, Sequences

Row(p, i, m, f) == [prompt |-> p, index |-> i, main |-> m, fact |-> f]

MCMain ==
  {a \o <<"word", "word">> :
     a \in {<<"fact", "nl", "word">>, <<"fact", "nl", "eot">>, <<"word", "eot", "word">>,
            <<"word", "eos", "word">>, <<"word", "word", "word">>}}

MCRows == {Row(1, 2, m, f) : m \in MCMain, f \in {<<"fact">>, <<"word">>}}

\* Any two rows, or three of one kind so that there are more blocks than are chosen.
MCCorpora == [1..2 -> MCRows] \cup [1..3 -> {Row(2, 3, <<"word", "word", "eot", "word", "word">>, <<"fact">>)}]

MCAnswers ==
  {a \o <<"word", "word">> : a \in {<<"word", "eos", "word">>, <<"fact", "nl", "word">>, <<"nl", "word", "word">>}}

MCConditions == [start : {0, 3}, gap : {0, 2}, fact : BOOLEAN]
==============================================================================
