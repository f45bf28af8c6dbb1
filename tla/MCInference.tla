---------------------------- MODULE MCInference ----------------------------
(***************************************************************************)
(* Inference on requests of up to three questions, whose texts hold words  *)
(* spelled like kev's delimiters, blanks and nulls.                        *)
(***************************************************************************)
EXTENDS Inference

Criterion(name, value) == [name |-> name, value |-> value]

Question(qid, type, instructions, criteria) ==
    [qid |-> qid, type |-> type, instructions |-> instructions, criteria |-> criteria]

Void == Question("v", "choice", None, <<>>)

\* A level, or a half of a noul, is named by its place.
Text(value) == Criterion("", value)

Noul == Question("n", "noul", None, <<Text(<<" ">>), Text(<<"holds">>)>>)
Bare == Question("b", "noul", <<"sure">>, <<Text(None), Text(None)>>)
Pick == Question("p", "choice", <<"<q>", "pick">>,
                 <<Criterion("left", None), Criterion("right", <<"hand", "</opt>">>)>>)
Many == Question("m", "choice", None,
                 <<Criterion("x", <<"one">>), Criterion("<opt>", <<>>),
                   Criterion("z", <<"two", "more">>)>>)
Rate == Question("r", "score", <<"rate">>, <<Text(<<"low">>), Text(<<"mid">>), Text(<<"top">>)>>)
Only == Question("o", "choice", <<"take">>, <<Criterion("it", <<"all">>)>>)

Asked(state, questions) == [state |-> state, questions |-> questions]

\* The last two states are measured as three tokens and encoded as seven: one is
\* cut, and beside the other the question does not fit.
MCContents ==
    { Asked(<<"s">>, <<Noul, Pick>>), Asked(<<"s", "t">>, <<Many, Only, Noul>>),
      Asked(<<>>, <<Pick, Rate, Bare>>), Asked(<<"</opt>">>, <<Rate, Noul>>), Asked(<<"s">>, <<Only, Void>>),
      Asked(<<"<opt>", "<decide>">>, <<Only>>), Asked(<<"<opt>", "<decide>">>, <<Many>>) }

MCWords ==
    {"", "s", "t", "n", "b", "p", "m", "r", "o", "v", " ", "holds", "sure", "<q>", "pick", "left",
     "right", "hand", "</opt>", "x", "one", "<opt>", "z", "two", "more", "rate", "low", "mid",
     "top", "take", "it", "all", "<decide>", "0", "1", "2", "3", "A", "B", "C"}

MCLevels == <<"0", "1", "2", "3">>

MCCodes == <<"A", "B", "C">>

\* Thirtieths, some of them equal only when they are rounded to eighths.  Three equal
\* options are published as 3/8 each, and their confidence is a tie then, as that of
\* seven is with four decimals: 3 * 3 - 8 eighths over 2.
MCTiesUp == {<<1, 2>>}

MCOutcomes ==
    << {<<30>>}, {<<30, 0>>, <<14, 16>>}, {<<14, 15, 1>>, <<10, 10, 10>>} >>
=============================================================================
