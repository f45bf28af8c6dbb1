---------------------------- MODULE JeffDecision ----------------------------
(***************************************************************************)
(* How jeff turns questions into prompts and reads the answer codes back:  *)
(* decis/engines/_jeff_vendor/model.py and decoder.py, for text and the    *)
(* state-first layout.  A text is a sequence of words.  As in KevEncoding  *)
(* the network is left open: what it computes at the last place of a row   *)
(* depends on the words in it and on how far each is from there.           *)
(***************************************************************************)
EXTENDS Integers, Sequences, SequencesExt, FiniteSetsExt

CONSTANTS
    Codes,      \* the answer codes, one per readout row
    BatchSize,  \* rows of one forward pass
    None        \* a JSON null, or a field that was not sent

\* `value or default`: null and the empty string are both replaced.
Or(value, default) == IF value = None \/ value = <<>> THEN default ELSE value

\* The texts of the options: a choice shows its names, a noul has defaults.
Options(question) ==
    LET criteria == question.criteria
    IN  [i \in DOMAIN criteria |->
            CASE question.type = "choice" ->
                    <<criteria[i].name>> \o
                    (IF criteria[i].value = None THEN <<>> ELSE <<":">> \o criteria[i].value)
              [] question.type = "score" -> criteria[i].value
              [] OTHER -> Or(criteria[i].value, IF i = 1 THEN <<"No">> ELSE <<"Yes">>)]

\* decision_messages, raising when there is no code for every option.
HasCodes(question) == Len(Options(question)) \in 1..Len(Codes)

Prompt(row) ==
    <<"State:">> \o row.state
    \o <<"Question:">> \o Or(row.question.instructions, <<"choose">>)
    \o <<"Options:">> \o FlattenSeq([i \in DOMAIN Options(row.question) |->
                                    <<Codes[i], ":">> \o Options(row.question)[i]])
    \o <<"Return">>

\* A place of a row under its attention mask: a word, or nothing.
Pad == <<>>
Real(prompt) == [i \in DOMAIN prompt |-> <<prompt[i]>>]

\* Mistake: rows are padded at the end.
MutPadded(prompts) ==
    LET L == Max({Len(prompts[r]) : r \in DOMAIN prompts})
    IN  [r \in DOMAIN prompts |-> Real(prompts[r]) \o [i \in 1..(L - Len(prompts[r])) |-> Pad]]

\* padding_side = "left": the last place of every row is its own last word.
Padded(prompts) ==
    LET L == Max({Len(prompts[r]) : r \in DOMAIN prompts})
    IN  [r \in DOMAIN prompts |-> [i \in 1..(L - Len(prompts[r])) |-> Pad] \o Real(prompts[r])]

\* A batch, and how many of its tokens are real.
Prepare(rows) ==
    LET prompts == [r \in DOMAIN rows |-> Prompt(rows[r])]
    IN  [ inputs |-> Padded(prompts),
          counts |-> [r \in DOMAIN rows |-> Len(Options(rows[r].question))],
          tokens |-> FoldLeft(+, 0, [r \in DOMAIN rows |-> Len(prompts[r])]) ]

\* What the last place of a row sees; nothing is read from a pad.
LastHidden(input) ==
    IF input[Len(input)] = Pad THEN {}
    ELSE {<<input[i][1], Len(input) - i>> : i \in {j \in DOMAIN input : input[j] # Pad}}

\* One logit per code, those behind the last option masked out.
Forward(batch) ==
    [r \in DOMAIN batch.inputs |-> [i \in DOMAIN Codes |->
        IF i > batch.counts[r] THEN None
        ELSE [code |-> Codes[i], from |-> LastHidden(batch.inputs[r])]]]

\* Mistake: every row is cut to the options of the first.
MutDistributions(batch) ==
    [r \in DOMAIN batch.inputs |-> SubSeq(Forward(batch)[r], 1, batch.counts[1])]

\* One pass of `predict`: a softmax over the codes, cut to the row's options.
Distributions(batch) ==
    [r \in DOMAIN batch.inputs |-> SubSeq(Forward(batch)[r], 1, batch.counts[r])]

\* The rows of the pass that starts behind the first `done` rows.
Chunk(rows, done) ==
    LET end == done + BatchSize
    IN  SubSeq(rows, done + 1, IF end < Len(rows) THEN end ELSE Len(rows))
=============================================================================
