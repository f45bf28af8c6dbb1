----------------------------- MODULE KevEncoding -----------------------------
(***************************************************************************)
(* How kev turns a record (a state and its questions) into tokens, and     *)
(* what each readout of a batch can see: the encoder, the masks and the    *)
(* two forms of the forward pass in decis/engines/_kev_vendor/model.py.    *)
(*                                                                         *)
(* A text is a sequence of words, each one token, except that a word may   *)
(* be spelled like a delimiter.  The network itself is left open: what it  *)
(* computes at a token is taken to depend on exactly the tokens, with      *)
(* their positions, that attention leads to from there (`Seen`).           *)
(***************************************************************************)
EXTENDS Integers, Sequences, SequencesExt, FiniteSetsExt

CONSTANTS
    MaxState,   \* MAX_STATE
    MaxBranch,  \* MAX_BRANCH
    Bucket      \* KEV_SHAPE_BUCKET on MPS, 1 elsewhere

ASSUME KevAssumption == {MaxState, MaxBranch, Bucket} \subseteq Nat \ {0}

Delimiters == {"<state>", "<q>", "<opt>", "</opt>", "<decide>"}

Cut(s, n) == SubSeq(s, 1, IF n < Len(s) THEN n ELSE Len(s))

\* Mistake: what the caller wrote goes to the tokenizer as it is.
MutUserTokens(text) == text

\* A text that is spelled like a delimiter is taken apart.
UserTokens(text) ==
    FlattenSeq([i \in DOMAIN text |->
        IF text[i] \in Delimiters THEN <<"<", "marker", ">">> ELSE <<text[i]>>])

-----------------------------------------------------------------------------
(* encode                                                                   *)

OPT_NONE == -1
OPT_DECIDE == -2

StateIds(state) == <<"<state>">> \o Cut(UserTokens(state), MaxState - 1)

Instructions(q) == <<"<q>">> \o UserTokens(q.instr)
Span(option) == <<"<opt>">> \o UserTokens(option) \o <<"</opt>">>
Spans(q) == [j \in DOMAIN q.options |-> Span(q.options[j])]
Branch(q) == Instructions(q) \o FlattenSeq(Spans(q)) \o <<"<decide>">>

\* How many tokens the spans before the j-th take.
SpansBefore(q, j) == Len(FlattenSeq(SubSeq(Spans(q), 1, j - 1)))

Piece(ids, seg, pos, opt) ==
    [i \in DOMAIN ids |-> [id |-> ids[i], seg |-> seg, pos |-> pos + i - 1, opt |-> opt]]

\* One branch: its positions go on from the state.  In isolation every option
\* starts at the same position and <decide> stands behind the longest.
BranchTokens(q, k, p0, isolated) ==
    LET Start == p0 + Len(Instructions(q))
        Behind(j) == Start + (IF isolated THEN 0 ELSE SpansBefore(q, j))
        Longest == Max({0} \union {Len(Spans(q)[j]) : j \in DOMAIN q.options})
    IN  Piece(Instructions(q), k, p0, OPT_NONE)
        \o FlattenSeq([j \in DOMAIN q.options |-> Piece(Span(q.options[j]), k, Behind(j), j)])
        \o Piece(<<"<decide>">>, k,
                 IF isolated THEN Start + Longest ELSE Behind(Len(q.options) + 1), OPT_DECIDE)

\* A branch that does not fit beside the state is refused; a state is cut.
EncodeRaises(rec) ==
    \E k \in DOMAIN rec.questions :
        Len(Branch(rec.questions[k])) > MaxBranch - Len(StateIds(rec.state))

\* decide[k] and opts[k][j] are where question k and its j-th option are read.
Encode(rec, isolated) ==
    LET S == StateIds(rec.state)
        Start(k) == Len(S) + Len(FlattenSeq([m \in 1..(k - 1) |-> Branch(rec.questions[m])]))
        Questions == DOMAIN rec.questions
    IN  [ tokens |-> Piece(S, 0, 0, OPT_NONE) \o
                     FlattenSeq([k \in Questions |->
                                BranchTokens(rec.questions[k], k, Len(S), isolated)]),
          decide |-> [k \in Questions |-> Start(k) + Len(Branch(rec.questions[k]))],
          opts |-> [k \in Questions |-> [j \in DOMAIN rec.questions[k].options |->
                        Start(k) + Len(Instructions(rec.questions[k]))
                                 + SpansBefore(rec.questions[k], j + 1)]] ]

-----------------------------------------------------------------------------
(* One batch                                                                *)

PadToken == [id |-> "pad", seg |-> -1, pos |-> 0, opt |-> OPT_NONE]

\* All rows as long as the longest, or as its bucket.
PadRows(rows) ==
    LET Longest == Max({Len(rows[b]) : b \in DOMAIN rows})
        L == ((Longest + Bucket - 1) \div Bucket) * Bucket
    IN  [b \in DOMAIN rows |-> rows[b] \o [i \in 1..(L - Len(rows[b])) |-> PadToken]]

\* Mistake: a token attends to every question before its own.
MutAttends(row, i, j, isolated) ==
    \/ i = j
    \/ /\ j < i /\ row[j].seg # -1
       /\ isolated =>
            row[j].opt < 0 \/ row[i].opt = OPT_DECIDE \/ row[i].opt = row[j].opt

\* branch_mask_batch: to the state and to its own question, never ahead, never
\* to a pad; in isolation a token of an option sees no other option.
Attends(row, i, j, isolated) ==
    \/ i = j
    \/ /\ j < i /\ row[j].seg # -1
       /\ row[j].seg \in {0, row[i].seg}
       /\ isolated =>
            row[j].opt < 0 \/ row[i].opt = OPT_DECIDE \/ row[i].opt = row[j].opt

\* The places that place `i` depends on through all layers, from the last to the
\* first, where sees[n] is what place n attends to before it.
Reach(i, sees) ==
    FoldLeft(LAMBDA reach, n : IF n \in reach THEN reach \union sees[n] ELSE reach,
             {i}, [k \in 1..i |-> i + 1 - k])

\* What is there: tokens with their positions.
Seen(row, i, sees) == {<<row[n].id, row[n].pos>> : n \in Reach(i, sees)}

\* A question is read at <decide> and at the end of each option.
Readout(row, decide, opts, sees) ==
    [j \in DOMAIN opts |-> [decide |-> Seen(row, decide, sees),
                            option |-> Seen(row, opts[j], sees)]]

\* forward_batch, attention only: whole records, with the branch mask.
ForwardPacked(encs, isolated) ==
    LET padded == PadRows([b \in DOMAIN encs |-> encs[b].tokens])
    IN  [b \in DOMAIN encs |-> [k \in DOMAIN encs[b].decide |->
            LET sees == [i \in DOMAIN padded[b] |->
                            {j \in 1..(i - 1) : Attends(padded[b], i, j, isolated)}]
            IN  Readout(padded[b], encs[b].decide[k], encs[b].opts[k], sees)]]

\* rows_of: each question behind the state, with its readouts moved along.
RowsOf(enc) ==
    LET S == SubSeq(enc.tokens, 1, Cardinality({i \in DOMAIN enc.tokens : enc.tokens[i].seg = 0}))
        Start(k) == IF k = 1 THEN Len(S) ELSE enc.decide[k - 1]
    IN  [k \in DOMAIN enc.decide |->
            [ tokens |-> S \o SubSeq(enc.tokens, Start(k) + 1, enc.decide[k]),
              decide |-> Len(S) + enc.decide[k] - Start(k),
              opts |-> [j \in DOMAIN enc.opts[k] |-> Len(S) + enc.opts[k][j] - Start(k)] ]]

\* Every readout is appended to those of the record it came from.
HandBack(out, records) ==
    FoldLeft(LAMBDA lists, o : [lists EXCEPT ![o.of] = Append(@, o.read)],
             [b \in records |-> <<>>], out)

\* forward_rows_batch, hybrid backbones: all rows of all records in one causal
\* batch.
ForwardRows(encs) ==
    LET rows == [b \in DOMAIN encs |-> RowsOf(encs[b])]
        flat == FlattenSeq([b \in DOMAIN encs |->
                    [k \in DOMAIN rows[b] |-> [of |-> b, row |-> rows[b][k]]]])
        padded == PadRows([n \in DOMAIN flat |-> flat[n].row.tokens])
        out == [n \in DOMAIN flat |->
                    LET row == flat[n].row
                        sees == [i \in DOMAIN padded[n] |->
                                    {j \in 1..(i - 1) : padded[n][j].seg # -1}]
                    IN  [of |-> flat[n].of,
                         read |-> Readout(padded[n], row.decide, row.opts, sees)]]
    IN  HandBack(out, DOMAIN encs)
=============================================================================
