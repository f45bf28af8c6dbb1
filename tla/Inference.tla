----------------------------- MODULE Inference -----------------------------
(***************************************************************************)
(* One request from its wire questions to its answers: rendering           *)
(* (decis/render.py), what each engine makes of it (engines/kev.py,        *)
(* laya.py, jeff.py and the vendored models), the forward passes, and the  *)
(* answers (decis/answers.py, service.py).  Scheduler.run lets one request *)
(* at a time into the engine, so one call is modelled after another; the   *)
(* batch is all the questions of a request.                                *)
(*                                                                         *)
(* A text is a sequence of words, or None.  A number comes from the open   *)
(* network: it is any of the Outcomes, and it carries the reading it was   *)
(* computed from, that is, all its weights were applied to.                *)
(***************************************************************************)
EXTENDS KevEncoding

CONSTANTS
    Contents,       \* what clients send: a state and questions
    Words,          \* the words of their texts and the keys of their objects
    Levels,         \* str(0), str(1), ... as far as any client counts
    Codes,          \* jeff's answer codes
    BatchSize,      \* _BATCH_SIZE of jeff.py
    Outcomes,       \* what the networks may give for one, two, ... options
    Fine,           \* a raw probability is a number of Fine-ths,
    Unit,           \* a published one of Unit-ths (PROBABILITY_DECIMALS)
    TiesUp,         \* the fractions <<a, b>> half way between two numbers that round up
    None,           \* a JSON null, or a field that was not sent
    NaN

Total(numbers) == FoldLeft(+, 0, numbers)

Texts == Seq(Words)

Questions ==
    [ qid : Words, type : {"noul", "choice", "score"}, instructions : {None} \cup Texts,
      criteria : Seq([name : Words, value : {None} \cup Texts]) ]

\* What the schema lets through (schema.py:6-14): no null for a state or a level,
\* two halves of a noul, at least one level and one question, no key twice.
ASSUME ContentsAssumption ==
    \A content \in Contents :
        /\ content \in [state : Texts, questions : Seq(Questions)]
        /\ content.questions # <<>>
        /\ IsInjective([i \in DOMAIN content.questions |-> content.questions[i].qid])
        /\ \A q \in Range(content.questions) :
              /\ q.type = "noul" => Len(q.criteria) = 2
              /\ q.type = "choice" => IsInjective([i \in DOMAIN q.criteria |-> q.criteria[i].name])
              /\ q.type = "score" => /\ Len(q.criteria) \in 1..Len(Levels)
                                     /\ \A i \in DOMAIN q.criteria : q.criteria[i].value # None
              /\ q.criteria # <<>> => Len(q.criteria) \in DOMAIN Outcomes

ASSUME NamesAssumption ==
    /\ Levels \in Texts /\ IsInjective(Levels)
    /\ Codes \in Texts

ASSUME BatchAssumption == BatchSize \in Nat \ {0}

\* A softmax adds up to one.
ASSUME OutcomeAssumption ==
    /\ Fine \in Nat \ {0}
    /\ \A n \in DOMAIN Outcomes : \A d \in Outcomes[n] : d \in [1..n -> 0..Fine] /\ Total(d) = Fine

ASSUME UnitAssumption == Unit \in Nat \ {0}

Jeff == INSTANCE JeffDecision

VARIABLES
    engine,     \* what this process runs
    call        \* the request being answered, and how far it came

vars == <<engine, call>>

\* kev's backbones take attention masks, or rows when they are hybrid.
Engines == {"kev", "kev_hybrid", "laya", "jeff"}
IsKev == engine \in {"kev", "kev_hybrid"}

-----------------------------------------------------------------------------
(* Rendering: the options of a wire question, by wire key and description.  *)

\* render_value: null is nothing, and so is a text of blanks.
Render(value) == IF value \in {None, <<" ">>} THEN <<>> ELSE value

Option(name, description) == [name |-> name, description |-> description]

\* Mistake: the two halves are swapped.
MutNoulOptions(no, yes) == <<Option("false", yes), Option("true", no)>>

NoulOptions(no, yes) == <<Option("false", no), Option("true", yes)>>

\* `raw` goes along, the caller's values as they came.
PrepareQuestion(q) ==
    LET text(i) == Render(q.criteria[i].value)
    IN  [ qid |-> q.qid, type |-> q.type, instructions |-> Render(q.instructions), raw |-> q,
          options |->
              CASE q.type = "noul" -> NoulOptions(text(1), text(2))
                [] q.type = "choice" ->
                       [i \in DOMAIN q.criteria |-> Option(q.criteria[i].name, text(i))]
                [] OTHER -> [i \in DOMAIN q.criteria |-> Option(Levels[i], text(i))] ]

-----------------------------------------------------------------------------
(* kev                                                                      *)

OptionText(name, description) ==
    IF description = <<>> THEN <<name>> ELSE <<name, ":">> \o description

\* The wire keys of a noul are not what kev reads; a level has no name at all.
KevQuestion(p) ==
    [ instr |-> p.instructions,
      options |-> [i \in DOMAIN p.options |->
          LET description == p.options[i].description
          IN  CASE p.type = "choice" -> OptionText(p.options[i].name, description)
                [] p.type = "noul" -> OptionText(<<"no", "yes">>[i], description)
                [] OTHER -> description] ]

KevRecord(state, p) == [state |-> state, questions |-> <<KevQuestion(p)>>]

\* measure: the plain tokens of the state, and encode's own of a question.
KevFits(state, p) ==
    /\ 1 + Len(state) <= MaxState
    /\ 1 + Len(state) + Len(Branch(KevQuestion(p))) <= MaxBranch

-----------------------------------------------------------------------------
(* laya                                                                     *)

\* An empty description is passed as None.
Internal(p) ==
    [ t |-> p.type, ins |-> p.instructions,
      crit |-> [i \in DOMAIN p.options |->
          LET o == p.options[i]
          IN  IF p.type # "score" /\ o.description = <<>> THEN Option(o.name, None) ELSE o] ]

\* render_options decorates the descriptions.
RenderOptions(internal) ==
    [i \in DOMAIN internal.crit |->
        LET o == internal.crit[i]
        IN  CASE internal.t = "score" -> <<"level", o.name, ":">> \o o.description
              [] internal.t = "noul" /\ o.description = None -> <<o.name, ":", "statement">>
              [] OTHER -> IF o.description = None THEN <<o.name>>
                          ELSE <<o.name, ":">> \o o.description]

\* build_sequence within its budgets, so that every option has its marker; what
\* it does beyond them, and the gate in front of it, are Capacity's subject.
BuildSequence(state, internal) ==
    LET spans == [i \in DOMAIN internal.crit |-> <<"[MASK]">> \o RenderOptions(internal)[i]]
        head == <<"[CLS]", internal.t, "question:">> \o internal.ins \o <<"[SEP]">>
    IN  [ ids |-> head \o FlattenSeq(spans) \o <<"[SEP]">> \o state \o <<"[SEP]">>,
          markers |-> [i \in DOMAIN spans |->
                          Len(head) + Len(FlattenSeq(SubSeq(spans, 1, i - 1))) + 1],
          qtype |-> internal.t ]

\* collate_items: one row per item, padded at the end, a mask over the pads.
Collate(rows) ==
    LET L == Max({Len(rows[b].ids) : b \in DOMAIN rows})
    IN  [b \in DOMAIN rows |-> [i \in DOMAIN rows[b].ids |-> <<rows[b].ids[i]>>]
                                  \o [i \in 1..(L - Len(rows[b].ids)) |-> <<>>]]

\* Attention in both directions, a logit per marker; the temperature is that
\* of the question's type and option count.
LayaForward(rows) ==
    LET ids == Collate(rows)
    IN  [b \in DOMAIN rows |-> [i \in DOMAIN rows[b].markers |->
            [ marker |-> rows[b].markers[i],
              from |-> {<<ids[b][n][1], n>> : n \in {m \in DOMAIN ids[b] : ids[b][m] # <<>>}},
              temperature |-> <<rows[b].qtype, Len(rows[b].markers)>> ]]]
-----------------------------------------------------------------------------
(* What predict prepares, and what it reads in one forward pass.            *)

Rows(items, content) ==
    LET state == Render(content.state)
    IN  [i \in DOMAIN items |->
            CASE IsKev -> Encode(KevRecord(state, items[i]), FALSE)
              [] engine = "laya" -> BuildSequence(state, Internal(items[i]))
              [] OTHER -> [state |-> content.state, question |-> items[i].raw]]

\* jeff takes the rows in chunks, the others all at once.  Every kev record
\* holds one question.
Readings(rows, done) ==
    CASE engine = "kev" -> [b \in DOMAIN rows |-> ForwardPacked(rows, FALSE)[b][1]]
      [] engine = "kev_hybrid" -> [b \in DOMAIN rows |-> ForwardRows(rows)[b][1]]
      [] engine = "laya" -> LayaForward(rows)
      [] OTHER -> Jeff!Distributions(Jeff!Prepare(Jeff!Chunk(rows, done)))

InputTokens(rows) ==
    CASE IsKev -> Total([b \in DOMAIN rows |-> Len(rows[b].tokens)])
      [] engine = "laya" -> Total([b \in DOMAIN rows |-> Len(rows[b].ids)])
      [] OTHER -> Total([c \in 1..((Len(rows) + BatchSize - 1) \div BatchSize) |->
                            Jeff!Prepare(Jeff!Chunk(rows, (c - 1) * BatchSize)).tokens])

-----------------------------------------------------------------------------
(* answers.py                                                               *)

\* Python's round goes to the nearest.  It sees the double that stands for a / b,
\* which may lie on either side of a tie, and takes the even neighbour only of a
\* tie that a double can be: which way a tie goes is left open.
Round(a, b) ==
    LET rest == 2 * (a % b)
    IN  IF rest > b \/ (rest = b /\ <<a, b>> \in TiesUp) THEN a \div b + 1 ELSE a \div b

RoundProbs(values) == [i \in DOMAIN values |-> Round(values[i] * Unit, Fine)]

Clamp(a, b) == IF a < 0 THEN 0 ELSE IF a > Unit * b THEN Unit ELSE Round(a, b)

\* How far the winner is above the uniform baseline.
ChoiceConfidence(published) ==
    LET k == Len(published)
    IN  IF k <= 1 THEN Unit ELSE Clamp(k * Max(Range(published)) - Unit, k - 1)

\* Ties go to the earliest.
Argmax(values) ==
    CHOOSE i \in DOMAIN values : \A j \in DOMAIN values :
        values[j] <= values[i] /\ (values[j] = values[i] => i <= j)

Keys(p) == [i \in DOMAIN p.options |-> p.options[i].name]

\* Published numbers by wire key, each with what it was read from.  A noul has
\* one only; the confidence of a score is an entropy, and left out.
Answer(p, probabilities, choice, confidence, score) ==
    [ type |-> p.type, probabilities |-> probabilities,
      choice |-> choice, confidence |-> confidence, score |-> score ]

ByKey(p, published, out, shown) ==
    [key \in {Keys(p)[i] : i \in shown} |->
        LET i == CHOOSE n \in shown : Keys(p)[n] = key
        IN  [p |-> published[i], read |-> out.reading[i]]]

\* Mistake: the choice is made before the rounding.
MutWinner(out) == Argmax(out.values)

\* The choice is made from what is published.
Winner(out) == Argmax(RoundProbs(out.values))

BuildAnswer(p, out) ==
    LET published == RoundProbs(out.values)
        all == ByKey(p, published, out, DOMAIN published)
    IN  CASE p.type = "noul" -> Answer(p, ByKey(p, published, out, {2}), None, None, None)
          [] p.type = "choice" ->
                 Answer(p, all, Keys(p)[Winner(out)], ChoiceConfidence(published), None)
          [] OTHER -> Answer(p, all, None, None,
                             Total([i \in DOMAIN published |-> (i - 1) * published[i]]))

-----------------------------------------------------------------------------
(* One request                                                              *)

NoResponse == [code |-> 0, cause |-> "none", answers |-> <<>>, native |-> None, tokens |-> 0]

Idle == [at |-> "idle", content |-> None, items |-> <<>>, rows |-> <<>>,
         predicted |-> <<>>, response |-> NoResponse]

Init == engine \in Engines /\ call = Idle

\* What validate_capacity lets through, a choice only if there is something to
\* choose from; laya's limits are Capacity's subject.
Admitted(content) ==
    LET items == [i \in DOMAIN content.questions |-> PrepareQuestion(content.questions[i])]
    IN  \A i \in DOMAIN items :
            /\ items[i].options # <<>>
            /\ IsKev => KevFits(Render(content.state), items[i])
            /\ engine = "jeff" => Jeff!HasCodes(items[i].raw)

At(step) == call.at = step /\ UNCHANGED engine

Ask ==
    /\ At("idle")
    /\ \E content \in Contents :
          /\ Admitted(content)
          /\ call' = [Idle EXCEPT !.at = "prepare", !.content = content]

Fail(code, cause) ==
    call' = [call EXCEPT !.at = "answered",
                         !.response = [NoResponse EXCEPT !.code = code, !.cause = cause]]

\* prepare_request, and one work item per question.
Prepare ==
    /\ At("prepare")
    /\ call' = [call EXCEPT !.at = "encode",
            !.items = [i \in DOMAIN call.content.questions |->
                          PrepareQuestion(call.content.questions[i])]]

\* What encode refuses is an InvalidRequestError, and in the scheduler's hands
\* that is a failure of the engine like any other.
Encoding ==
    /\ At("encode")
    /\ LET state == Render(call.content.state)
       IN  IF IsKev /\ \E p \in Range(call.items) : EncodeRaises(KevRecord(state, p))
           THEN Fail(500, "too_long")
           ELSE call' = [call EXCEPT !.at = "forward", !.rows = Rows(call.items, call.content)]

\* softmax: a distribution, or no numbers at all when a logit is not finite.
Softmax(reading) ==
    LET n == Len(reading)
    IN  {[reading |-> reading, values |-> d] :
            d \in Outcomes[n] \cup {[i \in 1..n |-> NaN]}}

\* One pass over the rows whose turn it is.
Forward ==
    /\ At("forward")
    /\ LET readings == Readings(call.rows, Len(call.predicted))
           Numbered == {s \in [DOMAIN readings -> UNION {Softmax(r) : r \in Range(readings)}] :
                            \A b \in DOMAIN readings : s[b] \in Softmax(readings[b])}
       IN  \E chunk \in Numbered :
              call' = [call EXCEPT
                  !.predicted = @ \o chunk,
                  !.at = IF Len(call.predicted) + Len(chunk) < Len(call.rows)
                         THEN "forward" ELSE "build"]

\* Out of memory: kev and laya ask for a smaller request, jeff has failed.
ForwardFails ==
    /\ At("forward")
    /\ IF engine = "jeff" THEN Fail(500, "forward") ELSE Fail(503, "forward")

\* validate_distribution
Valid(p, out) == Len(out.values) = Len(p.options) /\ NaN \notin Range(out.values)

\* zip(strict=True), the scheduler's count, and then the answers by question.
Build ==
    /\ At("build")
    /\ IF Len(call.predicted) # Len(call.items) THEN Fail(500, "count")
       ELSE IF \E i \in DOMAIN call.items : ~Valid(call.items[i], call.predicted[i])
       THEN Fail(500, "distribution")
       ELSE LET ByQuestion(Of(_)) ==
                    [qid \in {p.qid : p \in Range(call.items)} |->
                        Of(CHOOSE i \in DOMAIN call.items : call.items[i].qid = qid)]
                AnswerOf(i) == BuildAnswer(call.items[i], call.predicted[i])
                NativeOf(i) == call.predicted[i].reading
            IN  call' = [call EXCEPT
                    !.at = "answered",
                    !.response = [ code |-> 200, cause |-> "answered",
                                   answers |-> ByQuestion(AnswerOf),
                                   native |-> IF engine = "laya"
                                              THEN ByQuestion(NativeOf) ELSE None,
                                   tokens |-> InputTokens(call.rows) ]]

\* Mistake: what was prepared for this request is left for the next.
MutTake == At("answered") /\ call' = [Idle EXCEPT !.rows = call.rows]

Take == At("answered") /\ call' = Idle

Next == Ask \/ Prepare \/ Encoding \/ Forward \/ ForwardFails \/ Build \/ Take

Spec == Init /\ [][Next]_vars

-----------------------------------------------------------------------------
(* What a question is read as when nothing else is asked: written from the  *)
(* layouts the engines document, without batches, masks or padding.         *)

Placed(words) == {<<words[n], n>> : n \in DOMAIN words}

\* Everything up to the end of the option, and up to <decide>.
KevAlone(state, p, j) ==
    LET q == KevQuestion(p)
        row == StateIds(state) \o Branch(q)
        end == Len(StateIds(state)) + Len(Instructions(q)) + SpansBefore(q, j + 1)
        upTo(n) == {<<row[m], m - 1>> : m \in 1..n}
    IN  [decide |-> upTo(Len(row)), option |-> upTo(end)]

LayaAlone(state, p, j) ==
    LET row == BuildSequence(state, Internal(p))
    IN  [marker |-> row.markers[j], from |-> Placed(row.ids),
         temperature |-> <<p.type, Len(p.options)>>]

JeffAlone(state, p, j) ==
    LET prompt == Jeff!Prompt([state |-> state, question |-> p.raw])
    IN  [code |-> Codes[j], from |-> {<<prompt[n], Len(prompt) - n>> : n \in DOMAIN prompt}]

ReadAlone(p, j) ==
    LET state == Render(call.content.state)
    IN  CASE IsKev -> KevAlone(state, p, j)
          [] engine = "laya" -> LayaAlone(state, p, j)
          [] OTHER -> JeffAlone(call.content.state, p, j)

TokensAlone(p) ==
    LET state == Render(call.content.state)
    IN  CASE IsKev -> Len(StateIds(state)) + Len(Branch(KevQuestion(p)))
          [] engine = "laya" -> Len(BuildSequence(state, Internal(p)).ids)
          [] OTHER -> Len(Jeff!Prompt([state |-> call.content.state, question |-> p.raw]))

Answered == call.response.code = 200

TypeOK ==
    /\ engine \in Engines
    /\ call.at \in {"idle", "prepare", "encode", "forward", "build", "answered"}
    /\ call.content \in Contents \cup {None}
    /\ call.response.code \in {0, 200, 500, 503}
    /\ call.response.tokens \in Nat
    /\ Len(call.predicted) <= Len(call.rows)
    /\ call.at = "idle" <=> call = Idle

\* A question is answered as if it were asked alone: neither the other questions
\* of its request, nor the padding, nor the chunk it fell into reach a number, a
\* native confidence or the tokens that are billed (kev.py:488-490, base.py:81-83).
BatchIsInvisible ==
    Answered =>
        /\ \A i \in DOMAIN call.items :
              LET p == call.items[i]
                  answer == call.response.answers[p.qid]
              IN  /\ \A j \in DOMAIN p.options :
                        p.options[j].name \in DOMAIN answer.probabilities =>
                            answer.probabilities[p.options[j].name].read = ReadAlone(p, j)
                  /\ engine = "laya" =>
                        call.response.native[p.qid] =
                            [j \in DOMAIN p.options |-> ReadAlone(p, j)]
        /\ call.response.tokens = Total([i \in DOMAIN call.items |-> TokensAlone(call.items[i])])

\* The words an option is shown with, found again in what its number was read from.
Word(from, n) == (CHOOSE w \in from : w[2] = n)[1]
Places(from, words) == {w[2] : w \in {v \in from : v[1] \in words}}
Between(from, first, last) == [n \in 1..(last - first - 1) |-> Word(from, first + n)]

Shown(read) ==
    CASE IsKev ->
            Between(read.option, Max(Places(read.option, {"<opt>"})),
                                 Max(Places(read.option, {"</opt>"})))
      [] engine = "laya" ->
            Between(read.from, read.marker,
                    Min({n \in Places(read.from, {"[MASK]", "[SEP]"}) : n > read.marker}))
      [] OTHER ->
            LET code == CHOOSE n \in Places(read.from, {read.code}) : TRUE
                stop == Max({n \in Places(read.from, Range(Codes) \cup {"Return"}) : n < code})
            IN  [n \in 1..(code - stop - 2) |-> Word(read.from, code - 1 - n)]

\* What the caller wrote for a wire key.
Wrote(q, key) ==
    LET i == CASE q.type = "noul" -> IF key = "true" THEN 2 ELSE 1
               [] q.type = "score" -> CHOOSE n \in DOMAIN Levels : Levels[n] = key
               [] OTHER -> CHOOSE n \in DOMAIN q.criteria : q.criteria[n].name = key
    IN  Render(q.criteria[i].value)

\* What is published under a wire key was read at the words the caller wrote for
\* it, a choice at its name and then its words, on the way through names, levels,
\* "no" and "yes", answer codes and markers (answers.py:30-36, kev.py:529-544,
\* laya.py:556-574, _jeff_vendor/model.py:50-57).
ReadUnderItsKey ==
    Answered => \A i \in DOMAIN call.content.questions :
        LET q == call.content.questions[i]
            probabilities == call.response.answers[q.qid].probabilities
            Spelled(text) == IF IsKev THEN UserTokens(text) ELSE text
        IN  \A key \in DOMAIN probabilities :
                LET shown == Shown(probabilities[key].read)
                IN  /\ q.type = "choice" => IsPrefix(Spelled(<<key>>), shown)
                    /\ IsSuffix(Spelled(Wrote(q, key)), shown)

\* "option boundaries are unforgeable" (_kev_vendor/model.py:23-25): whatever the
\* texts spell, a row has the delimiters of its options and no other.
OptionsUnforgeable ==
    IsKev => \A i \in DOMAIN call.rows :
        LET tokens == call.rows[i].tokens
            ids == [n \in DOMAIN tokens |-> tokens[n].id]
            Count(d) == Cardinality({n \in DOMAIN ids : ids[n] = d})
            K == Len(call.items[i].options)
        IN  /\ Count("<opt>") = K /\ Count("</opt>") = K
            /\ \A d \in {"<state>", "<q>", "<decide>"} : Count(d) = 1
            /\ \A j \in 1..K : ids[call.rows[i].opts[1][j]] = "</opt>"

\* One record of all the questions is read as one record per question is, packed
\* under the mask or split into rows (_kev_vendor/model.py:118-121, 237); and with
\* isolated options their order does not matter (39-40).
FormsAgree ==
    IsKev /\ call.at = "encode" =>
        LET state == Render(call.content.state)
            questions == [i \in DOMAIN call.items |-> KevQuestion(call.items[i])]
            record == [state |-> state, questions |-> questions]
            ones == [i \in DOMAIN questions |->
                        Encode([state |-> state, questions |-> <<questions[i]>>], FALSE)]
            turned == [i \in DOMAIN questions |->
                          [questions[i] EXCEPT !.options = Reverse(@)]]
            packed == ForwardPacked(<<Encode(record, FALSE)>>, FALSE)[1]
            isolated(qs) ==
                ForwardPacked(<<Encode([record EXCEPT !.questions = qs], TRUE)>>, TRUE)[1]
        IN  ~EncodeRaises(record) =>
                /\ ForwardRows(<<Encode(record, FALSE)>>)[1] = packed
                /\ [i \in DOMAIN ones |-> ForwardPacked(ones, FALSE)[i][1]] = packed
                /\ \A i \in DOMAIN questions :
                      isolated(turned)[i] = Reverse(isolated(questions)[i])

\* Clients recompute an answer from its own numbers: the choice is the first of the
\* largest published ones, the score is their expected level, a confidence is 1 for
\* a certain option and never outside (answers.py:10-16).  For equal options it is
\* 0 or the last decimal, not always 0 as answers.py:46 has it: what rounding adds
\* to the share of seven options, and of 160, is rounded up once more.
AnswersAddUp ==
    Answered => \A i \in DOMAIN call.items :
        LET p == call.items[i]
            answer == call.response.answers[p.qid]
            P(j) == answer.probabilities[Keys(p)[j]].p
            Options == DOMAIN p.options
        IN  CASE p.type = "choice" ->
                    \E w \in Options :
                        /\ answer.choice = Keys(p)[w]
                        /\ \A j \in Options : P(j) < P(w) \/ (P(j) = P(w) /\ w <= j)
                        /\ answer.confidence \in 0..Unit
                        /\ P(w) = Unit => answer.confidence = Unit
                        /\ (\A j \in Options : P(j) = P(w)) /\ Len(p.options) > 1 =>
                              answer.confidence <= 1
              [] p.type = "score" ->
                    answer.score = Total([j \in Options |-> (j - 1) * P(j)])
              [] OTHER -> DOMAIN answer.probabilities = {"true"} /\ P(2) \in 0..Unit

\* A request is answered with exactly its questions and its options, or not at all
\* and for a reason: a state that encode refused, a pass that failed or a number
\* that is none (scheduler.py:262-269, base.py:221-232).
AllOrNothing ==
    call.at = "answered" =>
        LET qids == {q.qid : q \in Range(call.content.questions)}
            broken == \E out \in Range(call.predicted) : NaN \in Range(out.values)
        IN  IF Answered
            THEN /\ ~broken /\ DOMAIN call.response.answers = qids
                 /\ \A p \in Range(call.items) : p.type # "noul" =>
                       DOMAIN call.response.answers[p.qid].probabilities = Range(Keys(p))
            ELSE /\ call.response.answers = <<>>
                 /\ \/ call.response.cause \in {"too_long", "forward"}
                    \/ call.response.cause = "distribution" /\ broken
=============================================================================
