------------------------------ MODULE Capacity ------------------------------
(***************************************************************************)
(* The limits of decis/schema.py (validate_capacity) on what the laya      *)
(* engine measures (decis/engines/laya.py), beside the truncations that    *)
(* laya's build_sequence applies without a word.  Lengths are in tokens.   *)
(***************************************************************************)
EXTENDS Integers

Larger(x, y) == IF x >= y THEN x ELSE y

-----------------------------------------------------------------------------
\* What a question costs by itself, for its instructions and its options.
BudgetedHead(instructions, options) == options + Larger(instructions, 16)

\* The longest pair of instructions and options; 0 without questions.
IsLongest(longest, Q, ins, opt) ==
    /\ longest \in Nat /\ \A q \in Q : ins[q] + opt[q] <= longest
    /\ longest = 0 \/ \E q \in Q : ins[q] + opt[q] = longest

\* Four separators frame a whole sequence.
SequenceTokens(longest, state) == longest + state + 4

\* The two token limits of validate_capacity; laya has none on the state alone.
Admitted(Q, ins, opt, longest, state, maxLen, headMaxLen) ==
    /\ SequenceTokens(longest, state) <= maxLen
    /\ \A q \in Q : BudgetedHead(ins[q], opt[q]) <= headMaxLen

-----------------------------------------------------------------------------
\* build_sequence keeps the options, the instructions and the state whole.
OptionsKept(options, headMaxLen) == headMaxLen - options >= 16
InstructionsKept(instructions, options, headMaxLen) ==
    instructions <= Larger(8, headMaxLen - options)
StateKept(instructions, options, state, maxLen) ==
    state <= maxLen - (instructions + options + 3) - 1

=============================================================================
