------------------------------ MODULE Evaluators ------------------------------
(* internal/evaluation/evaluation.go: the four local evaluators as functions of *)
(* what they look at. Pattern matching is left out: a response is the numbers   *)
(* of its matches, its words, and whether it is short or of the wrong format.   *)
EXTENDS Budget, SequencesExt

VARIABLE input   \* what is evaluated

Result(score, status, findings) == [score |-> score, status |-> status, findings |-> findings]

atLeastZero(score) == Max({0, score})

PII == Result(IF input.pii > 0 THEN atLeastZero(1000 - input.pii * 250) ELSE 1000,
              IF input.pii > 0 THEN "fail" ELSE "pass",
              input.pii)

\* The count of each word, and the largest count met so far.
countWord(acc, word) ==
    LET n == acc.counts[word] + 1
    IN  [counts |-> [acc.counts EXCEPT ![word] = n], maximum |-> Max({acc.maximum, n})]

maximumCount(words) ==
    FoldLeft(countWord, [counts |-> [w \in Range(words) |-> 0], maximum |-> 0], words).maximum

\* The ratio of maximumCount to the words is above 0.6.
repetitive(words) == 5 * maximumCount(words) > 3 * Len(words) /\ Len(words) >= 8

Points(defect, points) == IF defect THEN points ELSE 0

PassesAbove700(score) == score > 700
Passes(score) == ~(score < 700)

Quality ==
    IF input.words = <<>> THEN Result(0, "fail", 1)
    ELSE LET score == 1000 - Points(input.short, 250) - Points(repetitive(input.words), 300)
                           - Points(input.mismatch, 300)
         IN  Result(atLeastZero(score), IF Passes(score) THEN "pass" ELSE "fail",
                    Points(input.short, 1) + Points(repetitive(input.words), 1) + Points(input.mismatch, 1))

Safety == Result(IF input.blocked > 0 THEN 0 ELSE 1000,
                 IF input.blocked > 0 THEN "fail" ELSE "pass",
                 input.blocked)

\* A threshold that is not positive is unset; int64 addition wraps.
Exceeds(value, threshold) == threshold > 0 /\ value > threshold

Performance ==
    LET measured == <<input.provider, input.total, Minus(input.prompt, -input.completion), input.cost>>
        findings == Cardinality({i \in 1..4 : Exceeds(measured[i], input.limits[i])})
    IN  Result(atLeastZero(1000 - findings * 250), IF findings > 0 THEN "fail" ELSE "pass", findings)

------------------------------------------------------------------------------
(* Occurrences, counted per word instead of in one pass. *)
Occurrences(word) == Cardinality({i \in DOMAIN input.words : input.words[i] = word})

\* The scores mean what their status says, at every boundary: an answer passes for
\* quality exactly when it is not empty and has at most one defect, of which a word
\* that makes up more than three fifths of eight or more is one; it passes for
\* performance exactly when it keeps every threshold that is set; the other two pass
\* without findings only; and a full score is given exactly when nothing was found.
ScoresAreSound ==
    LET wordy == Len(input.words) >= 8 /\ \E w \in Range(input.words) : 10 * Occurrences(w) > 6 * Len(input.words)
        defects == {d \in {"short", "repetition", "mismatch"} :
                      CASE d = "short" -> input.short [] d = "repetition" -> wordy [] OTHER -> input.mismatch}
        tokens == input.prompt + input.completion
        measured == <<input.provider, input.total, tokens, input.cost>>
    IN
    /\ Quality.status = "pass" <=> input.words # <<>> /\ Cardinality(defects) <= 1
    /\ tokens <= MaxInt =>
         (Performance.status = "fail" <=> \E i \in 1..4 : input.limits[i] \in 1..(measured[i] - 1))
    /\ \A r \in {PII, Safety} : r.status = "pass" <=> r.findings = 0
    /\ \A r \in {PII, Quality, Safety, Performance} :
         r.score \in 0..1000 /\ (r.score = 1000 <=> r.findings = 0)
===============================================================================
