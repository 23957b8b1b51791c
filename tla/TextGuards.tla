------------------------------ MODULE TextGuards ------------------------------
(***************************************************************************)
(* Redaction (holly/redaction/core.py), the guardrails built on it         *)
(* (holly/guardrails/core.py) and the secret scanner (holly/observability/ *)
(* secret_scanner.py).  A text is a sequence of cells, together with the   *)
(* places where the patterns of the rules match it and the injections it   *)
(* attempts, which null bytes may break up.  A rule replaces the cells of  *)
(* its matches and nothing else.                                           *)
(***************************************************************************)
EXTENDS Naturals, Sequences, SequencesExt

Clean == "not replaced"

\* _CANONICAL_RULES, in their order; the three api_key patterns share a name,
\* and a replacement.
CanonicalRules == <<"email", "credit_card", "openai", "bearer", "generic", "ssn", "phone">>

ApiKeys == {"openai", "bearer", "generic"}

NameOf(rule) == IF rule \in ApiKeys THEN "api_key" ELSE rule

Rules == ToSet(CanonicalRules)

\* The rule that has replaced a cell, and the brackets added around that since.
Cells == [by : Rules \union {Clean}, brackets : Nat]

\* The pattern of a rule matches the cells of a match as long as none of them
\* is replaced.  A match may appear only when the text behind it has gone, as a
\* word boundary does, and its replacement may keep a part of it, as that of a
\* card number keeps its last digits.
Matches(n) == {m \in [rule : Rules, cells : SUBSET (1..n), kept : SUBSET (1..n), behind : SUBSET (1..n)] :
                  m.cells \ m.kept # {}}

Injections == [kind : STRING, nul : BOOLEAN]

\* Texts of n cells.
Texts(n) == [cells : [1..n -> Cells], matches : SUBSET Matches(n), injections : SUBSET Injections]

\* Of the matches of a rule that overlap, a substitution takes the first and
\* goes on behind it, so that no two of them show at once.
IsText(text) ==
    /\ text.cells \in Seq({[by |-> Clean, brackets |-> 0]}) /\ text \in Texts(Len(text.cells))
    /\ \A l, m \in text.matches :
          l.rule = m.rule /\ l.cells \intersect m.cells # {} =>
             l = m \/ l.cells \intersect m.behind # {} \/ m.cells \intersect l.behind # {}

NoText == [cells |-> << >>, matches |-> {}, injections |-> {}]

-----------------------------------------------------------------------------

Replaced(text, i) == text.cells[i].by # Clean

Shows(text, m) ==
    /\ \A i \in m.cells : ~Replaced(text, i)
    /\ \A i \in m.behind : Replaced(text, i)

\* "[secret redacted]" is itself what the generic pattern looks for: a keyword,
\* a separator, and eight characters or more.
Placeholders(text) == {i \in DOMAIN text.cells : text.cells[i].by \in ApiKeys}

Found(text, rule) ==
    \/ \E m \in text.matches : m.rule = rule /\ Shows(text, m)
    \/ rule = "generic" /\ Placeholders(text) # {}

\* subn: a rule replaces what shows of its matches; the generic one replaces the
\* words of a placeholder, too, and leaves the brackets around them.
ApplyRule(text, rule) ==
    LET hit == UNION {m.cells \ m.kept : m \in {l \in text.matches : l.rule = rule /\ Shows(text, l)}} IN
    [text EXCEPT !.cells = [i \in DOMAIN text.cells |->
        IF i \in hit THEN [by |-> rule, brackets |-> 0]
        ELSE IF rule = "generic" /\ i \in Placeholders(text)
             THEN [by |-> text.cells[i].by, brackets |-> text.cells[i].brackets + 1]
             ELSE text.cells[i]]]

\* Mutant: the second rule that applies sees the text as it came in.
redact_from_original(text, rules) ==
    IF rules = << >> THEN text ELSE ApplyRule(text, Last(rules))

\* redact: each rule sees what the rules before it have left.
redact(text, rules) == FoldLeft(ApplyRule, text, rules)

RulesApplied(text, rules) ==
    {NameOf(rules[k]) : k \in {j \in DOMAIN rules : Found(redact(text, SubSeq(rules, 1, j - 1)), rules[j])}}

detect_pii(text, rules) == \E k \in DOMAIN rules : Found(text, rules[k])

-----------------------------------------------------------------------------

\* sanitize_input removes null bytes; detect_injections sees a pattern only
\* where none interrupt it.
sanitize_input(text) ==
    [text EXCEPT !.injections = {[kind |-> j.kind, nul |-> FALSE] : j \in text.injections}]

detect_injections(text) == {j.kind : j \in {i \in text.injections : ~i.nul}}

\* Mutant: the raw input is inspected.
guard_input_raw(raw) ==
    [passed |-> detect_injections(raw) = {}, input |-> sanitize_input(raw), output |-> NoText]

guard_input(raw) ==
    LET sanitized == sanitize_input(raw) IN
    [passed |-> detect_injections(sanitized) = {}, input |-> sanitized, output |-> NoText]

\* An exception of a rule fails the output; nothing of it is returned.
guard_output(raw, rules, fails) ==
    IF fails THEN [passed |-> FALSE, input |-> raw, output |-> NoText]
    ELSE [passed |-> TRUE, input |-> raw, output |-> redact(raw, rules)]

guard_roundtrip(in, out, rules, fails) ==
    LET first == guard_input(in)
        second == guard_output(out, rules, fails) IN
    IF ~first.passed THEN first ELSE [second EXCEPT !.input = first.input]

-----------------------------------------------------------------------------

\* Confidence of the scanner's findings, in percent.
Confidence(name) == CASE name = "api_key" -> 85 [] name = "pii_detected" -> 60 [] OTHER -> 70

Findings(payload) ==
    RulesApplied(payload, CanonicalRules)
       \union (IF detect_pii(payload, CanonicalRules) THEN {"pii_detected"} ELSE {})

\* SecretScanner.scan; config is [enabled, redact, failOpen, min].  The filters
\* decide what is reported, not what is redacted.
scan(payload, config, fails) ==
    LET reported == {f \in Findings(payload) :
                        /\ config.enabled = {} \/ f \in config.enabled
                        /\ Confidence(f) >= config.min} IN
    CASE fails /\ config.failOpen -> [findings |-> {}, payload |-> payload]
      [] fails /\ ~config.failOpen -> [findings |-> {"ScannerError"}, payload |-> NoText]
      [] ~fails -> [findings |-> reported,
                    payload |-> IF config.redact THEN redact(payload, CanonicalRules) ELSE payload]

-----------------------------------------------------------------------------

\* The rule of the first name has run before that of the second.
Before(r, s) == \E j, k \in DOMAIN CanonicalRules : j < k /\ CanonicalRules[j] = r /\ CanonicalRules[k] = s

\* A text in which something matches that did so from the start.
Leaks(text) == \E m \in text.matches : m.behind = {} /\ Shows(text, m)

\* Whatever matches overlap or wait behind one another: a match that still shows
\* after redaction appeared only when its own rule or a later one replaced what
\* was before it, so that nothing that matched from the start is left; what is
\* replaced belongs to a match that no earlier rule had taken a part of; a rule
\* is named exactly if something was found; and where nothing waits and no api
\* key is named, a second pass finds nothing and changes nothing.  (A placeholder
\* for an api key it would find, and wrap once more.)  A text that leaks comes
\* back from the scanner only if it was not to be redacted or the scanner had
\* failed; no injection passes for being broken up by null bytes; no output leaks.
RedactionIsComplete(text, config, fails) ==
    LET done == redact(text, CanonicalRules)
        named == RulesApplied(text, CanonicalRules)
        trip == guard_roundtrip(text, text, CanonicalRules, fails) IN
    /\ \A m \in text.matches : Shows(done, m) =>
          \E i \in m.behind : ~Before(done.cells[i].by, m.rule)
    /\ \A i \in DOMAIN text.cells : Replaced(done, i) =>
          \E m \in text.matches :
             /\ m.rule = done.cells[i].by /\ i \in m.cells \ m.kept
             /\ \A j \in m.cells : Replaced(done, j) => ~Before(done.cells[j].by, m.rule)
    /\ named = {} <=> ~detect_pii(text, CanonicalRules)
    /\ "api_key" \notin named /\ (\A m \in text.matches : m.behind = {}) =>
          ~detect_pii(done, CanonicalRules) /\ redact(done, CanonicalRules) = done
    /\ Leaks(scan(text, config, fails).payload) => ~config.redact \/ fails
    /\ trip.passed => text.injections = {} /\ trip.output = done
    /\ ~Leaks(trip.output)
=============================================================================
