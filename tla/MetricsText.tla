----------------------------- MODULE MetricsText -----------------------------
(***************************************************************************)
(* The metrics parser of src/telemetry.rs, fed an exposition line by line, *)
(* against what the exposition says.                                       *)
(*                                                                         *)
(* An engine writes samples in any order: a name, perhaps a label set,     *)
(* whose quoted values may hold braces and escaped quotes, a value, and    *)
(* perhaps a timestamp or a comment.  A value is finite or not, and counts *)
(* halves, so that not every number is whole.                              *)
(***************************************************************************)
EXTENDS Integers, Sequences, FiniteSets

CONSTANTS MaxLines,     \* bound: samples of one exposition
          MaxOdd,       \* bound: those among them that are not ordinary
          MaxExact      \* MAX_EXACT_F64_INTEGER, in halves

ASSUME TextAssumption == {MaxLines, MaxOdd, MaxExact} \subseteq Nat

VARIABLES
    parser,     \* the locals of parse_mistralrs_metrics
    told        \* meaning: what each metric was given, in order

textVars == <<parser, told>>

(* tokens stands for the three single counters, which share their code.    *)
Gauges == {"running", "waiting", "capacity", "kv_used", "kv_total"}
Positive == {"capacity", "kv_total"}
Metrics == Gauges \cup {"tokens", "completions"}
None == [finite |-> FALSE, halves |-> 0]
Number(n) == [finite |-> TRUE, halves |-> n]

(* Label sets as bytes: none, a plain value, one with a brace, one with an *)
(* escaped quote before its brace; and one that does not end.              *)
Unlabelled == <<>>
LabelSets == {<<"open", "q", "v", "q", "close">>, <<"open", "q", "close", "q", "close">>,
              <<"open", "q", "\\", "q", "close", "q", "close">>}
Unterminated == <<"open", "q", "close">>

(* The lines an engine writes: ordinary but for one thing.                 *)
Values == {None} \cup {Number(n) : n \in {-2, 0, 1, 2, MaxExact + 2}}
Ordinary == [labels |-> Unlabelled, value |-> Number(2), rest |-> ""]
Bodies == {[Ordinary EXCEPT !.labels = l] : l \in {Unterminated} \cup LabelSets}
          \cup {[Ordinary EXCEPT !.value = v] : v \in Values}
          \cup {[Ordinary EXCEPT !.rest = r] : r \in {"timestamp", "comment", "junk"}}

-----------------------------------------------------------------------------
(* parse_sample_line and the numbers.                                      *)

(* A byte of a label set: quotes, escapes, and the brace that ends it.     *)
ScanLabel(s, b) ==
    IF s.end # 0 THEN s
    ELSE [at |-> s.at + 1,
          escaped |-> s.quoted /\ ~s.escaped /\ b = "\\",
          quoted |-> IF s.quoted THEN s.escaped \/ b # "q" ELSE b = "q",
          end |-> IF ~s.quoted /\ b = "close" THEN s.at ELSE 0]

(* The index of the brace that closes the set, or 0.                       *)
FindLabelSetEnd(bytes) ==
    LET scan[i \in 0 .. Len(bytes)] ==
            IF i = 0 THEN [at |-> 1, escaped |-> FALSE, quoted |-> FALSE, end |-> 0]
            ELSE ScanLabel(scan[i - 1], bytes[i])
    IN scan[Len(bytes)].end

(* A label set must end where the white space before the value begins.     *)
ParseSampleLine(line) ==
    /\ line.labels = <<>> \/ FindLabelSetEnd(line.labels) = Len(line.labels)
    /\ line.rest # "junk"

ParseGaugeCount(value, positive) ==
    /\ value.finite /\ value.halves >= 0 /\ value.halves % 2 = 0
    /\ positive => value.halves # 0
    /\ value.halves <= MaxExact

ParseCounter(value) == value.finite /\ value.halves >= 0

-----------------------------------------------------------------------------
(* One sample.                                                             *)

Reject(p) == [p EXCEPT !.rejected = TRUE]

(* Mutant: a second sample of a gauge replaces the first.                  *)
ObserveGaugeAgain(p, m, line) ==
    IF line.labels # <<>> \/ ~ParseGaugeCount(line.value, m \in Positive) THEN Reject(p)
    ELSE [p EXCEPT !.gauge[m] = line.value]

(* RequiredGauge::observe                                                  *)
ObserveGauge(p, m, line) ==
    IF \/ p.gauge[m] # None
       \/ line.labels # <<>>
       \/ ~ParseGaugeCount(line.value, m \in Positive)
    THEN Reject(p)
    ELSE [p EXCEPT !.gauge[m] = line.value]

(* OptionalSingleCounter::observe                                          *)
ObserveSingle(p, line) ==
    IF p.tokens.value # None \/ line.labels # <<>>
    THEN [p EXCEPT !.tokens = [value |-> None, invalid |-> TRUE]]
    ELSE IF ParseCounter(line.value) THEN [p EXCEPT !.tokens.value = line.value]
    ELSE [p EXCEPT !.tokens.invalid = TRUE]

(* OptionalCounterFamily::observe                                          *)
ObserveFamily(p, line) ==
    IF ~ParseCounter(line.value) \/ line.labels \in p.completions.series
    THEN [p EXCEPT !.completions.invalid = TRUE]
    ELSE [p EXCEPT !.completions.series = @ \cup {line.labels},
                   !.completions.total = @ + line.value.halves]

(* A line that does not parse spoils its metric.                           *)
Malformed(p, m) ==
    CASE m \in Gauges      -> Reject(p)
      [] m = "tokens"      -> [p EXCEPT !.tokens = [value |-> None, invalid |-> TRUE]]
      [] m = "completions" -> [p EXCEPT !.completions.invalid = TRUE]

Observe(p, m, line) ==
    IF m \notin Metrics THEN p
    ELSE IF ~ParseSampleLine(line) THEN Malformed(p, m)
    ELSE CASE m \in Gauges      -> ObserveGauge(p, m, line)
           [] m = "tokens"      -> ObserveSingle(p, line)
           [] m = "completions" -> ObserveFamily(p, line)

-----------------------------------------------------------------------------
(* The end of the exposition.                                              *)

Rejected == [accepted |-> FALSE]
Accepted(gauge, tokens, completions) ==
    [accepted |-> TRUE, gauge |-> gauge, tokens |-> tokens, completions |-> completions]

Finish(p) ==
    IF \/ p.rejected
       \/ p.gauge["running"] = None \/ p.gauge["waiting"] = None
       \/ (p.gauge["kv_used"] = None) # (p.gauge["kv_total"] = None)
    THEN Rejected
    ELSE Accepted(p.gauge,
                  IF p.tokens.invalid THEN None ELSE p.tokens.value,
                  IF p.completions.invalid \/ p.completions.series = {} THEN None
                  ELSE Number(p.completions.total))

-----------------------------------------------------------------------------
(* The engine writes a sample, and the parser reads it unless it has       *)
(* already returned an error.                                              *)

TextInit ==
    /\ parser = [rejected |-> FALSE, gauge |-> [m \in Gauges |-> None],
                 tokens |-> [value |-> None, invalid |-> FALSE],
                 completions |-> [total |-> 0, series |-> {}, invalid |-> FALSE]]
    /\ told = [m \in Metrics |-> <<>>]

(* What a line says of its metric: a value of a series, or nonsense.       *)
Says(line) ==
    LET sense == line.labels # Unterminated /\ line.rest # "junk" IN
    [sense |-> sense, labels |-> IF sense THEN line.labels ELSE <<>>, value |-> line.value]

Odd(said) == ~said.sense \/ said.value # Number(2)

Written == UNION {{m} \X DOMAIN told[m] : m \in Metrics}
OddOnes == {w \in Written : Odd(told[w[1]][w[2]])}

ReadLine ==
    /\ ~parser.rejected
    /\ Cardinality(Written) < MaxLines
    /\ \E m \in Metrics \cup {"other"},
          line \in IF Cardinality(OddOnes) < MaxOdd THEN Bodies ELSE {b \in Bodies : ~Odd(Says(b))} :
        /\ parser' = Observe(parser, m, line)
        /\ told' = IF m \in Metrics THEN [told EXCEPT ![m] = Append(@, Says(line))] ELSE told

TextNext == ReadLine

TextSpec == TextInit /\ [][TextNext]_textVars

-----------------------------------------------------------------------------
(* What the exposition means, metric by metric, whatever its order.        *)

(* A gauge that is told is told once, bare, as an exact count.             *)
GoodGauge(m, said) ==
    \/ said = <<>>
    \/ /\ Len(said) = 1 /\ said[1].sense
       /\ said[1].labels = Unlabelled
       /\ said[1].value \in {Number(2 * n) : n \in (IF m \in Positive THEN 1 ELSE 0) .. MaxExact \div 2}

ToldGauge(said) == IF said = <<>> THEN None ELSE said[1].value

Countable(said) == \A i \in DOMAIN said :
    said[i].sense /\ said[i].value.finite /\ said[i].value.halves >= 0

(* A counter of one series is told once, bare.                             *)
GoodSingle(said) == Countable(said) /\ Len(said) = 1 /\ said[1].labels = Unlabelled

(* A counter of several is told each of them once.                         *)
GoodFamily(said) ==
    Countable(said) /\ \A i, j \in DOMAIN said : said[i].labels = said[j].labels => i = j

Total(said) ==
    LET sum[i \in 0 .. Len(said)] == IF i = 0 THEN 0 ELSE sum[i - 1] + said[i].value.halves
    IN sum[Len(said)]

ToldTokens == IF GoodSingle(told["tokens"]) THEN told["tokens"][1].value ELSE None

ToldCompletions ==
    LET said == told["completions"] IN
    IF said # <<>> /\ GoodFamily(said) THEN Number(Total(said)) ELSE None

Meaning ==
    IF /\ \A m \in Gauges : GoodGauge(m, told[m])
       /\ told["running"] # <<>> /\ told["waiting"] # <<>>
       /\ (told["kv_used"] = <<>>) = (told["kv_total"] = <<>>)
    THEN Accepted([m \in Gauges |-> ToldGauge(told[m])], ToldTokens, ToldCompletions)
    ELSE Rejected

(* Running and waiting must each occur exactly once as unlabelled gauges,  *)
(* the KV pair is whole or absent, "an incomplete scrape cannot            *)
(* accidentally look like an idle backend", and a spoilt counter spoils    *)
(* nothing else: what the parser returns is what the lines say, whatever   *)
(* their order.                                                            *)
ParsedAsTold == Finish(parser) = Meaning
=============================================================================
