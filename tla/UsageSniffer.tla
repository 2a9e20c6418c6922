---------------------------- MODULE UsageSniffer ----------------------------
(***************************************************************************)
(* The byte scanner of src/usage.rs against the meaning of the body it     *)
(* scans.                                                                  *)
(*                                                                         *)
(* An upstream writes JSON objects, as documents of a stream or as one     *)
(* body, byte by byte, and each byte is fed to the scanner.  feed() keeps  *)
(* nothing but the scanner between bytes, so where the frames of a body    *)
(* are cut makes no difference, and a client may leave after any byte.     *)
(* Names and strings are of any length and hold anything, quotes and       *)
(* backslashes escaped; white space comes between any two tokens.  The     *)
(* brackets and commas of arrays are not counted, so that the upstream may *)
(* also write bodies that no array of JSON matches.                        *)
(*                                                                         *)
(* A letter stands for what the scanner cannot tell apart: "usage" for the *)
(* five letters of the word, "open" and "close" for the braces, "q" for a  *)
(* quote, "w" for white space, "x" for any other byte, "n" and "ull" for   *)
(* null, "t1" and "t2" for a whole member such as "total_tokens": 1.       *)
(***************************************************************************)
EXTENDS Naturals, Sequences, SequencesExt

CONSTANTS MaxDepth,         \* bound: nesting of the upstream's objects
          MaxObjectBytes    \* MAX_OBJECT_BYTES

ASSUME SnifferAssumption == MaxDepth \in Nat \ {0} /\ MaxObjectBytes \in Nat \ {0, 1}

VARIABLES
    sniffer,    \* the scanner: state, what it has buffered, latest
    stack,      \* the upstream's open objects: what each expects next
    string,     \* the name or string that is being written: how it ends so far
    capture,    \* meaning: the outermost usage object that is open
    expected    \* meaning: the counts of the last usage object

sniffVars == <<sniffer, stack, string, capture, expected>>

NEEDLE == <<"q", "usage", "q">>
NULL == <<"n", "ull">>
Counts == {"t1", "t2"}
NoUsage == "none"

(* The buffered object: its length and the counts among its own members.   *)
Empty == [len |-> 0, counts |-> <<>>]
Searching(matched) == [at |-> "searching", matched |-> matched]
Sniffer(state, object, latest) == [state |-> state, object |-> object, latest |-> latest]

-----------------------------------------------------------------------------
(* feed_byte, state by state.                                              *)

Restart(s, byte) ==
    Sniffer(Searching(IF byte = "q" THEN 1 ELSE 0), Empty, s.latest)

Search(s, byte) ==
    LET m == s.state.matched IN
    [s EXCEPT !.state =
        IF byte # NEEDLE[m + 1] THEN Searching(IF byte = "q" THEN 1 ELSE 0)
        ELSE IF m + 1 = Len(NEEDLE) THEN [at |-> "colon"] ELSE Searching(m + 1)]

AwaitColon(s, byte) ==
    CASE byte = ":" -> [s EXCEPT !.state = [at |-> "value"]]
      [] byte = "w" -> s
      [] OTHER      -> Restart(s, byte)

AwaitValue(s, byte) ==
    CASE byte = "open" -> Sniffer([at |-> "capturing", depth |-> 1, in_string |-> FALSE,
                                escaped |-> FALSE], [Empty EXCEPT !.len = 1], s.latest)
      [] byte = "n" -> [s EXCEPT !.state = [at |-> "null", matched |-> 1]]
      [] byte = "w" -> s
      [] OTHER      -> Restart(s, byte)

SkipNull(s, byte) ==
    IF byte # NULL[s.state.matched + 1] THEN Restart(s, byte)
    ELSE IF s.state.matched + 1 = Len(NULL) THEN [s EXCEPT !.state = Searching(0)]
    ELSE [s EXCEPT !.state.matched = @ + 1]

(* Mutant: braces inside strings count.                                    *)
NestingBlind(c, byte) ==
    [c EXCEPT !.depth = CASE byte = "open" -> @ + 1 [] byte = "close" -> @ - 1 [] OTHER -> @]

(* Strings, escapes and depth.                                             *)
Nesting(c, byte) ==
    IF c.in_string
    THEN [c EXCEPT !.escaped = ~@ /\ byte = "\\",
                   !.in_string = @ /\ (c.escaped \/ byte # "q")]
    ELSE [c EXCEPT !.in_string = byte = "q",
                   !.depth = CASE byte = "open" -> @ + 1 [] byte = "close" -> @ - 1 [] OTHER -> @]

(* Mutant: an object with no count replaces one that has some.             *)
FinishUninformed(s, counts) ==
    Sniffer(Searching(0), Empty, IF Len(counts) = 1 THEN counts[1] ELSE NoUsage)

(* serde refuses an object that has a field twice; one that has no count   *)
(* is not informative.                                                     *)
FinishObject(s, counts) ==
    Sniffer(Searching(0), Empty, IF Len(counts) = 1 THEN counts[1] ELSE s.latest)

Capture(s, byte) ==
    LET c == Nesting(s.state, byte)
        own == byte \in Counts /\ s.state.depth = 1
        o == [len |-> s.object.len + 1,
              counts |-> IF own THEN Append(s.object.counts, byte) ELSE s.object.counts]
    IN IF c.depth = 0 THEN FinishObject(s, o.counts)
       ELSE IF o.len >= MaxObjectBytes THEN Sniffer(Searching(0), Empty, s.latest)
       ELSE Sniffer(c, o, s.latest)

FeedByte(s, byte) ==
    CASE s.state.at = "searching" -> Search(s, byte)
      [] s.state.at = "colon"     -> AwaitColon(s, byte)
      [] s.state.at = "value"     -> AwaitValue(s, byte)
      [] s.state.at = "null"      -> SkipNull(s, byte)
      [] s.state.at = "capturing" -> Capture(s, byte)

-----------------------------------------------------------------------------
(* The upstream.  An open object expects a first member, a member, a colon *)
(* (or the colon after "usage", once "named"), a value (or the value of    *)
(* "usage"), the rest of a null, or what follows a member.                 *)

Top == stack[Len(stack)]
Want(w) == [stack EXCEPT ![Len(stack)] = w]
Unquoted == string = "none"
Expecting(W) == Unquoted /\ stack # <<>> /\ Top \in W

Captured == capture.depth # 0
NoCapture == [depth |-> 0, len |-> 0, counts |-> <<>>]
GivesUp == Captured /\ capture.len + 1 >= MaxObjectBytes

(* A byte; the captured object grows, and is given up once it is too large.*)
Write(byte, counts) ==
    /\ sniffer' = FeedByte(sniffer, byte)
    /\ capture' = IF ~Captured THEN capture
                  ELSE IF GivesUp THEN NoCapture
                  ELSE [capture EXCEPT !.len = @ + 1, !.counts = @ \o counts]

(* Text between documents, such as the framing of server-sent events.      *)
Between ==
    /\ stack = <<>>
    /\ \E byte \in {"x", ":"} : Write(byte, <<>>)
    /\ UNCHANGED <<stack, string, expected>>

WriteSpace ==
    /\ Unquoted /\ (stack # <<>> => Top # "null")
    /\ Write("w", <<>>)
    /\ UNCHANGED <<stack, string, expected>>

(* Strings.  One ends in a quote (its first, or an escaped one), in a      *)
(* quote and usage, in anything else, or in the backslash of an escape.    *)
(* What was written while an object was captured is not searched later.    *)
EndsIn(end) == string' = IF GivesUp /\ end # "escape" THEN "other" ELSE end

OpenString ==
    /\ Expecting({"first", "member", "value", "usage"})
    /\ Write("q", <<>>)
    /\ EndsIn("quote")
    /\ UNCHANGED <<stack, expected>>

StringByte ==
    /\ string \notin {"none", "escape"}
    /\ \E byte \in {"x", "usage", "open", "close", ":", "w", "n", "ull", "\\"} :
        /\ Write(byte, <<>>)
        /\ EndsIn(IF byte = "\\" THEN "escape"
                ELSE IF string = "quote" /\ byte = "usage" THEN "usage" ELSE "other")
    /\ UNCHANGED <<stack, expected>>

EscapedByte ==
    /\ string = "escape"
    /\ \E byte \in {"q", "\\", "x"} :
        Write(byte, <<>>) /\ EndsIn(IF byte = "q" THEN "quote" ELSE "other")
    /\ UNCHANGED <<stack, expected>>

(* A name is taken for usage when it is, as it is written, usage or ends   *)
(* in an escaped quote and usage.                                          *)
TakenForUsage == string = "usage" /\ ~Captured

CloseString ==
    /\ string \notin {"none", "escape"}
    /\ Write("q", <<>>)
    /\ stack' = Want(IF Top \notin {"first", "member"} THEN "next"
                     ELSE IF TakenForUsage THEN "named" ELSE "colon")
    /\ string' = "none"
    /\ UNCHANGED expected

(* A byte after which something else is expected.                          *)
Token(byte, w) ==
    /\ Write(byte, <<>>)
    /\ stack' = Want(w)
    /\ UNCHANGED <<string, expected>>

WriteColon ==
    /\ Expecting({"colon", "named"})
    /\ Token(":", IF Top = "named" THEN "usage" ELSE "value")

WriteNull ==
    \/ Expecting({"value", "usage"}) /\ Token("n", "null")
    \/ Expecting({"null"}) /\ Token("ull", "next")

(* A byte of a number or of a word, or a bracket before a value.           *)
WritePlain == Expecting({"value", "usage"}) /\ \E w \in {"value", "next"} : Token("x", w)

(* More of them, a bracket after a value, or the comma before a member or  *)
(* before another value.                                                   *)
WriteComma == Expecting({"next"}) /\ \E w \in {"next", "member", "value"} : Token("x", w)

(* A count, which means something among a usage object's own members.      *)
WriteCount ==
    /\ Expecting({"first", "member"})
    /\ \E t \in Counts : Write(t, IF capture.depth = Len(stack) THEN <<t>> ELSE <<>>)
    /\ stack' = Want("next")
    /\ UNCHANGED <<string, expected>>

OpenDocument ==
    /\ stack = <<>>
    /\ Write("open", <<>>)
    /\ stack' = <<"first">>
    /\ UNCHANGED <<string, expected>>

OpenObject ==
    /\ Expecting({"value", "usage"}) /\ Len(stack) < MaxDepth
    /\ stack' = Append(Want("next"), "first")
    /\ IF Top = "usage"
       THEN /\ sniffer' = FeedByte(sniffer, "open")
            /\ capture' = [depth |-> Len(stack) + 1, len |-> 1, counts |-> <<>>]
       ELSE Write("open", <<>>)
    /\ UNCHANGED <<string, expected>>

(* The end of the captured object is the end of a usage object.            *)
CloseObject ==
    /\ Expecting({"first", "next"})
    /\ stack' = Front(stack)
    /\ IF capture.depth = Len(stack)
       THEN /\ sniffer' = FeedByte(sniffer, "close")
            /\ capture' = NoCapture
            /\ expected' = IF Len(capture.counts) = 1 THEN capture.counts[1] ELSE expected
       ELSE Write("close", <<>>) /\ UNCHANGED expected
    /\ UNCHANGED string

SniffInit ==
    /\ sniffer = Sniffer(Searching(0), Empty, NoUsage)
    /\ stack = <<>> /\ string = "none"
    /\ capture = NoCapture
    /\ expected = NoUsage

SniffNext ==
    \/ Between \/ WriteSpace
    \/ OpenString \/ StringByte \/ EscapedByte \/ CloseString
    \/ WriteColon \/ WriteNull \/ WritePlain \/ WriteComma \/ WriteCount
    \/ OpenDocument \/ OpenObject \/ CloseObject

SniffSpec == SniffInit /\ [][SniffNext]_sniffVars

-----------------------------------------------------------------------------
(* Types; what is buffered stays below the cap.                            *)
SniffTypeOK ==
    /\ sniffer.state.at \in {"searching", "colon", "value", "null", "capturing"}
    /\ sniffer.object.len \in 0 .. MaxObjectBytes - 1
    /\ sniffer.state.at = "capturing" => sniffer.state.depth \in 1 .. MaxDepth
    /\ {sniffer.latest, expected} \subseteq Counts \cup {NoUsage}

(* "Scans a response body for usage objects, keeping the last one seen":   *)
(* after every byte, what the scanner would report is what the body says,  *)
(* whatever strings, escapes, nulls and nested objects it holds.  A usage  *)
(* object is the value of a member whose name, as it is written, is usage: *)
(* a reader that follows no escapes also takes the member whose name ends  *)
(* in an escaped quote and usage for one, and none whose name spells usage *)
(* with escapes.                                                           *)
UsageIsTheLastObject == sniffer.latest = expected
=============================================================================
