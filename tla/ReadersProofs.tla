--------------------------- MODULE ReadersProofs ----------------------------
(***************************************************************************)
(* Proofs about the two readers of text that comes in bytes, the usage     *)
(* sniffer and the metrics parser, for every body and every page their     *)
(* writers can produce and for every value of the limits; and about all    *)
(* four readers together.                                                  *)
(*                                                                         *)
(* The scan of a set of labels is a recursive function; SetInduction of    *)
(* ScreensProofs gives it its value, once for every length.  The rest      *)
(* follows one byte or one line at a time.                                 *)
(*                                                                         *)
(* UsageSniffer: the inductive invariant relates the scanner, which knows  *)
(* one number for the depth, to the stack of objects the body is in.       *)
(* MetricsText: it relates the parser, which keeps a value for each gauge  *)
(* and running sums, to everything the page has said.                      *)
(***************************************************************************)
EXTENDS MCReaders, ScreensProofs

-----------------------------------------------------------------------------
(* One byte.                                                               *)

Caught(d, q, e) == [at |-> "capturing", depth |-> d, in_string |-> q, escaped |-> e]
Object(l, n) == [len |-> l, counts |-> n]
Seeking(m, latest) == Sniffer(Searching(m), Empty, latest)

(* Where the search for the needle is after a byte.                        *)
Found(m, b) ==
    IF m = 2 /\ b = "q" THEN [at |-> "colon"]
    ELSE IF m = 1 /\ b = "usage" THEN Searching(2)
    ELSE IF b = "q" THEN Searching(1) ELSE Searching(0)

(* State::Searching.                                                       *)
LEMMA SearchByte ==
    ASSUME NEW m \in {0, 1, 2}, NEW latest, NEW b
    PROVE  FeedByte(Seeking(m, latest), b) = Sniffer(Found(m, b), Empty, latest)
<1>1. NEEDLE[1] = "q" /\ NEEDLE[2] = "usage" /\ NEEDLE[3] = "q" /\ Len(NEEDLE) = 3
  BY DEF NEEDLE
<1>2. PICK s : s = Seeking(m, latest)
  OBVIOUS
<1>3. s.state = Searching(m) /\ s.state.at = "searching" /\ s.state.matched = m
      /\ s = [state |-> Searching(m), object |-> Empty, latest |-> latest]
  BY <1>2 DEF Seeking, Sniffer, Searching
<1>4. FeedByte(s, b) = Search(s, b)
  BY <1>3 DEF FeedByte
<1>5. PICK st : st = IF b # NEEDLE[m + 1] THEN Searching(IF b = "q" THEN 1 ELSE 0)
                     ELSE IF m + 1 = Len(NEEDLE) THEN [at |-> "colon"] ELSE Searching(m + 1)
  OBVIOUS
<1>6. Search(s, b) = [s EXCEPT !.state = st]
  BY <1>3, <1>5 DEF Search
<1>7. st = Found(m, b)
  <2>1. CASE m = 0
    BY <1>1, <1>5, <2>1 DEF Found
  <2>2. CASE m = 1
    BY <1>1, <1>5, <2>2 DEF Found
  <2>3. CASE m = 2
    BY <1>1, <1>5, <2>3 DEF Found
  <2> QED BY <2>1, <2>2, <2>3
<1>8. [s EXCEPT !.state = st] = Sniffer(st, Empty, latest)
  BY <1>3 DEF Sniffer
<1> QED BY <1>2, <1>4, <1>6, <1>7, <1>8

(* State::AwaitingColon.                                                   *)
LEMMA ColonByte ==
    ASSUME NEW latest, NEW b
    PROVE  FeedByte(Sniffer([at |-> "colon"], Empty, latest), b)
               = IF b = ":" THEN Sniffer([at |-> "value"], Empty, latest)
                 ELSE IF b = "w" THEN Sniffer([at |-> "colon"], Empty, latest)
                 ELSE Seeking(IF b = "q" THEN 1 ELSE 0, latest)
<1>1. PICK s : s = Sniffer([at |-> "colon"], Empty, latest)
  OBVIOUS
<1>2. s.state.at = "colon" /\ s.latest = latest
      /\ s = [state |-> [at |-> "colon"], object |-> Empty, latest |-> latest]
  BY <1>1 DEF Sniffer
<1>3. FeedByte(s, b) = AwaitColon(s, b)
  BY <1>2 DEF FeedByte
<1>4. [s EXCEPT !.state = [at |-> "value"]] = Sniffer([at |-> "value"], Empty, latest)
  BY <1>2 DEF Sniffer
<1>5. Restart(s, b) = Seeking(IF b = "q" THEN 1 ELSE 0, latest)
  BY <1>2 DEF Restart, Seeking
<1>6. CASE b = ":"
  BY <1>1, <1>3, <1>4, <1>6 DEF AwaitColon
<1>7. CASE b = "w"
  BY <1>1, <1>3, <1>7 DEF AwaitColon
<1>8. CASE b \notin {":", "w"}
  BY <1>1, <1>3, <1>5, <1>8 DEF AwaitColon
<1> QED BY <1>6, <1>7, <1>8

(* State::AwaitingValue.                                                   *)
LEMMA ValueByte ==
    ASSUME NEW latest, NEW b
    PROVE  FeedByte(Sniffer([at |-> "value"], Empty, latest), b)
               = IF b = "open" THEN Sniffer(Caught(1, FALSE, FALSE), Object(1, <<>>), latest)
                 ELSE IF b = "n" THEN Sniffer([at |-> "null", matched |-> 1], Empty, latest)
                 ELSE IF b = "w" THEN Sniffer([at |-> "value"], Empty, latest)
                 ELSE Seeking(IF b = "q" THEN 1 ELSE 0, latest)
<1>1. PICK s : s = Sniffer([at |-> "value"], Empty, latest)
  OBVIOUS
<1>2. s.state.at = "value" /\ s.latest = latest
      /\ s = [state |-> [at |-> "value"], object |-> Empty, latest |-> latest]
  BY <1>1 DEF Sniffer
<1>3. FeedByte(s, b) = AwaitValue(s, b)
  BY <1>2 DEF FeedByte
<1>4. PICK null : null = [at |-> "null", matched |-> 1]
  OBVIOUS
<1>5. [s EXCEPT !.state = null] = Sniffer(null, Empty, latest)
  BY <1>2 DEF Sniffer
<1>6. Restart(s, b) = Seeking(IF b = "q" THEN 1 ELSE 0, latest)
  BY <1>2 DEF Restart, Seeking
<1>7. [Empty EXCEPT !.len = 1] = Object(1, <<>>)
  BY DEF Empty, Object
<1>8. CASE b = "open"
  BY <1>1, <1>2, <1>3, <1>7, <1>8 DEF AwaitValue, Caught
<1>9. CASE b = "n"
  BY <1>1, <1>3, <1>4, <1>5, <1>9 DEF AwaitValue
<1>10. CASE b = "w"
  BY <1>1, <1>3, <1>10 DEF AwaitValue
<1>11. CASE b \notin {"open", "n", "w"}
  BY <1>1, <1>3, <1>6, <1>11 DEF AwaitValue
<1> QED BY <1>8, <1>9, <1>10, <1>11

(* State::SkippingNull, for the only word that starts like null.           *)
LEMMA NullByte ==
    ASSUME NEW latest
    PROVE  FeedByte(Sniffer([at |-> "null", matched |-> 1], Empty, latest), "ull") = Seeking(0, latest)
<1>1. PICK null : null = [at |-> "null", matched |-> 1]
  OBVIOUS
<1>2. PICK s : s = Sniffer(null, Empty, latest)
  OBVIOUS
<1>3. s.state = null /\ s.state.at = "null" /\ s.state.matched = 1
      /\ s = [state |-> null, object |-> Empty, latest |-> latest]
  BY <1>1, <1>2 DEF Sniffer
<1>4. FeedByte(s, "ull") = SkipNull(s, "ull")
  BY <1>3 DEF FeedByte
<1>5. NULL[1 + 1] = "ull" /\ 1 + 1 = Len(NULL)
  BY DEF NULL
<1>6. SkipNull(s, "ull") = [s EXCEPT !.state = Searching(0)]
  BY <1>3, <1>5 DEF SkipNull
<1>7. [s EXCEPT !.state = Searching(0)] = Seeking(0, latest)
  BY <1>3 DEF Seeking, Sniffer
<1> QED BY <1>1, <1>2, <1>4, <1>6, <1>7

(* How a byte moves depth, string and escape of a capture.                 *)
LEMMA NestingFacts ==
    ASSUME NEW d \in Nat
    PROVE  /\ Nesting(Caught(d, FALSE, FALSE), "q") = Caught(d, TRUE, FALSE)
           /\ Nesting(Caught(d, FALSE, FALSE), "open") = Caught(d + 1, FALSE, FALSE)
           /\ Nesting(Caught(d, FALSE, FALSE), "close") = Caught(d - 1, FALSE, FALSE)
           /\ \A b : b \notin {"q", "open", "close"} =>
                  Nesting(Caught(d, FALSE, FALSE), b) = Caught(d, FALSE, FALSE)
           /\ Nesting(Caught(d, TRUE, FALSE), "q") = Caught(d, FALSE, FALSE)
           /\ Nesting(Caught(d, TRUE, FALSE), "\\") = Caught(d, TRUE, TRUE)
           /\ \A b : b \notin {"q", "\\"} =>
                  Nesting(Caught(d, TRUE, FALSE), b) = Caught(d, TRUE, FALSE)
           /\ \A b : Nesting(Caught(d, TRUE, TRUE), b) = Caught(d, TRUE, FALSE)
  BY DEF Nesting, Caught

(* What the capture and the object it buffers become with a byte.          *)
Takes(d, q, e, l, n, b, c, n2) ==
    /\ l \in Nat
    /\ c = Nesting(Caught(d, q, e), b)
    /\ n2 = IF b \in Counts /\ d = 1 THEN Append(n, b) ELSE n

(* State::Capturing: the byte closes the object, makes it too large, or is *)
(* buffered.                                                               *)
LEMMA CaptureByte ==
    ASSUME NEW d, NEW q, NEW e, NEW l, NEW n, NEW latest, NEW b, NEW c, NEW n2,
           Takes(d, q, e, l, n, b, c, n2)
    PROVE  FeedByte(Sniffer(Caught(d, q, e), Object(l, n), latest), b)
               = IF c.depth = 0
                 THEN Seeking(0, IF Len(n2) = 1 THEN n2[1] ELSE latest)
                 ELSE IF l + 1 >= MaxObjectBytes THEN Seeking(0, latest)
                 ELSE Sniffer(c, Object(l + 1, n2), latest)
<1>1. PICK s : s = Sniffer(Caught(d, q, e), Object(l, n), latest)
  OBVIOUS
<1>2. /\ s.state = Caught(d, q, e) /\ s.state.at = "capturing" /\ s.state.depth = d
      /\ s.object.len = l /\ s.object.counts = n /\ s.latest = latest
  BY <1>1 DEF Sniffer, Caught, Object
<1>3. FeedByte(s, b) = Capture(s, b)
  BY <1>2 DEF FeedByte
<1>4. FinishObject(s, n2) = Seeking(0, IF Len(n2) = 1 THEN n2[1] ELSE latest)
  BY <1>2 DEF FinishObject, Seeking
<1>5. Capture(s, b) = IF c.depth = 0 THEN FinishObject(s, n2)
                      ELSE IF l + 1 >= MaxObjectBytes THEN Seeking(0, latest)
                      ELSE Sniffer(c, Object(l + 1, n2), latest)
  BY <1>2 DEF Takes, Capture, Seeking, Object
<1> QED BY <1>1, <1>3, <1>4, <1>5

-----------------------------------------------------------------------------
(* The inductive invariant: the scanner agrees with the body.  It captures *)
(* the outermost usage object that is open, at its depth, with its length  *)
(* and its counts, inside or outside of a string as the body is; or it     *)
(* searches from a place that what is expected next cannot complete, and   *)
(* in a string from where the string, as it is written, ends.              *)

Expects == {"first", "member", "colon", "named", "value", "usage", "null", "next"}
Plain == {"quote", "usage", "other"}
Strings == Plain \cup {"none", "escape"}

(* A capture at depth d of a body that is in the string t, or in none.     *)
Shape(d, t) ==
    IF t = "none" THEN Caught(d, FALSE, FALSE)
    ELSE IF t = "escape" THEN Caught(d, TRUE, TRUE) ELSE Caught(d, TRUE, FALSE)

(* What a member that has just ended leaves behind.                        *)
Trail == {Searching(0), Searching(1), [at |-> "colon"]}
NullBegun == [at |-> "null", matched |-> 1]

(* Where a scanner that captures nothing may be.                           *)
Unnamed(w) ==
    IF w = "named" THEN {[at |-> "colon"]}
    ELSE IF w = "usage" THEN {[at |-> "value"]}
    ELSE IF w = "colon" THEN {Searching(0), Searching(1)}
    ELSE IF w = "null" THEN {Searching(0), NullBegun}
    ELSE IF w = "next" THEN Trail ELSE {Searching(0)}
Pending(w, t) ==
    IF t = "none" THEN Unnamed(w)
    ELSE IF t = "quote" THEN {Searching(1)}
    ELSE IF t = "usage" THEN {Searching(2)} ELSE {Searching(0)}

Wanted(stk) == IF stk = <<>> THEN "first" ELSE stk[Len(stk)]

Agree(s, stk, t, c, e) ==
    IF c.depth # 0
    THEN /\ s = Sniffer(Shape(Len(stk) - c.depth + 1, t), Object(c.len, c.counts), e)
         /\ Wanted(stk) \notin {"usage", "named"}
    ELSE \E st \in Pending(Wanted(stk), t) : s = Sniffer(st, Empty, e)

StackOK(stk) ==
    /\ stk \in Seq(Expects) /\ Len(stk) <= MaxDepth
    /\ \A i \in 1 .. Len(stk) - 1 : stk[i] = "next"

StringOK(t, stk) ==
    /\ t \in Strings
    /\ t # "none" => stk # <<>> /\ Wanted(stk) \in {"first", "member", "value", "usage"}

CaptureOK(c, stk) ==
    /\ c \in [depth : Nat, len : Nat, counts : Seq(Counts)]
    /\ c.depth <= Len(stk) /\ c.len < MaxObjectBytes

SniffInv ==
    /\ StackOK(stack)
    /\ StringOK(string, stack)
    /\ CaptureOK(capture, stack)
    /\ expected \in Counts \cup {NoUsage}
    /\ Agree(sniffer, stack, string, capture, expected)

-----------------------------------------------------------------------------
(* Stacks and captured objects.                                            *)

(* What is expected of the open object changes; the rest of the stack does *)
(* not.                                                                    *)
LEMMA WantFacts ==
    ASSUME StackOK(stack), stack # <<>>, NEW w \in Expects
    PROVE  /\ StackOK(Want(w)) /\ Len(Want(w)) = Len(stack)
           /\ Want(w) # <<>> /\ Wanted(Want(w)) = w /\ Want(w)[Len(stack)] = w
           /\ Len(stack) \in Nat \ {0}
<1>1. stack \in Seq(Expects) /\ Len(stack) \in 1 .. MaxDepth
  BY SnifferAssumption DEF StackOK
<1>2. PICK n \in Nat \ {0} : n = Len(stack)
  BY <1>1, SnifferAssumption
<1>3. PICK t : t = [stack EXCEPT ![n] = w]
  OBVIOUS
<1>4. t \in Seq(Expects) /\ Len(t) = n /\ t[n] = w /\ \A i \in 1 .. n - 1 : t[i] = stack[i]
  BY <1>1, <1>2, <1>3
<1>5. t = Want(w)
  BY <1>2, <1>3 DEF Want
<1>6. StackOK(t) /\ t # <<>> /\ Wanted(t) = w
  BY <1>1, <1>2, <1>4 DEF StackOK, Wanted
<1> QED BY <1>2, <1>4, <1>5, <1>6

(* The object after a byte inside of it: given up or grown.                *)
Grown(c, m) ==
    IF c.len + 1 >= MaxObjectBytes THEN NoCapture
    ELSE [depth |-> c.depth, len |-> c.len + 1, counts |-> c.counts \o m]

(* What a byte does to scanner and object.                                 *)
LEMMA WriteIs ==
    ASSUME NEW b, NEW m, CaptureOK(capture, stack), Write(b, m)
    PROVE  /\ sniffer' = FeedByte(sniffer, b)
           /\ capture' = IF Captured THEN Grown(capture, m) ELSE capture
<1>1. PICK d \in Nat, l \in Nat, n \in Seq(Counts) : capture = [depth |-> d, len |-> l, counts |-> n]
  BY DEF CaptureOK
<1>2. capture.depth = d /\ capture.len = l /\ capture.counts = n
  BY <1>1
<1>3. PICK l2, n2 : l2 = l + 1 /\ n2 = n \o m
  OBVIOUS
<1>4. [capture EXCEPT !.len = l2, !.counts = n2] = [depth |-> d, len |-> l2, counts |-> n2]
  <2>1. PICK r : r = [capture EXCEPT !.len = l2, !.counts = n2]
    OBVIOUS
  <2>2. r \in [depth : {d}, len : {l2}, counts : {n2}]
    BY <1>1, <2>1
  <2>3. r = [depth |-> d, len |-> l2, counts |-> n2]
    BY <2>2
  <2> QED BY <2>1, <2>3
<1>5. [capture EXCEPT !.len = @ + 1, !.counts = @ \o m] = [depth |-> d, len |-> l2, counts |-> n2]
  BY <1>2, <1>3, <1>4
<1>6. sniffer' = FeedByte(sniffer, b)
  BY DEF Write
<1>7. CASE ~Captured
  BY <1>6, <1>7 DEF Write
<1>8. CASE Captured /\ GivesUp
  BY <1>6, <1>8 DEF Write, Grown, GivesUp
<1>9. CASE Captured /\ ~GivesUp
  BY <1>2, <1>3, <1>5, <1>6, <1>9 DEF Write, Grown, GivesUp
<1> QED BY <1>7, <1>8, <1>9

(* A captured object that grows stays one of the objects that are open.    *)
LEMMA GrownOK ==
    ASSUME NEW m \in Seq(Counts), NEW stk, Len(stk) \in Nat,
           CaptureOK(capture, stack), capture.depth <= Len(stk)
    PROVE  CaptureOK(IF Captured THEN Grown(capture, m) ELSE capture, stk)
<1>1. PICK d \in Nat, l \in Nat, n \in Seq(Counts) : capture = [depth |-> d, len |-> l, counts |-> n]
  BY DEF CaptureOK
<1>2. capture.depth = d /\ capture.len = l /\ capture.counts = n /\ l < MaxObjectBytes
      /\ MaxObjectBytes \in Nat \ {0}
  BY <1>1, SnifferAssumption DEF CaptureOK
<1>3. CaptureOK(NoCapture, stk)
  <2>1. <<>> \in Seq(Counts)
    OBVIOUS
  <2> QED BY <1>2, <2>1 DEF CaptureOK, NoCapture
<1>4. CASE Captured /\ l + 1 < MaxObjectBytes
  <2>1. n \o m \in Seq(Counts)
    OBVIOUS
  <2>2. PICK n2 \in Seq(Counts) : n2 = n \o m
    BY <2>1
  <2>5. PICK l2 \in Nat : l2 = l + 1
    OBVIOUS
  <2>3. Grown(capture, m) = [depth |-> d, len |-> l2, counts |-> n2]
    BY <1>2, <1>4, <2>2, <2>5 DEF Grown
  <2>4. CaptureOK([depth |-> d, len |-> l2, counts |-> n2], stk)
    BY <1>2, <1>4, <2>2, <2>5 DEF CaptureOK
  <2> QED BY <1>4, <2>3, <2>4
<1>5. CASE Captured /\ ~(l + 1 < MaxObjectBytes)
  BY <1>2, <1>3, <1>5 DEF Grown
<1>6. CASE ~Captured
  BY <1>1, <1>2, <1>6 DEF CaptureOK
<1> QED BY <1>4, <1>5, <1>6

(* Inside a usage object the scanner captures it, at the depth of the      *)
(* body.                                                                   *)
LEMMA InsideFacts ==
    ASSUME SniffInv, Captured
    PROVE  /\ capture.depth \in Nat \ {0} /\ capture.len \in Nat /\ capture.len < MaxObjectBytes
           /\ capture.counts \in Seq(Counts)
           /\ Len(stack) \in Nat \ {0} /\ stack # <<>> /\ capture.depth <= Len(stack)
           /\ Len(stack) - capture.depth + 1 \in Nat \ {0}
           /\ sniffer = Sniffer(Shape(Len(stack) - capture.depth + 1, string),
                                Object(capture.len, capture.counts), expected)
           /\ Wanted(stack) \notin {"usage", "named"}
<1>1. capture.depth \in Nat /\ capture.depth # 0 /\ capture.depth <= Len(stack) /\ stack \in Seq(Expects)
  BY DEF SniffInv, StackOK, CaptureOK, Captured
<1>2. Len(stack) \in Nat \ {0} /\ stack # <<>> /\ Len(stack) - capture.depth + 1 \in Nat \ {0}
  BY <1>1
<1>3. capture.len \in Nat /\ capture.len < MaxObjectBytes /\ capture.counts \in Seq(Counts)
  BY DEF SniffInv, CaptureOK
<1>4. /\ sniffer = Sniffer(Shape(Len(stack) - capture.depth + 1, string),
                           Object(capture.len, capture.counts), expected)
      /\ Wanted(stack) \notin {"usage", "named"}
  BY <1>1 DEF SniffInv, Agree
<1> QED BY <1>1, <1>2, <1>3, <1>4

(* The body after a byte inside the captured object that does not close    *)
(* it.                                                                     *)
Kept(t) == IF GivesUp /\ t \notin {"none", "escape"} THEN "other" ELSE t

HeldByte(b, m, stk, t, d, d2) ==
    /\ sniffer' = FeedByte(sniffer, b)
    /\ capture' = Grown(capture, m)
    /\ stack' = stk /\ string' = Kept(t)
    /\ t \in Strings /\ Wanted(stk) \notin {"usage", "named"}
    /\ d = Len(stack) - capture.depth + 1
    /\ d2 = Len(stk) - capture.depth + 1 /\ d2 # 0
    /\ Nesting(Shape(d, string), b) = Shape(d2, t)
    /\ capture.counts \o m = IF b \in Counts /\ d = 1 THEN Append(capture.counts, b) ELSE capture.counts

(* The scanner buffers the byte as the object grows, and both give it up   *)
(* at MAX_OBJECT_BYTES.                                                    *)
LEMMA ByteHeld ==
    ASSUME SniffInv, Captured, NEW b, NEW m, NEW stk, NEW t, NEW d, NEW d2,
           HeldByte(b, m, stk, t, d, d2)
    PROVE  Agree(sniffer', stack', string', capture', expected)
<1>1. PICK l, n : l \in Nat /\ l = capture.len /\ n = capture.counts
  BY InsideFacts
<1>2. PICK q, e : Shape(d, string) = Caught(d, q, e)
  BY DEF Shape
<1>3. PICK c : c = Shape(d2, t)
  OBVIOUS
<1>4. c.depth # 0
  BY <1>3 DEF Shape, Caught, HeldByte
<1>5. PICK n2 : n2 = capture.counts \o m
  OBVIOUS
<1>6. Takes(d, q, e, l, n, b, c, n2)
  BY <1>1, <1>2, <1>3, <1>5 DEF Takes, HeldByte
<1>7. sniffer' = IF l + 1 >= MaxObjectBytes THEN Seeking(0, expected)
                 ELSE Sniffer(c, Object(l + 1, n2), expected)
  <2>1. sniffer = Sniffer(Caught(d, q, e), Object(l, n), expected)
    BY <1>1, <1>2, InsideFacts DEF HeldByte
  <2>2. FeedByte(Sniffer(Caught(d, q, e), Object(l, n), expected), b)
            = IF l + 1 >= MaxObjectBytes THEN Seeking(0, expected)
              ELSE Sniffer(c, Object(l + 1, n2), expected)
    BY <1>4, <1>6, CaptureByte
  <2> QED BY <2>1, <2>2 DEF HeldByte
<1>8. MaxObjectBytes \in Nat /\ stack' = stk /\ capture.depth # 0
  BY SnifferAssumption DEF HeldByte, Captured
<1>9. CASE l + 1 >= MaxObjectBytes
  <2>1. capture' = NoCapture /\ NoCapture.depth = 0 /\ sniffer' = Sniffer(Searching(0), Empty, expected)
    BY <1>1, <1>7, <1>9 DEF HeldByte, Grown, NoCapture, Seeking
  <2>2. GivesUp
    BY <1>1, <1>9 DEF GivesUp
  <2>3. string' \in {"none", "escape", "other"}
    BY <2>2 DEF HeldByte, Kept
  <2>4. Searching(0) \in Pending(Wanted(stk), string')
    BY <2>3 DEF Pending, Unnamed, Trail, HeldByte
  <2> QED BY <1>8, <2>1, <2>4 DEF Agree
<1>10. CASE ~(l + 1 >= MaxObjectBytes)
  <2>1. PICK g : g = [depth |-> capture.depth, len |-> l + 1, counts |-> n2]
    OBVIOUS
  <2>2. capture' = g /\ g.depth = capture.depth /\ g.len = l + 1 /\ g.counts = n2
    BY <1>1, <1>5, <1>10, <2>1 DEF HeldByte, Grown
  <2>3. string' = t
    BY <1>1, <1>10 DEF HeldByte, Kept, GivesUp
  <2>4. sniffer' = Sniffer(Shape(Len(stk) - g.depth + 1, t), Object(g.len, g.counts), expected)
    BY <1>3, <1>7, <1>10, <2>2 DEF HeldByte
  <2>5. Wanted(stk) \notin {"usage", "named"}
    BY DEF HeldByte
  <2> QED BY <1>8, <2>2, <2>3, <2>4, <2>5 DEF Agree
<1> QED BY <1>9, <1>10

-----------------------------------------------------------------------------
(* Bytes that open and close no object.                                    *)

(* A byte takes a capture from the string s to t at the same depth.        *)
Turns(s, b, t) == \A d \in Nat : Nesting(Shape(d, s), b) = Shape(d, t)

(* A byte takes a scanner that captures nothing from the places in P to    *)
(* places in P2.                                                           *)
Steps(P, b, P2) ==
    \A st \in P : \A e : \E st2 \in P2 : FeedByte(Sniffer(st, Empty, e), b) = Sniffer(st2, Empty, e)

(* Strings open and close with their quotes, and an escape lasts one byte. *)
LEMMA TurnsFacts ==
    /\ \A b : b \notin {"q", "open", "close"} => Turns("none", b, "none")
    /\ \A t \in Plain : Turns("none", "q", t) /\ Turns(t, "q", "none") /\ Turns(t, "\\", "escape")
    /\ \A s \in Plain, t \in Plain : \A b : b \notin {"q", "\\"} => Turns(s, b, t)
    /\ \A t \in Plain : \A b : Turns("escape", b, t)
<1>1. \A t \in Plain : \A d : Shape(d, t) = Caught(d, TRUE, FALSE)
  BY DEF Shape, Plain
<1>2. \A d : Shape(d, "none") = Caught(d, FALSE, FALSE) /\ Shape(d, "escape") = Caught(d, TRUE, TRUE)
  BY DEF Shape
<1>3. \A b : b \notin {"q", "open", "close"} => Turns("none", b, "none")
  <2> SUFFICES ASSUME NEW b, b \notin {"q", "open", "close"}, NEW d \in Nat
               PROVE  Nesting(Shape(d, "none"), b) = Shape(d, "none")
    BY DEF Turns
  <2>1. Nesting(Caught(d, FALSE, FALSE), b) = Caught(d, FALSE, FALSE)
    BY NestingFacts
  <2> QED BY <1>2, <2>1
<1>4. ASSUME NEW t \in Plain
      PROVE  Turns("none", "q", t) /\ Turns(t, "q", "none") /\ Turns(t, "\\", "escape")
  BY <1>1, <1>2, NestingFacts DEF Turns
<1>5. ASSUME NEW s \in Plain, NEW t \in Plain, NEW b, b \notin {"q", "\\"} PROVE Turns(s, b, t)
  <2> SUFFICES ASSUME NEW d \in Nat PROVE Nesting(Shape(d, s), b) = Shape(d, t)
    BY DEF Turns
  <2>1. Nesting(Caught(d, TRUE, FALSE), b) = Caught(d, TRUE, FALSE)
    BY <1>5, NestingFacts
  <2> QED BY <1>1, <2>1
<1>6. ASSUME NEW t \in Plain, NEW b PROVE Turns("escape", b, t)
  BY <1>1, <1>2, NestingFacts DEF Turns
<1> QED BY <1>3, <1>4, <1>5, <1>6

(* Where single bytes take the search and the waits.                       *)
LEMMA StepsFacts ==
    ASSUME NEW b, NEW P2
    PROVE  /\ \A m \in {0, 1, 2} : Found(m, b) \in P2 => Steps({Searching(m)}, b, P2)
           /\ b = ":" /\ [at |-> "value"] \in P2 => Steps({[at |-> "colon"]}, b, P2)
           /\ b = "w" /\ [at |-> "colon"] \in P2 => Steps({[at |-> "colon"]}, b, P2)
           /\ b \notin {":", "w", "q"} /\ Searching(0) \in P2 => Steps({[at |-> "colon"]}, b, P2)
           /\ b = "n" /\ NullBegun \in P2 => Steps({[at |-> "value"]}, b, P2)
           /\ b = "w" /\ [at |-> "value"] \in P2 => Steps({[at |-> "value"]}, b, P2)
           /\ b = "q" /\ Searching(1) \in P2 => Steps({[at |-> "value"]}, b, P2)
           /\ b \notin {"open", "n", "w", "q"} /\ Searching(0) \in P2 => Steps({[at |-> "value"]}, b, P2)
           /\ b = "ull" /\ Searching(0) \in P2 => Steps({NullBegun}, b, P2)
<1>1. ASSUME NEW m \in {0, 1, 2}, Found(m, b) \in P2 PROVE Steps({Searching(m)}, b, P2)
  BY <1>1, SearchByte DEF Steps, Seeking
<1>2. ASSUME b = ":", [at |-> "value"] \in P2 PROVE Steps({[at |-> "colon"]}, b, P2)
  BY <1>2, ColonByte DEF Steps
<1>3. ASSUME b = "w", [at |-> "colon"] \in P2 PROVE Steps({[at |-> "colon"]}, b, P2)
  BY <1>3, ColonByte DEF Steps
<1>4. ASSUME b \notin {":", "w", "q"}, Searching(0) \in P2 PROVE Steps({[at |-> "colon"]}, b, P2)
  BY <1>4, ColonByte DEF Steps, Seeking
<1>5. ASSUME b = "n", NullBegun \in P2 PROVE Steps({[at |-> "value"]}, b, P2)
  BY <1>5, ValueByte DEF Steps, NullBegun
<1>6. ASSUME b = "w", [at |-> "value"] \in P2 PROVE Steps({[at |-> "value"]}, b, P2)
  BY <1>6, ValueByte DEF Steps
<1>7. ASSUME b = "q", Searching(1) \in P2 PROVE Steps({[at |-> "value"]}, b, P2)
  BY <1>7, ValueByte DEF Steps, Seeking
<1>8. ASSUME b \notin {"open", "n", "w", "q"}, Searching(0) \in P2 PROVE Steps({[at |-> "value"]}, b, P2)
  BY <1>8, ValueByte DEF Steps, Seeking
<1>9. ASSUME b = "ull", Searching(0) \in P2 PROVE Steps({NullBegun}, b, P2)
  BY <1>9, NullByte DEF Steps, Seeking, NullBegun
<1> QED BY <1>1, <1>2, <1>3, <1>4, <1>5, <1>6, <1>7, <1>8, <1>9

(* From several places.                                                    *)
LEMMA StepsUnion ==
    ASSUME NEW P, NEW b, NEW P2, \A st \in P : Steps({st}, b, P2)
    PROVE  Steps(P, b, P2)
  BY DEF Steps

(* A byte that leaves the stack as high as it is.                          *)
LevelByte(b, stk, t) ==
    /\ Write(b, <<>>) /\ b \notin Counts
    /\ stack' = stk /\ StackOK(stk) /\ Len(stk) = Len(stack)
    /\ string' = Kept(t) /\ StringOK(t, stk)
    /\ UNCHANGED expected
    /\ Captured => Wanted(stk) \notin {"usage", "named"} /\ Turns(string, b, t)
    /\ ~Captured => Steps(Pending(Wanted(stack), string), b, Pending(Wanted(stk), t))

(* Such a byte keeps the invariant.                                        *)
LEMMA LevelByteInv ==
    ASSUME SniffInv, NEW b, NEW stk, NEW t, LevelByte(b, stk, t) PROVE SniffInv'
<1>1. PICK m \in Seq(Counts) : m = <<>>
  <2>1. <<>> \in Seq(Counts)
    OBVIOUS
  <2> QED BY <2>1
<1>2. Write(b, m) /\ CaptureOK(capture, stack)
  BY <1>1 DEF LevelByte, SniffInv
<1>3. sniffer' = FeedByte(sniffer, b) /\ capture' = IF Captured THEN Grown(capture, m) ELSE capture
  BY <1>2, WriteIs
<1>4. StackOK(stk) /\ stack' = stk /\ string' = Kept(t) /\ Len(stk) = Len(stack) /\ UNCHANGED expected
  BY DEF LevelByte
<1>5. StringOK(string', stk)
  BY DEF LevelByte, StringOK, Kept, Strings, Plain
<1>6. CaptureOK(capture', stk)
  <2>1. Len(stk) \in Nat /\ capture.depth <= Len(stk)
    BY <1>2, <1>4 DEF StackOK, CaptureOK
  <2> QED BY <1>1, <1>2, <1>3, <2>1, GrownOK
<1>7. CASE Captured
  <2>1. PICK d \in Nat \ {0} : d = Len(stack) - capture.depth + 1
    BY <1>7, InsideFacts
  <2>2. Nesting(Shape(d, string), b) = Shape(d, t)
    BY <1>7 DEF LevelByte, Turns
  <2>3. capture.counts \o m = capture.counts
    BY <1>1, <1>7, InsideFacts, ConcatEmptySeq
  <2>4. HeldByte(b, m, stk, t, d, d)
    BY <1>3, <1>4, <1>7, <2>1, <2>2, <2>3 DEF HeldByte, LevelByte, StringOK
  <2>5. Agree(sniffer', stack', string', capture', expected)
    BY <1>7, <2>4, ByteHeld
  <2> QED BY <1>4, <1>5, <1>6, <2>5 DEF SniffInv
<1>8. CASE ~Captured
  <2>1. capture' = capture /\ capture.depth = 0 /\ string' = t
    BY <1>3, <1>4, <1>8 DEF Captured, Kept, GivesUp
  <2>2. PICK st \in Pending(Wanted(stack), string) : sniffer = Sniffer(st, Empty, expected)
    BY <2>1 DEF SniffInv, Agree
  <2>3. Steps(Pending(Wanted(stack), string), b, Pending(Wanted(stk), t))
    BY <1>8 DEF LevelByte
  <2>4. \E st2 \in Pending(Wanted(stk), t) : sniffer' = Sniffer(st2, Empty, expected)
    BY <1>3, <2>2, <2>3 DEF Steps
  <2>5. Agree(sniffer', stk, t, capture, expected)
    BY <2>1, <2>4 DEF Agree
  <2> QED BY <1>4, <1>5, <1>6, <2>1, <2>5 DEF SniffInv
<1> QED BY <1>7, <1>8

(* Outside of every document nothing is captured and no string is open.    *)
LEMMA OutsideFacts ==
    ASSUME SniffInv, stack = <<>>
    PROVE  ~Captured /\ capture.depth = 0 /\ string = "none" /\ Wanted(stack) = "first"
           /\ Len(stack) = 0
<1>1. string = "none" /\ Wanted(stack) = "first" /\ Len(stack) = 0
  BY DEF SniffInv, StringOK, Wanted
<1>2. ~Captured
  BY InsideFacts
<1> QED BY <1>1, <1>2 DEF Captured

(* A scanner that has read nothing.                                        *)
LEMMA SniffInitInv == SniffInit => SniffInv
<1> SUFFICES ASSUME SniffInit PROVE SniffInv
  OBVIOUS
<1>1. StackOK(<<>>) /\ StringOK("none", <<>>)
  BY SnifferAssumption DEF StackOK, StringOK, Strings
<1>2. CaptureOK(NoCapture, <<>>)
  <2>1. <<>> \in Seq(Counts) /\ Len(<<>>) = 0
    OBVIOUS
  <2> QED BY <2>1, SnifferAssumption DEF CaptureOK, NoCapture
<1>3. Agree(Seeking(0, NoUsage), <<>>, "none", NoCapture, NoUsage)
  <2>1. Wanted(<<>>) = "first" /\ Searching(0) \in Pending("first", "none") /\ NoCapture.depth = 0
    BY DEF Wanted, Pending, Unnamed, NoCapture
  <2> QED BY <2>1 DEF Agree, Seeking
<1> QED BY <1>1, <1>2, <1>3 DEF SniffInit, SniffInv, Seeking

(* Bytes between the documents of the body.                                *)
LEMMA BetweenInv == ASSUME SniffInv, Between PROVE SniffInv'
<1>1. PICK b \in {"x", ":"} : Write(b, <<>>)
  BY DEF Between
<1>2. stack = <<>> /\ UNCHANGED <<stack, string, expected>>
  BY DEF Between
<1>3. ~Captured /\ string = "none" /\ Wanted(stack) = "first"
  BY <1>2, OutsideFacts
<1>4. Steps({Searching(0)}, b, {Searching(0)})
  BY StepsFacts DEF Found
<1>5. Pending("first", "none") = {Searching(0)}
  BY DEF Pending, Unnamed
<1>6. LevelByte(b, stack, "none")
  BY <1>1, <1>2, <1>3, <1>4, <1>5 DEF LevelByte, SniffInv, Counts, Kept
<1> QED BY <1>6, LevelByteInv

(* White space, between any two tokens.                                    *)
LEMMA WriteSpaceInv == ASSUME SniffInv, WriteSpace PROVE SniffInv'
<1>1. Write("w", <<>>) /\ string = "none" /\ UNCHANGED <<stack, string, expected>>
  BY DEF WriteSpace, Unquoted
<1>2. PICK w : w = Wanted(stack)
  OBVIOUS
<1>3. w # "null"
  BY <1>2 DEF WriteSpace, Wanted, Top
<1>4. Steps(Pending(w, "none"), "w", Pending(w, "none"))
  <2>1. \A st \in {Searching(0), Searching(1)} : Searching(0) \in Pending(w, "none") => Steps({st}, "w", Pending(w, "none"))
    BY StepsFacts DEF Found
  <2>2. [at |-> "colon"] \in Pending(w, "none") => Steps({[at |-> "colon"]}, "w", Pending(w, "none"))
    BY StepsFacts
  <2>3. [at |-> "value"] \in Pending(w, "none") => Steps({[at |-> "value"]}, "w", Pending(w, "none"))
    BY StepsFacts
  <2>4. \A st \in Pending(w, "none") : Steps({st}, "w", Pending(w, "none"))
    <3>1. CASE w = "named"
      BY <2>2, <3>1 DEF Pending, Unnamed
    <3>2. CASE w = "usage"
      BY <2>3, <3>2 DEF Pending, Unnamed
    <3>3. CASE w = "next"
      BY <2>1, <2>2, <3>3 DEF Pending, Unnamed, Trail
    <3>4. CASE w \notin {"named", "usage", "next"}
      BY <1>3, <2>1, <3>4 DEF Pending, Unnamed
    <3> QED BY <3>1, <3>2, <3>3, <3>4
  <2> QED BY <2>4, StepsUnion
<1>5. Captured => Wanted(stack) \notin {"usage", "named"}
  BY InsideFacts
<1>6. Turns("none", "w", "none")
  BY TurnsFacts
<1>7. LevelByte("w", stack, "none")
  BY <1>1, <1>2, <1>4, <1>5, <1>6 DEF LevelByte, SniffInv, Counts, Kept
<1> QED BY <1>7, LevelByteInv

-----------------------------------------------------------------------------
(* Strings.                                                                *)

(* What EndsIn says, in the words of LevelByte.                                *)
LEMMA EndIsKept ==
    ASSUME NEW t \in Plain \cup {"escape"}, EndsIn(t) PROVE string' = Kept(t)
  BY DEF EndsIn, Kept, Plain

(* The first quote of a name or a string.                                  *)
LEMMA OpenStringInv == ASSUME SniffInv, OpenString PROVE SniffInv'
<1>1. Write("q", <<>>) /\ string = "none" /\ UNCHANGED <<stack, expected>> /\ EndsIn("quote")
  BY DEF OpenString, Expecting, Unquoted
<1>2. stack # <<>> /\ Wanted(stack) \in {"first", "member", "value", "usage"}
  BY DEF OpenString, Expecting, Wanted, Top
<1>3. "quote" \in Plain /\ string' = Kept("quote")
  BY <1>1, EndIsKept DEF Plain
<1>4. PICK w : w = Wanted(stack)
  OBVIOUS
<1>5. Steps(Pending(w, "none"), "q", Pending(w, "quote"))
  <2>1. Steps({Searching(0)}, "q", {Searching(1)}) /\ Steps({[at |-> "value"]}, "q", {Searching(1)})
    BY StepsFacts DEF Found
  <2> QED BY <1>2, <1>4, <2>1 DEF Pending, Unnamed
<1>6. Captured => Wanted(stack) \notin {"usage", "named"}
  BY InsideFacts
<1>7. Turns("none", "q", "quote")
  BY <1>3, TurnsFacts
<1>8. StringOK("quote", stack)
  BY <1>2, <1>3 DEF StringOK, Strings
<1>9. LevelByte("q", stack, "quote")
  BY <1>1, <1>3, <1>4, <1>5, <1>6, <1>7, <1>8 DEF LevelByte, SniffInv, Counts
<1> QED BY <1>9, LevelByteInv

(* What a string holds: usage after a quote, a backslash, anything else.   *)
LEMMA StringByteInv == ASSUME SniffInv, StringByte PROVE SniffInv'
<1>1. PICK b \in {"x", "usage", "open", "close", ":", "w", "n", "ull", "\\"} :
        /\ Write(b, <<>>)
        /\ EndsIn(IF b = "\\" THEN "escape"
                  ELSE IF string = "quote" /\ b = "usage" THEN "usage" ELSE "other")
  BY DEF StringByte
<1>2. string \in Plain /\ UNCHANGED <<stack, expected>>
  BY DEF StringByte, SniffInv, StringOK, Strings
<1>3. PICK t : t = IF b = "\\" THEN "escape"
                   ELSE IF string = "quote" /\ b = "usage" THEN "usage" ELSE "other"
  OBVIOUS
<1>4. t \in Plain \cup {"escape"} /\ EndsIn(t)
  BY <1>1, <1>3 DEF Plain
<1>5. string' = Kept(t)
  BY <1>4, EndIsKept
<1>6. PICK w : w = Wanted(stack)
  OBVIOUS
<1>7. StringOK(t, stack) /\ string # "none"
  BY <1>2, <1>4 DEF SniffInv, StringOK, Strings, Plain
<1>8. Captured => Wanted(stack) \notin {"usage", "named"}
  BY InsideFacts
<1>9. Turns(string, b, t)
  <2>1. CASE b = "\\"
    BY <1>2, <1>3, <2>1, TurnsFacts
  <2>2. CASE b # "\\"
    <3>1. t \in Plain /\ b \notin {"q", "\\"}
      BY <1>1, <1>3, <2>2 DEF Plain
    <3> QED BY <1>2, <3>1, TurnsFacts
  <2> QED BY <2>1, <2>2
<1>10. Steps(Pending(w, string), b, Pending(w, t))
  <2>1. PICK m \in {0, 1, 2} : Pending(w, string) = {Searching(m)} /\ (m = 1 <=> string = "quote")
    BY <1>2 DEF Pending, Plain
  <2>2. Found(m, b) \in Pending(w, t)
    BY <1>1, <1>3, <2>1 DEF Found, Pending
  <2> QED BY <2>1, <2>2, StepsFacts
<1>11. LevelByte(b, stack, t)
  BY <1>1, <1>2, <1>5, <1>6, <1>7, <1>8, <1>9, <1>10 DEF LevelByte, SniffInv, Counts
<1> QED BY <1>11, LevelByteInv

(* What a backslash escapes.                                               *)
LEMMA EscapedByteInv == ASSUME SniffInv, EscapedByte PROVE SniffInv'
<1>1. PICK b \in {"q", "\\", "x"} : Write(b, <<>>) /\ EndsIn(IF b = "q" THEN "quote" ELSE "other")
  BY DEF EscapedByte
<1>2. string = "escape" /\ UNCHANGED <<stack, expected>>
  BY DEF EscapedByte
<1>3. PICK t \in Plain : t = IF b = "q" THEN "quote" ELSE "other"
  BY DEF Plain
<1>4. string' = Kept(t)
  BY <1>1, <1>3, EndIsKept
<1>5. PICK w : w = Wanted(stack)
  OBVIOUS
<1>6. StringOK(t, stack)
  BY <1>2, <1>3 DEF SniffInv, StringOK, Strings
<1>7. Captured => Wanted(stack) \notin {"usage", "named"}
  BY InsideFacts
<1>8. Turns(string, b, t)
  BY <1>2, TurnsFacts
<1>9. Steps(Pending(w, string), b, Pending(w, t))
  <2>1. Pending(w, string) = {Searching(0)}
    BY <1>2 DEF Pending
  <2>2. Found(0, b) \in Pending(w, t)
    BY <1>3 DEF Found, Pending
  <2> QED BY <2>1, <2>2, StepsFacts
<1>10. LevelByte(b, stack, t)
  BY <1>1, <1>2, <1>4, <1>5, <1>6, <1>7, <1>8, <1>9 DEF LevelByte, SniffInv, Counts
<1> QED BY <1>10, LevelByteInv

(* The last quote: a name that is searched to its end and ends in a quote  *)
(* and usage makes the scanner wait for a colon.                           *)
LEMMA CloseStringInv == ASSUME SniffInv, CloseString PROVE SniffInv'
<1>1. PICK w : w = IF Top \notin {"first", "member"} THEN "next"
                   ELSE IF TakenForUsage THEN "named" ELSE "colon"
  OBVIOUS
<1>2. Write("q", <<>>) /\ string' = "none" /\ stack' = Want(w) /\ UNCHANGED expected
  BY <1>1 DEF CloseString
<1>3. string \in Plain /\ stack # <<>> /\ string # "none"
  BY DEF CloseString, SniffInv, StringOK, Strings, Plain
<1>4. w \in Expects /\ w \in {"next", "named", "colon"}
  BY <1>1 DEF Expects
<1>5. StackOK(Want(w)) /\ Len(Want(w)) = Len(stack) /\ Wanted(Want(w)) = w
  BY <1>3, <1>4, WantFacts DEF SniffInv
<1>6. Captured => w \notin {"usage", "named"}
  BY <1>1 DEF TakenForUsage
<1>7. Turns(string, "q", "none")
  BY <1>3, TurnsFacts
<1>8. ASSUME ~Captured PROVE Steps(Pending(Wanted(stack), string), "q", Pending(w, "none"))
  <2>1. CASE string = "usage"
    <3>1. w \in {"next", "named"}
      BY <1>1, <1>4, <1>8, <2>1 DEF TakenForUsage
    <3>2. Pending(Wanted(stack), string) = {Searching(2)}
      BY <2>1 DEF Pending
    <3>3. Found(2, "q") \in Pending(w, "none")
      BY <3>1 DEF Found, Pending, Unnamed, Trail
    <3> QED BY <3>2, <3>3, StepsFacts
  <2>2. CASE string # "usage"
    <3>1. w \in {"next", "colon"}
      BY <1>1, <1>4, <2>2 DEF TakenForUsage
    <3>2. PICK m \in {0, 1} : Pending(Wanted(stack), string) = {Searching(m)}
      BY <1>3, <2>2 DEF Pending, Plain
    <3>3. Found(m, "q") \in Pending(w, "none") /\ m \in {0, 1, 2}
      BY <3>1 DEF Found, Pending, Unnamed, Trail
    <3> QED BY <3>2, <3>3, StepsFacts
  <2> QED BY <2>1, <2>2
<1>9. StringOK("none", Want(w)) /\ Kept("none") = "none"
  BY DEF StringOK, Strings, Kept
<1>10. LevelByte("q", Want(w), "none")
  BY <1>2, <1>5, <1>6, <1>7, <1>8, <1>9 DEF LevelByte, Counts
<1> QED BY <1>10, LevelByteInv

-----------------------------------------------------------------------------
(* Tokens of one byte.                                                     *)

(* What such a token has to be.                                            *)
Passes(b, w) ==
    /\ Unquoted /\ stack # <<>> /\ Token(b, w) /\ w \in Expects
    /\ b \notin Counts \cup {"q", "open", "close"}
    /\ Captured => w \notin {"usage", "named"}
    /\ ~Captured => Steps(Unnamed(Wanted(stack)), b, Unnamed(w))

(* Then it keeps the invariant.                                            *)
LEMMA PassesInv == ASSUME SniffInv, NEW b, NEW w, Passes(b, w) PROVE SniffInv'
<1>1. Write(b, <<>>) /\ stack' = Want(w) /\ string = "none" /\ UNCHANGED <<string, expected>>
      /\ b \notin Counts
  BY DEF Passes, Token, Unquoted
<1>2. StackOK(Want(w)) /\ Len(Want(w)) = Len(stack) /\ Wanted(Want(w)) = w
  BY WantFacts DEF SniffInv, Passes
<1>3. Turns("none", b, "none")
  BY TurnsFacts DEF Passes
<1>4. StringOK("none", Want(w)) /\ Kept("none") = "none"
  BY DEF StringOK, Strings, Kept
<1>5. \A v : Pending(v, "none") = Unnamed(v)
  BY DEF Pending
<1>6. LevelByte(b, Want(w), "none")
  BY <1>1, <1>2, <1>3, <1>4, <1>5 DEF LevelByte, Passes
<1> QED BY <1>6, LevelByteInv

(* The colon after a name.                                                 *)
LEMMA WriteColonInv == ASSUME SniffInv, WriteColon PROVE SniffInv'
<1>1. PICK w : w = IF Top = "named" THEN "usage" ELSE "value"
  OBVIOUS
<1>2. Unquoted /\ stack # <<>> /\ Token(":", w) /\ Wanted(stack) = Top /\ Top \in {"colon", "named"}
  BY <1>1 DEF WriteColon, Expecting, Wanted, Top
<1>3. w \in Expects /\ ":" \notin Counts \cup {"q", "open", "close"}
  BY <1>1 DEF Expects, Counts
<1>4. Captured => w \notin {"usage", "named"}
  BY <1>1, <1>2, InsideFacts
<1>5. Steps(Unnamed(Wanted(stack)), ":", Unnamed(w))
  <2>1. CASE Top = "named"
    <3>1. Steps({[at |-> "colon"]}, ":", {[at |-> "value"]})
      BY StepsFacts
    <3> QED BY <1>1, <1>2, <2>1, <3>1 DEF Unnamed
  <2>2. CASE Top = "colon"
    <3>1. Steps({Searching(0)}, ":", {Searching(0)}) /\ Steps({Searching(1)}, ":", {Searching(0)})
      BY StepsFacts DEF Found
    <3>2. Steps({Searching(0), Searching(1)}, ":", {Searching(0)})
      BY <3>1, StepsUnion
    <3> QED BY <1>1, <1>2, <2>2, <3>2 DEF Unnamed
  <2> QED BY <1>2, <2>1, <2>2
<1>6. Passes(":", w)
  BY <1>2, <1>3, <1>4, <1>5 DEF Passes
<1> QED BY <1>6, PassesInv

(* null, which the scanner skips when it waits for a value.                *)
LEMMA WriteNullInv == ASSUME SniffInv, WriteNull PROVE SniffInv'
<1>1. CASE Expecting({"value", "usage"}) /\ Token("n", "null")
  <2>1. Unquoted /\ stack # <<>> /\ Wanted(stack) \in {"value", "usage"}
    BY <1>1 DEF Expecting, Wanted, Top
  <2>2. "null" \in Expects /\ "n" \notin Counts \cup {"q", "open", "close"}
    BY DEF Expects, Counts
  <2>3. Unnamed("null") = {Searching(0), NullBegun}
    BY DEF Unnamed
  <2>4. Steps({Searching(0)}, "n", Unnamed("null")) /\ Steps({[at |-> "value"]}, "n", Unnamed("null"))
    BY <2>3, StepsFacts DEF Found
  <2>5. Steps(Unnamed(Wanted(stack)), "n", Unnamed("null"))
    <3>1. Unnamed(Wanted(stack)) = {Searching(0)} \/ Unnamed(Wanted(stack)) = {[at |-> "value"]}
      BY <2>1 DEF Unnamed
    <3> QED BY <2>4, <3>1
  <2>6. Passes("n", "null")
    BY <1>1, <2>1, <2>2, <2>5 DEF Passes
  <2> QED BY <2>6, PassesInv
<1>2. CASE Expecting({"null"}) /\ Token("ull", "next")
  <2>1. Unquoted /\ stack # <<>> /\ Wanted(stack) = "null"
    BY <1>2 DEF Expecting, Wanted, Top
  <2>2. "next" \in Expects /\ "ull" \notin Counts \cup {"q", "open", "close"}
    BY DEF Expects, Counts
  <2>3. Searching(0) \in Unnamed("next") /\ Unnamed("null") = {Searching(0), NullBegun}
    BY DEF Unnamed, Trail
  <2>4. Steps({Searching(0)}, "ull", Unnamed("next")) /\ Steps({NullBegun}, "ull", Unnamed("next"))
    BY <2>3, StepsFacts DEF Found
  <2>5. Steps(Unnamed("null"), "ull", Unnamed("next"))
    BY <2>3, <2>4, StepsUnion
  <2>6. Passes("ull", "next")
    BY <1>2, <2>1, <2>2, <2>5 DEF Passes
  <2> QED BY <2>6, PassesInv
<1> QED BY <1>1, <1>2 DEF WriteNull

(* Numbers, words, brackets and commas end every wait.                     *)
LEMMA PlainInv == ASSUME SniffInv, WritePlain \/ WriteComma PROVE SniffInv'
<1>1. PICK w \in {"value", "next", "member"} : Token("x", w)
  BY DEF WritePlain, WriteComma
<1>2. Unquoted /\ stack # <<>> /\ Wanted(stack) \in {"value", "usage", "next"}
  BY DEF WritePlain, WriteComma, Expecting, Wanted, Top
<1>3. w \in Expects /\ w \notin {"usage", "named"} /\ "x" \notin Counts \cup {"q", "open", "close"}
  BY DEF Expects, Counts
<1>4. Searching(0) \in Unnamed(w)
  BY DEF Unnamed, Trail
<1>5. \A st \in Trail \cup {[at |-> "value"]} : Steps({st}, "x", Unnamed(w))
  <2>1. Steps({Searching(0)}, "x", Unnamed(w)) /\ Steps({Searching(1)}, "x", Unnamed(w))
    BY <1>4, StepsFacts DEF Found
  <2>2. Steps({[at |-> "colon"]}, "x", Unnamed(w)) /\ Steps({[at |-> "value"]}, "x", Unnamed(w))
    BY <1>4, StepsFacts
  <2> QED BY <2>1, <2>2 DEF Trail
<1>6. Unnamed(Wanted(stack)) \subseteq Trail \cup {[at |-> "value"]}
  BY <1>2 DEF Unnamed, Trail
<1>7. Steps(Unnamed(Wanted(stack)), "x", Unnamed(w))
  BY <1>5, <1>6, StepsUnion
<1>8. Passes("x", w)
  BY <1>1, <1>2, <1>3, <1>7 DEF Passes
<1> QED BY <1>8, PassesInv

(* The counts of a usage object, or of another.                            *)
LEMMA WriteCountInv == ASSUME SniffInv, WriteCount PROVE SniffInv'
<1>1. PICK t \in Counts : Write(t, IF capture.depth = Len(stack) THEN <<t>> ELSE <<>>)
  BY DEF WriteCount
<1>2. stack # <<>> /\ Wanted(stack) \in {"first", "member"} /\ string = "none"
      /\ UNCHANGED <<string, expected>> /\ stack' = Want("next")
  BY DEF WriteCount, Expecting, Unquoted, Wanted, Top
<1>3. t \notin {"q", "usage", "open", "close"}
  BY DEF Counts
<1>4. PICK m \in Seq(Counts) : m = IF capture.depth = Len(stack) THEN <<t>> ELSE <<>>
  <2>1. <<>> \in Seq(Counts) /\ <<t>> \in Seq(Counts)
    OBVIOUS
  <2> QED BY <2>1
<1>5. "next" \in Expects /\ Searching(0) \in Pending("next", "none")
  BY DEF Expects, Pending, Unnamed, Trail
<1>6. sniffer' = FeedByte(sniffer, t) /\ capture' = IF Captured THEN Grown(capture, m) ELSE capture
  BY <1>1, <1>4, WriteIs DEF SniffInv
<1>7. PICK stk : stk = Want("next")
  OBVIOUS
<1>8. StackOK(stk) /\ Len(stk) = Len(stack) /\ Wanted(stk) = "next" /\ Len(stack) \in Nat \ {0}
  BY <1>2, <1>5, <1>7, WantFacts DEF SniffInv
<1>9. StringOK("none", stk) /\ Kept("none") = "none"
  BY DEF StringOK, Strings, Kept
<1>10. CaptureOK(capture', stk)
  <2>1. CaptureOK(capture, stack) /\ capture.depth <= Len(stk) /\ Len(stk) \in Nat
    BY <1>8 DEF SniffInv, CaptureOK
  <2> QED BY <1>6, <2>1, GrownOK
<1>11. Agree(sniffer', stk, "none", capture', expected)
  <2>1. CASE Captured
    <3>1. PICK d : d = Len(stack) - capture.depth + 1
      OBVIOUS
    <3>2. d \in Nat \ {0} /\ (d = 1 <=> capture.depth = Len(stack))
      BY <2>1, <3>1, InsideFacts
    <3>3. Turns("none", t, "none")
      BY <1>3, TurnsFacts
    <3>4. Nesting(Shape(d, "none"), t) = Shape(d, "none")
      BY <3>2, <3>3 DEF Turns
    <3>5. capture.counts \o m = IF t \in Counts /\ d = 1 THEN Append(capture.counts, t) ELSE capture.counts
      <4>1. PICK n \in Seq(Counts) : n = capture.counts
        BY <2>1, InsideFacts
      <4>2. n \o <<t>> = Append(n, t) /\ n \o <<>> = n
        OBVIOUS
      <4> QED BY <1>4, <3>2, <4>1, <4>2
    <3>6. HeldByte(t, m, stk, "none", d, d)
      <4>1. "none" \in Strings /\ Wanted(stk) \notin {"usage", "named"}
        BY <1>8 DEF Strings
      <4> QED BY <1>2, <1>6, <1>7, <1>8, <1>9, <2>1, <3>1, <3>2, <3>4, <3>5, <4>1 DEF HeldByte
    <3>7. Agree(sniffer', stack', string', capture', expected)
      BY <2>1, <3>6, ByteHeld
    <3> QED BY <1>2, <1>7, <3>7
  <2>2. CASE ~Captured
    <3>1. capture' = capture /\ capture.depth = 0
      BY <1>6, <2>2 DEF Captured
    <3>2. PICK st \in Pending(Wanted(stack), "none") : sniffer = Sniffer(st, Empty, expected)
      BY <1>2, <3>1 DEF SniffInv, Agree
    <3>3. st = Searching(0)
      BY <1>2, <3>2 DEF Pending, Unnamed
    <3>4. Found(0, t) = Searching(0)
      BY <1>3 DEF Found
    <3>5. sniffer' = Sniffer(Searching(0), Empty, expected)
      BY <1>6, <3>2, <3>3, <3>4, SearchByte DEF Seeking
    <3> QED BY <1>5, <1>8, <3>1, <3>5 DEF Agree
  <2> QED BY <2>1, <2>2
<1> QED BY <1>2, <1>7, <1>8, <1>9, <1>10, <1>11 DEF SniffInv

-----------------------------------------------------------------------------
(* Objects.                                                                *)

(* A document begins.                                                      *)
LEMMA OpenDocumentInv == ASSUME SniffInv, OpenDocument PROVE SniffInv'
<1>1. stack = <<>> /\ UNCHANGED <<string, expected>> /\ stack' = <<"first">> /\ Write("open", <<>>)
  BY DEF OpenDocument
<1>2. ~Captured /\ capture.depth = 0 /\ string = "none" /\ Wanted(stack) = "first" /\ Len(stack) = 0
  BY <1>1, OutsideFacts
<1>3. sniffer' = FeedByte(sniffer, "open") /\ capture' = capture
  BY <1>1, <1>2, WriteIs DEF SniffInv
<1>4. PICK stk : stk = <<"first">>
  OBVIOUS
<1>5. stk \in Seq(Expects) /\ Len(stk) = 1 /\ stk[1] = "first" /\ stk # <<>>
  BY <1>4 DEF Expects
<1>6. StackOK(stk) /\ Wanted(stk) = "first" /\ StringOK("none", stk)
  BY <1>5, SnifferAssumption DEF StackOK, Wanted, StringOK, Strings
<1>7. CaptureOK(capture, stk)
  <2>1. CaptureOK(capture, stack)
    BY DEF SniffInv
  <2> QED BY <1>2, <1>5, <2>1 DEF CaptureOK
<1>8. Agree(sniffer', stk, "none", capture, expected)
  <2>1. Pending("first", "none") = {Searching(0)}
    BY DEF Pending, Unnamed
  <2>2. sniffer = Sniffer(Searching(0), Empty, expected)
    BY <1>2, <2>1 DEF SniffInv, Agree
  <2>3. Found(0, "open") = Searching(0)
    BY DEF Found
  <2>4. sniffer' = Sniffer(Searching(0), Empty, expected)
    BY <1>3, <2>2, <2>3, SearchByte DEF Seeking
  <2> QED BY <1>2, <1>6, <2>1, <2>4 DEF Agree
<1> QED BY <1>1, <1>2, <1>3, <1>4, <1>6, <1>7, <1>8 DEF SniffInv

(* It opens an object: the one the scanner waits for, one inside the       *)
(* captured one, or another.                                               *)
LEMMA OpenObjectInv == ASSUME SniffInv, OpenObject PROVE SniffInv'
<1>1. stack # <<>> /\ Len(stack) < MaxDepth /\ Wanted(stack) = Top /\ Top \in {"usage", "value"}
      /\ string = "none" /\ UNCHANGED <<string, expected>>
      /\ stack' = Append(Want("next"), "first")
  BY DEF OpenObject, Expecting, Unquoted, Wanted, Top
<1>3. "next" \in Expects /\ "first" \in Expects /\ "open" \notin Counts
  BY DEF Expects, Counts
<1>4. StackOK(Want("next")) /\ Len(Want("next")) = Len(stack) /\ Want("next")[Len(stack)] = "next"
      /\ Len(stack) \in Nat \ {0} /\ MaxDepth \in Nat
  BY <1>1, <1>3, WantFacts, SnifferAssumption DEF SniffInv
<1>5. PICK stk : stk = stack'
  OBVIOUS
<1>6. PICK h \in Nat : h = Len(stack) + 1
  BY <1>4
<1>7. stk \in Seq(Expects) /\ Len(stk) = h /\ stk[h] = "first" /\ \A i \in 1 .. h - 1 : stk[i] = "next"
  <2>1. PICK t \in Seq(Expects) : t = Want("next")
    BY <1>4 DEF StackOK
  <2>2. stk = Append(t, "first") /\ Len(t) = h - 1 /\ t[h - 1] = "next" /\ \A i \in 1 .. h - 2 : t[i] = "next"
    BY <1>1, <1>4, <1>5, <1>6, <2>1 DEF StackOK
  <2>3. stk \in Seq(Expects) /\ Len(stk) = h /\ stk[h] = "first" /\ \A i \in 1 .. h - 1 : stk[i] = t[i]
    BY <1>3, <2>2
  <2>4. \A i \in 1 .. h - 1 : t[i] = "next"
    BY <2>2
  <2> QED BY <2>3, <2>4
<1>8. StackOK(stk) /\ stk # <<>> /\ Wanted(stk) = "first" /\ StringOK("none", stk)
  BY <1>1, <1>4, <1>6, <1>7 DEF StackOK, Wanted, StringOK, Strings
<1>9. CASE Captured
  <2>1. Write("open", <<>>)
    BY <1>1, <1>9, InsideFacts DEF OpenObject
  <2>2. PICK m \in Seq(Counts) : m = <<>>
    <3>1. <<>> \in Seq(Counts)
      OBVIOUS
    <3> QED BY <3>1
  <2>4. sniffer' = FeedByte(sniffer, "open") /\ capture' = Grown(capture, m)
    BY <1>9, <2>1, <2>2, WriteIs DEF SniffInv
  <2>5. PICK d : d = Len(stack) - capture.depth + 1
    OBVIOUS
  <2>6. d \in Nat \ {0} /\ capture.depth <= h /\ capture.depth \in Nat
    BY <1>6, <1>9, <2>5, InsideFacts
  <2>7. PICK d2 : d2 = d + 1
    OBVIOUS
  <2>8. Nesting(Shape(d, "none"), "open") = Shape(d2, "none")
    BY <2>6, <2>7, NestingFacts DEF Shape
  <2>9. d2 # 0 /\ d2 = Len(stk) - capture.depth + 1
    <3>1. PICK k \in Nat : k = capture.depth
      BY <2>6
    <3>2. Len(stk) = h
      BY <1>7
    <3>3. PICK j \in Nat : j = Len(stack)
      BY <1>4
    <3>4. h = j + 1 /\ d = j - k + 1 /\ d2 = d + 1 /\ d \in Nat
      BY <1>6, <2>5, <2>6, <2>7, <3>1, <3>3
    <3>5. d2 # 0 /\ d2 = h - k + 1
      BY <3>4
    <3> QED BY <3>1, <3>2, <3>5
  <2>10. capture.counts \o m = capture.counts
    BY <1>9, <2>2, InsideFacts, ConcatEmptySeq
  <2>11. "none" \in Strings /\ Kept("none") = "none"
    BY DEF Strings, Kept
  <2>12. HeldByte("open", m, stk, "none", d, d2)
    BY <1>1, <1>3, <1>5, <1>8, <2>4, <2>5, <2>8, <2>9, <2>10, <2>11 DEF HeldByte
  <2>13. Agree(sniffer', stack', string', capture', expected)
    BY <1>9, <2>12, ByteHeld
  <2>14. CaptureOK(capture', stk)
    BY <1>6, <1>7, <1>9, <2>4, <2>6, GrownOK DEF SniffInv
  <2> QED BY <1>1, <1>5, <1>8, <2>13, <2>14 DEF SniffInv
<1>10. CASE ~Captured /\ Top = "value"
  <2>1. Write("open", <<>>) /\ capture.depth = 0
    BY <1>10 DEF OpenObject, Captured
  <2>2. sniffer' = FeedByte(sniffer, "open") /\ capture' = capture
    BY <1>10, <2>1, WriteIs DEF SniffInv
  <2>3. Pending("value", "none") = {Searching(0)} /\ Searching(0) \in Pending("first", "none")
    BY DEF Pending, Unnamed
  <2>4. sniffer = Sniffer(Searching(0), Empty, expected)
    BY <1>1, <1>10, <2>1, <2>3 DEF SniffInv, Agree
  <2>5. Found(0, "open") = Searching(0)
    BY DEF Found
  <2>6. sniffer' = Sniffer(Searching(0), Empty, expected)
    BY <2>2, <2>4, <2>5, SearchByte DEF Seeking
  <2>7. Agree(sniffer', stk, "none", capture, expected)
    BY <1>8, <2>1, <2>3, <2>6 DEF Agree
  <2>8. CaptureOK(capture, stk)
    BY <1>7, <2>1 DEF SniffInv, CaptureOK
  <2> QED BY <1>1, <1>5, <1>8, <2>2, <2>7, <2>8 DEF SniffInv
<1>11. CASE ~Captured /\ Top = "usage"
  <2>1. sniffer = Sniffer([at |-> "value"], Empty, expected)
    BY <1>1, <1>11 DEF SniffInv, Agree, Pending, Unnamed, Captured
  <2>2. sniffer' = Sniffer(Caught(1, FALSE, FALSE), Object(1, <<>>), expected)
    BY <1>11, <2>1, ValueByte DEF OpenObject
  <2>3. PICK c : c = [depth |-> h, len |-> 1, counts |-> <<>>]
    OBVIOUS
  <2>4. capture' = c
    BY <1>6, <1>11, <2>3 DEF OpenObject
  <2>5. c.depth = h /\ c.len = 1 /\ c.counts = <<>> /\ h # 0
    BY <1>4, <1>6, <2>3
  <2>6. Len(stk) - h + 1 = 1
    BY <1>7
  <2>7. Shape(1, "none") = Caught(1, FALSE, FALSE)
    BY DEF Shape
  <2>8. Agree(sniffer', stk, "none", c, expected)
    BY <1>8, <2>2, <2>5, <2>6, <2>7 DEF Agree
  <2>9. CaptureOK(c, stk)
    <3>1. <<>> \in Seq(Counts)
      OBVIOUS
    <3>2. c \in [depth : Nat, len : Nat, counts : Seq(Counts)]
      BY <2>3, <3>1
    <3>3. 1 < MaxObjectBytes /\ h <= Len(stk)
      BY <1>7, SnifferAssumption
    <3> QED BY <2>5, <3>2, <3>3 DEF CaptureOK
  <2> QED BY <1>1, <1>5, <1>8, <2>4, <2>8, <2>9 DEF SniffInv
<1> QED BY <1>1, <1>9, <1>10, <1>11

(* The byte that closes the captured object.                               *)
Closes(k, l, n, b, latest, r) ==
    /\ \E d, q, e : k = Caught(d, q, e)
    /\ l \in Nat /\ b \notin Counts
    /\ Nesting(k, b).depth = 0
    /\ r = IF Len(n) = 1 THEN n[1] ELSE latest

(* The counts of the object that is closed become the latest.              *)
LEMMA LastByte ==
    ASSUME NEW k, NEW l, NEW n, NEW b, NEW latest, NEW r, Closes(k, l, n, b, latest, r)
    PROVE  FeedByte(Sniffer(k, Object(l, n), latest), b) = Seeking(0, r)
<1>1. PICK d, q, e : k = Caught(d, q, e)
  BY DEF Closes
<1>2. PICK c : c = Nesting(k, b)
  OBVIOUS
<1>3. Takes(d, q, e, l, n, b, c, n) /\ c.depth = 0
  BY <1>1, <1>2 DEF Closes, Takes
<1>4. FeedByte(Sniffer(k, Object(l, n), latest), b) = Seeking(0, IF Len(n) = 1 THEN n[1] ELSE latest)
  BY <1>1, <1>3, CaptureByte
<1> QED BY <1>4 DEF Closes

(* It closes the captured object, one inside of it, or another.            *)
LEMMA CloseObjectInv == ASSUME SniffInv, CloseObject PROVE SniffInv'
<1>1. stack # <<>> /\ Wanted(stack) \in {"first", "next"} /\ stack' = Front(stack)
      /\ string = "none" /\ UNCHANGED string
  BY DEF CloseObject, Expecting, Unquoted, Wanted, Top
<1>2. "close" \notin Counts /\ Kept("none") = "none" /\ "none" \in Strings
  BY DEF Counts, Kept, Strings
<1>3. PICK stk : stk = stack'
  OBVIOUS
<1>4. PICK h \in Nat : h + 1 = Len(stack)
  <2>1. stack \in Seq(Expects)
    BY DEF SniffInv, StackOK
  <2>2. Len(stack) \in Nat \ {0}
    BY <1>1, <2>1
  <2>3. Len(stack) - 1 \in Nat /\ (Len(stack) - 1) + 1 = Len(stack)
    BY <2>2
  <2> QED BY <2>3
<1>5. stk \in Seq(Expects) /\ Len(stk) = h /\ \A i \in 1 .. h : stk[i] = "next"
  <2>1. PICK t \in Seq(Expects) : t = stack
    BY DEF SniffInv, StackOK
  <2>2. stk = SubSeq(t, 1, h) /\ Len(t) = h + 1 /\ \A i \in 1 .. h : t[i] = "next"
    <3>1. Len(t) - 1 = h
      BY <1>4, <2>1
    <3> QED BY <1>1, <1>3, <1>4, <2>1, <3>1 DEF Front, SniffInv, StackOK
  <2> QED BY <2>2
<1>6. StackOK(stk) /\ Wanted(stk) \in {"first", "next"} /\ StringOK("none", stk)
  <2>1. h + 1 <= MaxDepth /\ MaxDepth \in Nat
    BY <1>4, SnifferAssumption DEF SniffInv, StackOK
  <2>2. Len(stk) <= MaxDepth /\ \A i \in 1 .. Len(stk) - 1 : stk[i] = "next"
    BY <1>5, <2>1
  <2>3. h = 0 => stk = <<>>
    BY <1>5
  <2>4. h # 0 => stk[Len(stk)] = "next"
    BY <1>5
  <2> QED BY <1>2, <1>5, <2>2, <2>3, <2>4 DEF StackOK, Wanted, StringOK
<1>7. CaptureOK(capture, stack)
  BY DEF SniffInv
<1>8. Searching(0) \in Pending(Wanted(stk), "none")
  BY <1>6 DEF Pending, Unnamed, Trail
<1>9. CASE ~Captured
  <2>1. capture.depth = 0 /\ capture.depth # Len(stack)
    BY <1>4, <1>9 DEF Captured
  <2>2. Write("close", <<>>) /\ UNCHANGED expected
    BY <2>1 DEF CloseObject
  <2>3. sniffer' = FeedByte(sniffer, "close") /\ capture' = capture
    BY <1>7, <1>9, <2>2, WriteIs
  <2>4. PICK st \in Trail : sniffer = Sniffer(st, Empty, expected)
    BY <1>1, <2>1 DEF SniffInv, Agree, Pending, Unnamed, Trail
  <2>5. Steps({st}, "close", {Searching(0)})
    <3>1. Steps({Searching(0)}, "close", {Searching(0)}) /\ Steps({Searching(1)}, "close", {Searching(0)})
          /\ Steps({[at |-> "colon"]}, "close", {Searching(0)})
      BY StepsFacts DEF Found
    <3> QED BY <3>1 DEF Trail
  <2>6. sniffer' = Sniffer(Searching(0), Empty, expected)
    BY <2>3, <2>4, <2>5 DEF Steps
  <2>7. Agree(sniffer', stk, "none", capture, expected)
    BY <1>8, <2>1, <2>6 DEF Agree
  <2>8. CaptureOK(capture, stk)
    BY <1>5, <1>7, <2>1 DEF CaptureOK
  <2> QED BY <1>1, <1>3, <1>6, <2>2, <2>3, <2>7, <2>8 DEF SniffInv
<1>10. CASE Captured /\ capture.depth # Len(stack)
  <2>1. Write("close", <<>>) /\ UNCHANGED expected
    BY <1>10 DEF CloseObject
  <2>2. PICK m \in Seq(Counts) : m = <<>>
    <3>1. <<>> \in Seq(Counts)
      OBVIOUS
    <3> QED BY <3>1
  <2>4. sniffer' = FeedByte(sniffer, "close") /\ capture' = Grown(capture, m)
    BY <1>7, <1>10, <2>1, <2>2, WriteIs
  <2>5. PICK d2 : d2 = h - capture.depth + 1
    OBVIOUS
  <2>6. capture.depth \in Nat /\ capture.depth <= h /\ capture.depth # 0
    BY <1>4, <1>10, InsideFacts
  <2>7. PICK d \in Nat : d = d2 + 1
    BY <2>5, <2>6
  <2>8. d = Len(stack) - capture.depth + 1 /\ d2 # 0 /\ d - 1 = d2
    BY <1>4, <2>5, <2>6, <2>7
  <2>9. Nesting(Shape(d, "none"), "close") = Shape(d2, "none")
    BY <2>8, NestingFacts DEF Shape
  <2>10. capture.counts \o m = capture.counts
    BY <1>10, <2>2, InsideFacts, ConcatEmptySeq
  <2>11. d2 = Len(stk) - capture.depth + 1
    BY <1>5, <2>5
  <2>12. HeldByte("close", m, stk, "none", d, d2)
    BY <1>1, <1>2, <1>3, <1>6, <2>4, <2>8, <2>9, <2>10, <2>11 DEF HeldByte
  <2>13. Agree(sniffer', stack', string', capture', expected)
    BY <1>10, <2>12, ByteHeld
  <2>14. CaptureOK(capture', stk)
    BY <1>5, <1>7, <1>10, <2>2, <2>4, <2>6, GrownOK
  <2> QED BY <1>1, <1>3, <1>6, <2>1, <2>13, <2>14 DEF SniffInv
<1>11. CASE Captured /\ capture.depth = Len(stack)
  <2>1. PICK n \in Seq(Counts) : n = capture.counts
    BY <1>11, InsideFacts
  <2>2. PICK e : e = IF Len(n) = 1 THEN n[1] ELSE expected
    OBVIOUS
  <2>3. sniffer' = FeedByte(sniffer, "close") /\ capture' = NoCapture /\ expected' = e
    BY <1>11, <2>1, <2>2 DEF CloseObject
  <2>4. Len(stack) - capture.depth + 1 = 1 /\ capture.len \in Nat /\ 1 \in Nat /\ 1 - 1 = 0
    BY <1>4, <1>11, InsideFacts
  <2>5. Nesting(Caught(1, FALSE, FALSE), "close") = Caught(0, FALSE, FALSE)
    BY <2>4, NestingFacts
  <2>6. Caught(0, FALSE, FALSE).depth = 0 /\ Shape(1, "none") = Caught(1, FALSE, FALSE)
    BY DEF Caught, Shape
  <2>7. sniffer = Sniffer(Caught(1, FALSE, FALSE), Object(capture.len, n), expected)
    BY <1>1, <1>11, <2>1, <2>4, <2>6, InsideFacts
  <2>8. sniffer' = Sniffer(Searching(0), Empty, e)
    <3>1. PICK k : k = Caught(1, FALSE, FALSE)
      OBVIOUS
    <3>2. Nesting(k, "close").depth = 0 /\ \E d, q, x : k = Caught(d, q, x)
      BY <2>5, <2>6, <3>1
    <3>3. Closes(k, capture.len, n, "close", expected, e)
      BY <1>2, <2>2, <2>4, <3>2 DEF Closes
    <3>4. sniffer = Sniffer(k, Object(capture.len, n), expected)
      BY <2>7, <3>1
    <3> QED BY <2>3, <3>3, <3>4, LastByte DEF Seeking
  <2>9. NoCapture.depth = 0
    BY DEF NoCapture
  <2>10. Agree(sniffer', stk, "none", NoCapture, e)
    BY <1>8, <2>8, <2>9 DEF Agree
  <2>11. CaptureOK(NoCapture, stk)
    <3>1. <<>> \in Seq(Counts)
      OBVIOUS
    <3> QED BY <1>5, <3>1, SnifferAssumption DEF CaptureOK, NoCapture
  <2>12. e \in Counts \cup {NoUsage}
    <3>1. expected \in Counts \cup {NoUsage}
      BY DEF SniffInv
    <3> QED BY <2>2, <3>1
  <2> QED BY <1>1, <1>3, <1>6, <2>3, <2>10, <2>11, <2>12 DEF SniffInv
<1> QED BY <1>9, <1>10, <1>11

-----------------------------------------------------------------------------
(* Every byte keeps the inductive invariant.                               *)
LEMMA SniffNextInv == SniffInv /\ [SniffNext]_sniffVars => SniffInv'
<1> SUFFICES ASSUME SniffInv, [SniffNext]_sniffVars PROVE SniffInv'
  OBVIOUS
<1>1. CASE UNCHANGED sniffVars
  BY <1>1 DEF sniffVars, SniffInv
<1>2. CASE SniffNext
  BY <1>2, BetweenInv, WriteSpaceInv, OpenStringInv, StringByteInv, EscapedByteInv, CloseStringInv,
     WriteColonInv, WriteNullInv, PlainInv, WriteCountInv, OpenDocumentInv, OpenObjectInv,
     CloseObjectInv DEF SniffNext
<1> QED BY <1>1, <1>2

(* What the run checks is part of the inductive invariant.                 *)
LEMMA SniffInvGives == SniffInv => SniffTypeOK /\ UsageIsTheLastObject
<1> SUFFICES ASSUME SniffInv PROVE SniffTypeOK /\ UsageIsTheLastObject
  OBVIOUS
<1>1. expected \in Counts \cup {NoUsage} /\ MaxObjectBytes \in Nat \ {0, 1}
  BY SnifferAssumption DEF SniffInv
<1>2. CASE Captured
  <2>1. PICK d : d = Len(stack) - capture.depth + 1
    OBVIOUS
  <2>2. PICK l, n : l = capture.len /\ n = capture.counts
    OBVIOUS
  <2>3. d \in 1 .. MaxDepth
    <3>1. Len(stack) \in Nat /\ Len(stack) <= MaxDepth
      BY <1>2, InsideFacts DEF SniffInv, StackOK
    <3> QED BY <1>2, <2>1, <3>1, InsideFacts, SnifferAssumption
  <2>4. l \in 0 .. MaxObjectBytes - 1
    BY <1>1, <1>2, <2>2, InsideFacts
  <2>5. PICK st : st = Shape(d, string)
    OBVIOUS
  <2>6. st.at = "capturing" /\ st.depth = d
    BY <2>5 DEF Shape, Caught
  <2>7. sniffer = Sniffer(st, Object(l, n), expected)
    BY <1>2, <2>1, <2>2, <2>5, InsideFacts
  <2>8. sniffer.state = st /\ sniffer.object.len = l /\ sniffer.latest = expected
    BY <2>7 DEF Sniffer, Object
  <2> QED BY <1>1, <2>3, <2>4, <2>6, <2>8 DEF SniffTypeOK, UsageIsTheLastObject
<1>3. CASE ~Captured
  <2>1. PICK st \in Pending(Wanted(stack), string) : sniffer = Sniffer(st, Empty, expected)
    BY <1>3 DEF SniffInv, Agree, Captured
  <2>2. st.at \in {"searching", "colon", "value", "null"}
    BY DEF Pending, Unnamed, Trail, Searching, NullBegun
  <2>3. sniffer.state = st /\ sniffer.object.len = 0 /\ sniffer.latest = expected
    BY <2>1 DEF Sniffer, Empty
  <2> QED BY <1>1, <2>2, <2>3 DEF SniffTypeOK, UsageIsTheLastObject
<1> QED BY <1>2, <1>3

(* After every byte of a body, the scanner captures exactly the outermost  *)
(* usage object that the body is in, unless it has grown past              *)
(* MAX_OBJECT_BYTES: the value of a member whose name, as it is written,   *)
(* is usage or ends in an escaped quote and usage.                         *)
THEOREM SnifferInvariant == SniffSpec => []SniffInv
<1>1. SniffInit => SniffInv
  BY SniffInitInv
<1>2. SniffInv /\ [SniffNext]_sniffVars => SniffInv'
  BY SniffNextInv
<1> QED BY <1>1, <1>2, PTL DEF SniffSpec

(* UsageSniffer reports the counts of the last complete object of such a   *)
(* member that is not too large and has counts, whatever names, strings,   *)
(* escapes, nested objects, arrays and nulls surround it, for every depth  *)
(* of nesting and every limit on the object.                               *)
THEOREM LastUsageIsReported == SniffSpec => []UsageIsTheLastObject
<1>1. SniffInv => UsageIsTheLastObject
  BY SniffInvGives
<1> QED BY <1>1, SnifferInvariant, PTL

-----------------------------------------------------------------------------
(* Metrics pages.                                                          *)

USE TextAssumption

-----------------------------------------------------------------------------
(* Label sets, byte by byte.                                               *)

Label(at, escaped, quoted, end) == [at |-> at, escaped |-> escaped, quoted |-> quoted, end |-> end]

(* find_label_set_end reads byte after byte: the recursive function that   *)
(* models it has a value.                                                  *)
LEMMA LabelScan ==
    ASSUME NEW T, NEW bytes \in Seq(T)
    PROVE  \E f : /\ f[0] = Label(1, FALSE, FALSE, 0)
                  /\ \A i \in 1 .. Len(bytes) : f[i] = ScanLabel(f[i - 1], bytes[i])
                  /\ FindLabelSetEnd(bytes) = f[Len(bytes)].end
<1>0. PICK start : start = [at |-> 1, escaped |-> FALSE, quoted |-> FALSE, end |-> 0]
  OBVIOUS
<1> DEFINE Scanning(f, n) == f = [i \in 0 .. n |-> IF i = 0 THEN start ELSE ScanLabel(f[i - 1], bytes[i])]
           S == {n \in Nat : \E f : Scanning(f, n)}
<1>1. 0 \in S
  <2> DEFINE f == [i \in 0 .. 0 |-> start]
  <2>1. Scanning(f, 0)
    OBVIOUS
  <2> QED BY <2>1
<1>2. ASSUME NEW n \in Nat, n \in S PROVE n + 1 \in S
  <2>1. PICK f : Scanning(f, n)
    BY <1>2
  <2> DEFINE g == [i \in 0 .. n + 1 |-> IF i = n + 1 THEN ScanLabel(f[n], bytes[n + 1]) ELSE f[i]]
  <2>2. ASSUME NEW i \in 0 .. n + 1
        PROVE  g[i] = IF i = 0 THEN start ELSE ScanLabel(g[i - 1], bytes[i])
    <3>1. CASE i = 0
      BY <2>1, <3>1
    <3>2. CASE i = n + 1
      <4>1. g[i] = ScanLabel(f[n], bytes[n + 1]) /\ n \in 0 .. n + 1 /\ n # n + 1
        BY <3>2
      <4>2. g[n] = f[n]
        BY <4>1
      <4>3. i - 1 = n /\ i # 0
        BY <3>2
      <4> HIDE DEF g
      <4> QED BY <3>2, <4>1, <4>2, <4>3
    <3>3. CASE i \in 1 .. n
      <4>1. i - 1 \in 0 .. n /\ i - 1 # n + 1 /\ i # n + 1 /\ i \in 0 .. n /\ i # 0
        BY <3>3
      <4>2. g[i] = f[i] /\ g[i - 1] = f[i - 1]
        BY <4>1
      <4>3. f[i] = ScanLabel(f[i - 1], bytes[i])
        BY <2>1, <4>1
      <4> HIDE DEF g
      <4> QED BY <4>1, <4>2, <4>3
    <3> QED BY <3>1, <3>2, <3>3
  <2>3. Scanning(g, n + 1)
    <3>1. g = [i \in 0 .. n + 1 |-> g[i]]
      OBVIOUS
    <3> HIDE DEF g
    <3> QED BY <2>2, <3>1
  <2>4. n + 1 \in Nat /\ \E h : Scanning(h, n + 1)
    <3> HIDE DEF Scanning, g
    <3> QED BY <2>3
  <2> HIDE DEF Scanning
  <2> QED BY <2>4
<1>3. Len(bytes) \in S /\ Len(bytes) \in Nat
  <2>1. \A n \in Nat : n \in S
    <3> HIDE DEF S
    <3> QED BY <1>1, <1>2, SetInduction
  <2> QED BY <2>1
<1>4. \E f : Scanning(f, Len(bytes))
  BY <1>3
<1> DEFINE scan == CHOOSE f : Scanning(f, Len(bytes))
<1>5. Scanning(scan, Len(bytes))
  <2> HIDE DEF Scanning
  <2> QED BY <1>4
<1>6. FindLabelSetEnd(bytes) = scan[Len(bytes)].end
  BY <1>0 DEF FindLabelSetEnd
<1> HIDE DEF scan
<1>7. scan[0] = start
  BY <1>3, <1>5
<1>8. \A i \in 1 .. Len(bytes) : scan[i] = ScanLabel(scan[i - 1], bytes[i])
  BY <1>3, <1>5
<1>9. scan[0] = Label(1, FALSE, FALSE, 0)
  BY <1>0, <1>7 DEF Label
<1> QED BY <1>6, <1>8, <1>9

(* How a byte moves string and escape.                                     *)
LEMMA LabelByte ==
    ASSUME NEW at \in Nat \ {0}
    PROVE  /\ ScanLabel(Label(at, FALSE, FALSE, 0), "q") = Label(at + 1, FALSE, TRUE, 0)
           /\ ScanLabel(Label(at, FALSE, FALSE, 0), "close") = Label(at + 1, FALSE, FALSE, at)
           /\ ScanLabel(Label(at, FALSE, FALSE, 0), "open") = Label(at + 1, FALSE, FALSE, 0)
           /\ ScanLabel(Label(at, FALSE, TRUE, 0), "q") = Label(at + 1, FALSE, FALSE, 0)
           /\ ScanLabel(Label(at, FALSE, TRUE, 0), "\\") = Label(at + 1, TRUE, TRUE, 0)
           /\ \A b : b \notin {"q", "\\"} =>
                  ScanLabel(Label(at, FALSE, TRUE, 0), b) = Label(at + 1, FALSE, TRUE, 0)
           /\ \A b : ScanLabel(Label(at, TRUE, TRUE, 0), b) = Label(at + 1, FALSE, TRUE, 0)
  BY DEF ScanLabel, Label

(* The sets that end do so at their last byte; the other does not end.     *)
LEMMA LabelEnds ==
    /\ \A l \in LabelSets : l # <<>> /\ FindLabelSetEnd(l) = Len(l)
    /\ Unterminated # <<>> /\ FindLabelSetEnd(Unterminated) # Len(Unterminated)
<1>1. ASSUME NEW l, l = <<"open", "q", "v", "q", "close">> PROVE l # <<>> /\ FindLabelSetEnd(l) = Len(l)
  <2>1. l \in Seq({"close", "open", "q", "v"}) /\ Len(l) = 5 /\ l # <<>>
    BY <1>1
  <2>2. PICK f : /\ f[0] = Label(1, FALSE, FALSE, 0)
                 /\ \A i \in 1 .. Len(l) : f[i] = ScanLabel(f[i - 1], l[i])
                 /\ FindLabelSetEnd(l) = f[Len(l)].end
    BY <2>1, LabelScan
  <2>3. /\ f[1] = ScanLabel(f[0], "open")
        /\ f[2] = ScanLabel(f[1], "q")
        /\ f[3] = ScanLabel(f[2], "v")
        /\ f[4] = ScanLabel(f[3], "q")
        /\ f[5] = ScanLabel(f[4], "close")
    <3>1. \A i \in 1 .. 5 : f[i] = ScanLabel(f[i - 1], l[i])
      BY <2>1, <2>2
    <3> QED BY <1>1, <3>1
  <2>4. f[1] = Label(2, FALSE, FALSE, 0)
    <3>1. 1 \in Nat \ {0} /\ 1 + 1 = 2
      OBVIOUS
    <3> QED BY <2>2, <2>3, <3>1, LabelByte
  <2>5. f[2] = Label(3, FALSE, TRUE, 0)
    <3>1. 2 \in Nat \ {0} /\ 2 + 1 = 3
      OBVIOUS
    <3> QED BY <2>4, <2>3, <3>1, LabelByte
  <2>6. f[3] = Label(4, FALSE, TRUE, 0)
    <3>1. 3 \in Nat \ {0} /\ 3 + 1 = 4
      OBVIOUS
    <3> QED BY <2>5, <2>3, <3>1, LabelByte
  <2>7. f[4] = Label(5, FALSE, FALSE, 0)
    <3>1. 4 \in Nat \ {0} /\ 4 + 1 = 5
      OBVIOUS
    <3> QED BY <2>6, <2>3, <3>1, LabelByte
  <2>8. f[5] = Label(6, FALSE, FALSE, 5)
    <3>1. 5 \in Nat \ {0} /\ 5 + 1 = 6
      OBVIOUS
    <3> QED BY <2>7, <2>3, <3>1, LabelByte
  <2>9. Label(6, FALSE, FALSE, 5).end = 5
    BY DEF Label
  <2>10. FindLabelSetEnd(l) = 5
    BY <2>1, <2>2, <2>8, <2>9
  <2> QED BY <2>1, <2>10
<1>2. ASSUME NEW l, l = <<"open", "q", "close", "q", "close">> PROVE l # <<>> /\ FindLabelSetEnd(l) = Len(l)
  <2>1. l \in Seq({"close", "open", "q"}) /\ Len(l) = 5 /\ l # <<>>
    BY <1>2
  <2>2. PICK f : /\ f[0] = Label(1, FALSE, FALSE, 0)
                 /\ \A i \in 1 .. Len(l) : f[i] = ScanLabel(f[i - 1], l[i])
                 /\ FindLabelSetEnd(l) = f[Len(l)].end
    BY <2>1, LabelScan
  <2>3. /\ f[1] = ScanLabel(f[0], "open")
        /\ f[2] = ScanLabel(f[1], "q")
        /\ f[3] = ScanLabel(f[2], "close")
        /\ f[4] = ScanLabel(f[3], "q")
        /\ f[5] = ScanLabel(f[4], "close")
    <3>1. \A i \in 1 .. 5 : f[i] = ScanLabel(f[i - 1], l[i])
      BY <2>1, <2>2
    <3> QED BY <1>2, <3>1
  <2>4. f[1] = Label(2, FALSE, FALSE, 0)
    <3>1. 1 \in Nat \ {0} /\ 1 + 1 = 2
      OBVIOUS
    <3> QED BY <2>2, <2>3, <3>1, LabelByte
  <2>5. f[2] = Label(3, FALSE, TRUE, 0)
    <3>1. 2 \in Nat \ {0} /\ 2 + 1 = 3
      OBVIOUS
    <3> QED BY <2>4, <2>3, <3>1, LabelByte
  <2>6. f[3] = Label(4, FALSE, TRUE, 0)
    <3>1. 3 \in Nat \ {0} /\ 3 + 1 = 4
      OBVIOUS
    <3> QED BY <2>5, <2>3, <3>1, LabelByte
  <2>7. f[4] = Label(5, FALSE, FALSE, 0)
    <3>1. 4 \in Nat \ {0} /\ 4 + 1 = 5
      OBVIOUS
    <3> QED BY <2>6, <2>3, <3>1, LabelByte
  <2>8. f[5] = Label(6, FALSE, FALSE, 5)
    <3>1. 5 \in Nat \ {0} /\ 5 + 1 = 6
      OBVIOUS
    <3> QED BY <2>7, <2>3, <3>1, LabelByte
  <2>9. Label(6, FALSE, FALSE, 5).end = 5
    BY DEF Label
  <2>10. FindLabelSetEnd(l) = 5
    BY <2>1, <2>2, <2>8, <2>9
  <2> QED BY <2>1, <2>10
<1>3. ASSUME NEW l, l = <<"open", "q", "\\", "q", "close", "q", "close">> PROVE l # <<>> /\ FindLabelSetEnd(l) = Len(l)
  <2>1. l \in Seq({"\\", "close", "open", "q"}) /\ Len(l) = 7 /\ l # <<>>
    BY <1>3
  <2>2. PICK f : /\ f[0] = Label(1, FALSE, FALSE, 0)
                 /\ \A i \in 1 .. Len(l) : f[i] = ScanLabel(f[i - 1], l[i])
                 /\ FindLabelSetEnd(l) = f[Len(l)].end
    BY <2>1, LabelScan
  <2>3. /\ f[1] = ScanLabel(f[0], "open")
        /\ f[2] = ScanLabel(f[1], "q")
        /\ f[3] = ScanLabel(f[2], "\\")
        /\ f[4] = ScanLabel(f[3], "q")
        /\ f[5] = ScanLabel(f[4], "close")
        /\ f[6] = ScanLabel(f[5], "q")
        /\ f[7] = ScanLabel(f[6], "close")
    <3>1. \A i \in 1 .. 7 : f[i] = ScanLabel(f[i - 1], l[i])
      BY <2>1, <2>2
    <3> QED BY <1>3, <3>1
  <2>4. f[1] = Label(2, FALSE, FALSE, 0)
    <3>1. 1 \in Nat \ {0} /\ 1 + 1 = 2
      OBVIOUS
    <3> QED BY <2>2, <2>3, <3>1, LabelByte
  <2>5. f[2] = Label(3, FALSE, TRUE, 0)
    <3>1. 2 \in Nat \ {0} /\ 2 + 1 = 3
      OBVIOUS
    <3> QED BY <2>4, <2>3, <3>1, LabelByte
  <2>6. f[3] = Label(4, TRUE, TRUE, 0)
    <3>1. 3 \in Nat \ {0} /\ 3 + 1 = 4
      OBVIOUS
    <3> QED BY <2>5, <2>3, <3>1, LabelByte
  <2>7. f[4] = Label(5, FALSE, TRUE, 0)
    <3>1. 4 \in Nat \ {0} /\ 4 + 1 = 5
      OBVIOUS
    <3> QED BY <2>6, <2>3, <3>1, LabelByte
  <2>8. f[5] = Label(6, FALSE, TRUE, 0)
    <3>1. 5 \in Nat \ {0} /\ 5 + 1 = 6
      OBVIOUS
    <3> QED BY <2>7, <2>3, <3>1, LabelByte
  <2>9. f[6] = Label(7, FALSE, FALSE, 0)
    <3>1. 6 \in Nat \ {0} /\ 6 + 1 = 7
      OBVIOUS
    <3> QED BY <2>8, <2>3, <3>1, LabelByte
  <2>10. f[7] = Label(8, FALSE, FALSE, 7)
    <3>1. 7 \in Nat \ {0} /\ 7 + 1 = 8
      OBVIOUS
    <3> QED BY <2>9, <2>3, <3>1, LabelByte
  <2>11. Label(8, FALSE, FALSE, 7).end = 7
    BY DEF Label
  <2>12. FindLabelSetEnd(l) = 7
    BY <2>1, <2>2, <2>10, <2>11
  <2> QED BY <2>1, <2>12
<1>4. ASSUME NEW l, l = <<"open", "q", "close">> PROVE l # <<>> /\ FindLabelSetEnd(l) # Len(l)
  <2>1. l \in Seq({"close", "open", "q"}) /\ Len(l) = 3 /\ l # <<>>
    BY <1>4
  <2>2. PICK f : /\ f[0] = Label(1, FALSE, FALSE, 0)
                 /\ \A i \in 1 .. Len(l) : f[i] = ScanLabel(f[i - 1], l[i])
                 /\ FindLabelSetEnd(l) = f[Len(l)].end
    BY <2>1, LabelScan
  <2>3. /\ f[1] = ScanLabel(f[0], "open")
        /\ f[2] = ScanLabel(f[1], "q")
        /\ f[3] = ScanLabel(f[2], "close")
    <3>1. \A i \in 1 .. 3 : f[i] = ScanLabel(f[i - 1], l[i])
      BY <2>1, <2>2
    <3> QED BY <1>4, <3>1
  <2>4. f[1] = Label(2, FALSE, FALSE, 0)
    <3>1. 1 \in Nat \ {0} /\ 1 + 1 = 2
      OBVIOUS
    <3> QED BY <2>2, <2>3, <3>1, LabelByte
  <2>5. f[2] = Label(3, FALSE, TRUE, 0)
    <3>1. 2 \in Nat \ {0} /\ 2 + 1 = 3
      OBVIOUS
    <3> QED BY <2>4, <2>3, <3>1, LabelByte
  <2>6. f[3] = Label(4, FALSE, TRUE, 0)
    <3>1. 3 \in Nat \ {0} /\ 3 + 1 = 4
      OBVIOUS
    <3> QED BY <2>5, <2>3, <3>1, LabelByte
  <2>7. Label(4, FALSE, TRUE, 0).end = 0
    BY DEF Label
  <2>8. FindLabelSetEnd(l) = 0
    BY <2>1, <2>2, <2>6, <2>7
  <2> QED BY <2>1, <2>8
<1> QED BY <1>1, <1>2, <1>3, <1>4 DEF LabelSets, Unterminated

-----------------------------------------------------------------------------
(* Sums.                                                                   *)

Sums(f, said) ==
    f[0] = 0 /\ \A i \in 1 .. Len(said) : f[i] = f[i - 1] + said[i].value.halves

(* The sum of what is told is the last of the partial sums.                *)
LEMMA TotalSums ==
    ASSUME NEW T, NEW said \in Seq(T)
    PROVE  \E f : Sums(f, said) /\ Total(said) = f[Len(said)]
<1> DEFINE Summed(f, n) == f = [i \in 0 .. n |-> IF i = 0 THEN 0 ELSE f[i - 1] + said[i].value.halves]
           S == {n \in Nat : \E f : Summed(f, n)}
<1>1. 0 \in S
  <2> DEFINE f == [i \in 0 .. 0 |-> 0]
  <2>1. Summed(f, 0)
    OBVIOUS
  <2> QED BY <2>1
<1>2. ASSUME NEW n \in Nat, n \in S PROVE n + 1 \in S
  <2>1. PICK f : Summed(f, n)
    BY <1>2
  <2> DEFINE g == [i \in 0 .. n + 1 |-> IF i = n + 1 THEN f[n] + said[n + 1].value.halves ELSE f[i]]
  <2>2. ASSUME NEW i \in 0 .. n + 1
        PROVE  g[i] = IF i = 0 THEN 0 ELSE g[i - 1] + said[i].value.halves
    <3>1. CASE i = 0
      BY <2>1, <3>1
    <3>2. CASE i = n + 1
      <4>1. g[i] = f[n] + said[n + 1].value.halves /\ n \in 0 .. n + 1 /\ n # n + 1
        BY <3>2
      <4>2. g[n] = f[n]
        BY <4>1
      <4>3. i - 1 = n /\ i # 0
        BY <3>2
      <4> HIDE DEF g
      <4> QED BY <3>2, <4>1, <4>2, <4>3
    <3>3. CASE i \in 1 .. n
      <4>1. i - 1 \in 0 .. n /\ i - 1 # n + 1 /\ i # n + 1 /\ i \in 0 .. n /\ i # 0
        BY <3>3
      <4>2. g[i] = f[i] /\ g[i - 1] = f[i - 1]
        BY <4>1
      <4>3. f[i] = f[i - 1] + said[i].value.halves
        BY <2>1, <4>1
      <4> HIDE DEF g
      <4> QED BY <4>1, <4>2, <4>3
    <3> QED BY <3>1, <3>2, <3>3
  <2>3. Summed(g, n + 1)
    <3>1. g = [i \in 0 .. n + 1 |-> g[i]]
      OBVIOUS
    <3> HIDE DEF g
    <3> QED BY <2>2, <3>1
  <2>4. n + 1 \in Nat /\ \E h : Summed(h, n + 1)
    <3> HIDE DEF Summed, g
    <3> QED BY <2>3
  <2> HIDE DEF Summed
  <2> QED BY <2>4
<1>3. Len(said) \in S /\ Len(said) \in Nat
  <2>1. \A n \in Nat : n \in S
    <3> HIDE DEF S
    <3> QED BY <1>1, <1>2, SetInduction
  <2> QED BY <2>1
<1>4. \E f : Summed(f, Len(said))
  BY <1>3
<1> DEFINE sum == CHOOSE f : Summed(f, Len(said))
<1>5. Summed(sum, Len(said))
  <2> HIDE DEF Summed
  <2> QED BY <1>4
<1>6. Total(said) = sum[Len(said)]
  BY DEF Total
<1> HIDE DEF sum
<1>7. sum[0] = 0
  BY <1>3, <1>5
<1>8. \A i \in 1 .. Len(said) : sum[i] = sum[i - 1] + said[i].value.halves
  BY <1>3, <1>5
<1> QED BY <1>6, <1>7, <1>8 DEF Sums

Labels == {Unlabelled} \cup LabelSets
Value == [finite : BOOLEAN, halves : Int]
Said == [sense : BOOLEAN, labels : Labels, value : Value]

(* What is told last is added.                                             *)
LEMMA TotalAppend ==
    ASSUME NEW said \in Seq(Said), NEW x \in Said
    PROVE  Total(Append(said, x)) = Total(said) + x.value.halves
<1>1. PICK n \in Nat : n = Len(said)
  OBVIOUS
<1>2. PICK more \in Seq(Said) : more = Append(said, x)
  <2>1. Append(said, x) \in Seq(Said)
    OBVIOUS
  <2> QED BY <2>1
<1>3. Len(more) = n + 1 /\ more[n + 1] = x /\ \A i \in 1 .. n : more[i] = said[i]
  BY <1>1, <1>2
<1>4. PICK f : Sums(f, said) /\ Total(said) = f[n]
  BY <1>1, TotalSums
<1>5. PICK g : Sums(g, more) /\ Total(more) = g[n + 1]
  BY <1>3, TotalSums
<1> DEFINE S == {i \in Nat : i <= n => f[i] = g[i]}
<1>6. 0 \in S
  BY <1>4, <1>5 DEF Sums
<1>7. ASSUME NEW i \in Nat, i \in S PROVE i + 1 \in S
  <2>1. CASE i + 1 <= n
    <3>1. i + 1 \in 1 .. Len(said) /\ i + 1 \in 1 .. Len(more) /\ (i + 1) - 1 = i /\ i <= n
      BY <1>1, <1>3, <2>1
    <3>2. f[i + 1] = f[i] + said[i + 1].value.halves /\ g[i + 1] = g[i] + more[i + 1].value.halves
      BY <1>4, <1>5, <3>1 DEF Sums
    <3>3. f[i] = g[i] /\ said[i + 1] = more[i + 1]
      BY <1>1, <1>3, <1>7, <3>1
    <3> QED BY <3>2, <3>3
  <2>2. CASE ~(i + 1 <= n)
    BY <2>2
  <2> QED BY <2>1, <2>2
<1>8. n \in S
  <2> HIDE DEF S
  <2> QED BY <1>6, <1>7, SetInduction
<1>9. f[n] = g[n]
  BY <1>8
<1>10. g[n + 1] = g[n] + x.value.halves
  <2>1. n + 1 \in 1 .. Len(more) /\ (n + 1) - 1 = n
    BY <1>3
  <2> QED BY <1>3, <1>5, <2>1 DEF Sums
<1> QED BY <1>2, <1>4, <1>5, <1>9, <1>10

(* Nothing sums up to nothing.                                             *)
LEMMA TotalNone == Total(<<>>) = 0
<1>1. <<>> \in Seq(Said) /\ Len(<<>>) = 0
  OBVIOUS
<1>2. PICK f : Sums(f, <<>>) /\ Total(<<>>) = f[0]
  BY <1>1, TotalSums
<1> QED BY <1>2 DEF Sums

-----------------------------------------------------------------------------
(* Lines.                                                                  *)

(* What a line says, if parse_sample_line can read it.                     *)
LEMMA LineFacts ==
    ASSUME NEW line \in Bodies
    PROVE  /\ line.value \in Value
           /\ line.labels \in Labels \cup {Unterminated}
           /\ Says(line) \in Said
           /\ Says(line).value = line.value
           /\ Says(line).sense <=> ParseSampleLine(line)
           /\ Says(line).sense => Says(line).labels = line.labels
<1>1. \A v \in Values : v \in Value
  <2>1. None \in Value /\ \A n \in Int : Number(n) \in Value
    BY DEF Value, None, Number
  <2>2. {-2, 0, 1, 2, MaxExact + 2} \subseteq Int
    OBVIOUS
  <2> QED BY <2>1, <2>2 DEF Values
<1>2. Number(2) \in Values
  BY DEF Values
<1>3. /\ line = [labels |-> line.labels, value |-> line.value, rest |-> line.rest]
      /\ line.value \in Values /\ line.labels \in {Unlabelled, Unterminated} \cup LabelSets
  BY <1>2 DEF Bodies, Ordinary
<1>4. PICK l, v, r : line = [labels |-> l, value |-> v, rest |-> r]
  BY <1>3
<1>5. line.labels = l /\ line.value = v /\ line.rest = r
  BY <1>4
<1>6. v \in Value /\ l \in Labels \cup {Unterminated}
  BY <1>1, <1>3, <1>5 DEF Labels
<1>7. Unterminated \notin LabelSets /\ Unterminated # <<>>
  BY LabelEnds
<1>8. (l # Unterminated /\ r # "junk") <=> ParseSampleLine(line)
  <2>1. l # Unterminated <=> (l = <<>> \/ FindLabelSetEnd(l) = Len(l))
    BY <1>6, <1>7, LabelEnds DEF Labels, Unlabelled
  <2> QED BY <1>5, <2>1 DEF ParseSampleLine
<1>9. PICK b \in BOOLEAN : b <=> (l # Unterminated /\ r # "junk")
  OBVIOUS
<1>10. PICK k \in Labels : (b => k = l) /\ (~b => k = <<>>)
  <2>1. CASE b
    BY <1>6, <1>9, <2>1
  <2>2. CASE ~b
    BY <2>2 DEF Labels, Unlabelled
  <2> QED BY <2>1, <2>2
<1>11. Says(line) = [sense |-> b, labels |-> k, value |-> v]
  BY <1>5, <1>9, <1>10 DEF Says
<1>12. Says(line) \in Said /\ Says(line).value = v /\ (Says(line).sense <=> b) /\ Says(line).labels = k
  BY <1>6, <1>11 DEF Said
<1> QED BY <1>5, <1>6, <1>8, <1>9, <1>10, <1>12

(* An exact count, as the parser decides it and as it is meant.            *)
LEMMA ExactCounts ==
    ASSUME NEW v \in Value, NEW m
    PROVE  ParseGaugeCount(v, m \in Positive)
           <=> v \in {Number(2 * n) : n \in (IF m \in Positive THEN 1 ELSE 0) .. MaxExact \div 2}
<1>1. PICK b \in BOOLEAN, h \in Int : v = [finite |-> b, halves |-> h]
  BY DEF Value
<1>2. (v.finite <=> b) /\ v.halves = h /\ MaxExact \in Nat
  BY <1>1
<1>3. PICK low \in Nat : low = IF m \in Positive THEN 1 ELSE 0
  OBVIOUS
<1>4. ASSUME ParseGaugeCount(v, m \in Positive)
      PROVE  v \in {Number(2 * n) : n \in low .. MaxExact \div 2}
  <2>1. b /\ h >= 0 /\ h % 2 = 0 /\ (m \in Positive => h # 0) /\ h <= MaxExact
    BY <1>2, <1>4 DEF ParseGaugeCount
  <2>2. PICK n \in Int : n = h \div 2
    OBVIOUS
  <2>3. h = 2 * n
    BY <2>1, <2>2
  <2>4. n >= 0 /\ n <= MaxExact \div 2 /\ (h # 0 => n >= 1)
    BY <1>2, <2>1, <2>3
  <2>5. n \in low .. MaxExact \div 2
    BY <1>2, <1>3, <2>1, <2>4
  <2>6. v = Number(2 * n)
    BY <1>1, <2>1, <2>3 DEF Number
  <2> QED BY <2>5, <2>6
<1>5. ASSUME v \in {Number(2 * n) : n \in low .. MaxExact \div 2}
      PROVE  ParseGaugeCount(v, m \in Positive)
  <2>1. PICK n \in low .. MaxExact \div 2 : v = Number(2 * n)
    BY <1>5
  <2>2. n \in Int /\ low <= n /\ n <= MaxExact \div 2 /\ v.finite /\ v.halves = 2 * n
    BY <1>2, <1>3, <2>1 DEF Number
  <2>3. 2 * n >= 0 /\ (2 * n) % 2 = 0 /\ 2 * n <= MaxExact /\ (n >= 1 => 2 * n # 0)
    BY <1>2, <1>3, <2>2
  <2> QED BY <1>3, <2>2, <2>3 DEF ParseGaugeCount
<1> QED BY <1>3, <1>4, <1>5

-----------------------------------------------------------------------------
(* The inductive invariant: the parser has returned an error exactly when  *)
(* some gauge is ill told; the gauges it holds are the ones told; and each *)
(* counter is spoilt exactly when what is told of it makes no sense, and   *)
(* otherwise holds its value or its series and their sum.                  *)

Tokens(v, i) == [value |-> v, invalid |-> i]
Family(t, s, i) == [total |-> t, series |-> s, invalid |-> i]
Parser(r, g, t, c) == [rejected |-> r, gauge |-> g, tokens |-> t, completions |-> c]

TokensType == [value : Value, invalid : BOOLEAN]
FamilyType == [total : Int, series : SUBSET Labels, invalid : BOOLEAN]
ParserType == [rejected : BOOLEAN, gauge : [Gauges -> Value], tokens : TokensType,
               completions : FamilyType]

Series(said) == {said[i].labels : i \in DOMAIN said}

GaugesAgree(g, s) == \A m \in Gauges : g[m] = ToldGauge(s[m])

TokensAgree(t, said) ==
    /\ t.invalid <=> ~(said = <<>> \/ GoodSingle(said))
    /\ ~t.invalid => t.value = ToldGauge(said)

FamilyAgrees(c, said) ==
    /\ c.invalid <=> ~GoodFamily(said)
    /\ ~c.invalid => c.series = Series(said) /\ c.total = Total(said)

TextInv ==
    /\ parser \in ParserType
    /\ told \in [Metrics -> Seq(Said)]
    /\ parser.rejected <=> \E m \in Gauges : ~GoodGauge(m, told[m])
    /\ ~parser.rejected => GaugesAgree(parser.gauge, told)
    /\ TokensAgree(parser.tokens, told["tokens"])
    /\ FamilyAgrees(parser.completions, told["completions"])

(* What is told, and what it was before the last sample.                   *)
LEMMA ToldMore ==
    ASSUME NEW said \in Seq(Said), NEW x \in Said, NEW more, more = Append(said, x)
    PROVE  /\ more \in Seq(Said) /\ more # <<>> /\ Len(more) = Len(said) + 1 /\ Len(said) \in Nat
           /\ more[Len(more)] = x /\ \A i \in DOMAIN said : more[i] = said[i] /\ i \in DOMAIN more
           /\ \A i \in DOMAIN more : i \in DOMAIN said \/ i = Len(more)
           /\ said = <<>> <=> Len(more) = 1
           /\ Len(more) = 1 => more[1] = x
           /\ Len(more) \in DOMAIN more /\ Len(more) \notin DOMAIN said
<1>1. more \in Seq(Said) /\ Len(more) = Len(said) + 1 /\ Len(said) \in Nat
  OBVIOUS
<1>2. DOMAIN said = 1 .. Len(said) /\ DOMAIN more = 1 .. Len(said) + 1
  BY <1>1
<1>3. more[Len(said) + 1] = x /\ \A i \in 1 .. Len(said) : more[i] = said[i]
  OBVIOUS
<1>4. said = <<>> <=> Len(said) = 0
  OBVIOUS
<1>5. more # <<>>
  BY <1>1
<1> QED BY <1>1, <1>2, <1>3, <1>4, <1>5

(* A gauge stays good only if it is told for the first time, and well.     *)
LEMMA GaugeMore ==
    ASSUME NEW said \in Seq(Said), NEW x \in Said, NEW m
    PROVE  GoodGauge(m, Append(said, x)) <=>
             /\ said = <<>> /\ x.sense /\ x.labels = Unlabelled
             /\ ParseGaugeCount(x.value, m \in Positive)
<1>1. PICK more : more = Append(said, x)
  OBVIOUS
<1>2. more # <<>> /\ (said = <<>> <=> Len(more) = 1) /\ (Len(more) = 1 => more[1] = x)
  BY <1>1, ToldMore
<1>3. x.value \in Value
  BY DEF Said
<1>4. ParseGaugeCount(x.value, m \in Positive)
      <=> x.value \in {Number(2 * n) : n \in (IF m \in Positive THEN 1 ELSE 0) .. MaxExact \div 2}
  BY <1>3, ExactCounts
<1> QED BY <1>1, <1>2, <1>4 DEF GoodGauge

(* A counter is countable as long as every sample of it is.                *)
LEMMA CountableMore ==
    ASSUME NEW said \in Seq(Said), NEW x \in Said
    PROVE  Countable(Append(said, x)) <=> Countable(said) /\ x.sense /\ ParseCounter(x.value)
<1>1. PICK more : more = Append(said, x)
  OBVIOUS
<1>2. /\ more[Len(more)] = x /\ \A i \in DOMAIN said : more[i] = said[i] /\ i \in DOMAIN more
      /\ \A i \in DOMAIN more : i \in DOMAIN said \/ i = Len(more)
      /\ Len(more) \in DOMAIN more
  BY <1>1, ToldMore
<1> QED BY <1>1, <1>2 DEF Countable, ParseCounter

(* The token counter may be told once, without labels.                     *)
LEMMA SingleMore ==
    ASSUME NEW said \in Seq(Said), NEW x \in Said
    PROVE  GoodSingle(Append(said, x)) <=>
             said = <<>> /\ x.sense /\ ParseCounter(x.value) /\ x.labels = Unlabelled
<1>1. PICK more : more = Append(said, x)
  OBVIOUS
<1>2. (said = <<>> <=> Len(more) = 1) /\ (Len(more) = 1 => more[1] = x)
  BY <1>1, ToldMore
<1>3. Countable(<<>>)
  BY DEF Countable
<1> QED BY <1>1, <1>2, <1>3, CountableMore DEF GoodSingle

(* The completions may be told once for each set of labels.                *)
LEMMA FamilyMore ==
    ASSUME NEW said \in Seq(Said), NEW x \in Said
    PROVE  GoodFamily(Append(said, x)) <=>
             /\ GoodFamily(said) /\ x.sense /\ ParseCounter(x.value)
             /\ x.labels \notin Series(said)
<1>1. PICK more : more = Append(said, x)
  OBVIOUS
<1>2. /\ more[Len(more)] = x /\ \A i \in DOMAIN said : more[i] = said[i] /\ i \in DOMAIN more
      /\ \A i \in DOMAIN more : i \in DOMAIN said \/ i = Len(more)
      /\ Len(more) \in DOMAIN more /\ Len(more) \notin DOMAIN said
  BY <1>1, ToldMore
<1>3. (\A i, j \in DOMAIN more : more[i].labels = more[j].labels => i = j) <=>
          /\ \A i, j \in DOMAIN said : said[i].labels = said[j].labels => i = j
          /\ x.labels \notin Series(said)
  <2>1. ASSUME \A i, j \in DOMAIN more : more[i].labels = more[j].labels => i = j
        PROVE  /\ \A i, j \in DOMAIN said : said[i].labels = said[j].labels => i = j
               /\ x.labels \notin Series(said)
    BY <1>2, <2>1 DEF Series
  <2>2. ASSUME /\ \A i, j \in DOMAIN said : said[i].labels = said[j].labels => i = j
               /\ x.labels \notin Series(said),
               NEW i \in DOMAIN more, NEW j \in DOMAIN more, more[i].labels = more[j].labels
        PROVE  i = j
    BY <1>2, <2>2 DEF Series
  <2> QED BY <2>1, <2>2
<1> QED BY <1>1, <1>3, CountableMore DEF GoodFamily

(* The series seen so far.                                                 *)
LEMMA SeriesMore ==
    ASSUME NEW said \in Seq(Said), NEW x \in Said, NEW more, more = Append(said, x)
    PROVE  Series(more) = Series(said) \cup {x.labels}
<1>1. /\ more[Len(more)] = x /\ \A i \in DOMAIN said : more[i] = said[i] /\ i \in DOMAIN more
      /\ \A i \in DOMAIN more : i \in DOMAIN said \/ i = Len(more)
      /\ Len(more) \in DOMAIN more
  BY ToldMore
<1> QED BY <1>1 DEF Series

-----------------------------------------------------------------------------
(* A sample.                                                               *)

(* A parser is its four parts.                                             *)
LEMMA ParserFacts ==
    ASSUME NEW p \in ParserType
    PROVE  \E r \in BOOLEAN, g \in [Gauges -> Value], t \in TokensType, c \in FamilyType :
               p = Parser(r, g, t, c)
  BY DEF ParserType, Parser

(* The parts of one.                                                       *)
LEMMA PartsOfParser ==
    ASSUME NEW r, NEW g, NEW t, NEW c
    PROVE  /\ Parser(r, g, t, c).rejected = r /\ Parser(r, g, t, c).gauge = g
           /\ Parser(r, g, t, c).tokens = t /\ Parser(r, g, t, c).completions = c
  BY DEF Parser

(* The type of one.                                                        *)
LEMMA ParserTyped ==
    ASSUME NEW r \in BOOLEAN, NEW g \in [Gauges -> Value], NEW t \in TokensType, NEW c \in FamilyType
    PROVE  Parser(r, g, t, c) \in ParserType
  BY DEF Parser, ParserType

(* The metrics: the gauges and the two kinds of counters.                  *)
LEMMA MetricNames ==
    /\ "tokens" \notin Gauges /\ "completions" \notin Gauges
    /\ Gauges \subseteq Metrics /\ "tokens" \in Metrics /\ "completions" \in Metrics
    /\ \A m \in Metrics : m \in Gauges \/ m = "tokens" \/ m = "completions"
  BY DEF Gauges, Metrics

(* One metric is told once more.                                           *)
LEMMA ToldAfter ==
    ASSUME NEW s \in [Metrics -> Seq(Said)], NEW m \in Metrics, NEW x \in Said,
           NEW s2, s2 = [s EXCEPT ![m] = Append(@, x)]
    PROVE  /\ s2 \in [Metrics -> Seq(Said)]
           /\ s2[m] = Append(s[m], x) /\ s[m] \in Seq(Said)
           /\ \A k \in Metrics : k # m => s2[k] = s[k]
<1>1. s[m] \in Seq(Said)
  OBVIOUS
<1>2. PICK said \in Seq(Said) : said = s[m]
  BY <1>1
<1>3. Append(said, x) \in Seq(Said)
  OBVIOUS
<1>4. PICK more \in Seq(Said) : more = Append(said, x)
  BY <1>3
<1>5. s2 = [s EXCEPT ![m] = more]
  BY <1>2, <1>4
<1>6. s2 \in [Metrics -> Seq(Said)] /\ s2[m] = more /\ \A k \in Metrics : k # m => s2[k] = s[k]
  BY <1>5
<1> QED BY <1>1, <1>2, <1>4, <1>6

(* A line of a gauge.                                                      *)
LEMMA ReadGauge ==
    ASSUME TextInv, ~parser.rejected, NEW m \in Gauges, NEW line \in Bodies,
           parser' = Observe(parser, m, line), told' = [told EXCEPT ![m] = Append(@, Says(line))]
    PROVE  TextInv'
<1>1. PICK x \in Said : x = Says(line)
  BY LineFacts
<1>2. /\ told' \in [Metrics -> Seq(Said)] /\ told'[m] = Append(told[m], x) /\ told[m] \in Seq(Said)
      /\ \A k \in Metrics : k # m => told'[k] = told[k]
  BY <1>1, ToldAfter, MetricNames DEF TextInv
<1>3. PICK r \in BOOLEAN, g \in [Gauges -> Value], t \in TokensType, c \in FamilyType :
          parser = Parser(r, g, t, c)
  BY ParserFacts DEF TextInv
<1>4. parser.gauge = g /\ parser.tokens = t /\ parser.completions = c /\ parser.rejected = r
  BY <1>3, PartsOfParser
<1>5. (\A k \in Gauges : GoodGauge(k, told[k])) /\ \A k \in Gauges : g[k] = ToldGauge(told[k])
  BY <1>4 DEF TextInv, GaugesAgree
<1>6. g[m] = None <=> told[m] = <<>>
  <2>1. \A n : Number(n) # None
    BY DEF Number, None
  <2>2. told[m] # <<>> => told[m][1].value # None
    BY <1>5, <2>1 DEF GoodGauge
  <2> QED BY <1>5, <2>2 DEF ToldGauge
<1>7. GoodGauge(m, told'[m]) <=> /\ told[m] = <<>> /\ x.sense /\ x.labels = Unlabelled
                                 /\ ParseGaugeCount(x.value, m \in Positive)
  BY <1>2, GaugeMore
<1>8. told'["tokens"] = told["tokens"] /\ told'["completions"] = told["completions"]
  BY <1>2, MetricNames
<1>9. x.value = line.value /\ (x.sense <=> ParseSampleLine(line)) /\ (x.sense => x.labels = line.labels)
      /\ line.value \in Value
  BY <1>1, LineFacts
<1>10. CASE GoodGauge(m, told'[m])
  <2>1. parser' = [parser EXCEPT !.gauge[m] = line.value]
    BY <1>4, <1>6, <1>7, <1>9, <1>10, MetricNames DEF Observe, ObserveGauge, Unlabelled
  <2>2. PICK g2 \in [Gauges -> Value] : g2 = [g EXCEPT ![m] = line.value]
    BY <1>9
  <2>3. parser' = Parser(r, g2, t, c)
    BY <1>3, <2>1, <2>2 DEF Parser
  <2>4. ToldGauge(told'[m]) = line.value
    <3>1. told'[m] # <<>> /\ told'[m][1] = x
      BY <1>2, <1>7, <1>10, ToldMore
    <3> QED BY <1>9, <3>1 DEF ToldGauge
  <2>5. \A k \in Gauges : GoodGauge(k, told'[k]) /\ g2[k] = ToldGauge(told'[k])
    <3> SUFFICES ASSUME NEW k \in Gauges PROVE GoodGauge(k, told'[k]) /\ g2[k] = ToldGauge(told'[k])
      OBVIOUS
    <3>1. CASE k = m
      BY <1>10, <2>2, <2>4, <3>1
    <3>2. CASE k # m
      <4>1. told'[k] = told[k] /\ g2[k] = g[k]
        BY <1>2, <2>2, <3>2, MetricNames
      <4> QED BY <1>5, <4>1
    <3> QED BY <3>1, <3>2
  <2>6. /\ parser' \in ParserType /\ parser'.rejected = r /\ parser'.gauge = g2
        /\ parser'.tokens = t /\ parser'.completions = c
    BY <2>3, PartsOfParser, ParserTyped
  <2> QED BY <1>2, <1>4, <1>8, <2>5, <2>6 DEF TextInv, GaugesAgree
<1>11. CASE ~GoodGauge(m, told'[m])
  <2>1. parser' = Reject(parser)
    BY <1>4, <1>6, <1>7, <1>9, <1>11, MetricNames DEF Observe, ObserveGauge, Malformed, Unlabelled
  <2>2. PICK r2 \in BOOLEAN : r2
    OBVIOUS
  <2>3. parser' = Parser(r2, g, t, c)
    BY <1>3, <2>1, <2>2 DEF Parser, Reject
  <2>4. /\ parser' \in ParserType /\ parser'.rejected = r2 /\ parser'.tokens = t /\ parser'.completions = c
    BY <2>3, PartsOfParser, ParserTyped
  <2> QED BY <1>2, <1>4, <1>8, <1>11, <2>2, <2>4 DEF TextInv
<1> QED BY <1>10, <1>11

(* A line of the token counter.                                            *)
LEMMA ReadTokens ==
    ASSUME TextInv, ~parser.rejected, NEW line \in Bodies,
           parser' = Observe(parser, "tokens", line),
           told' = [told EXCEPT !["tokens"] = Append(@, Says(line))]
    PROVE  TextInv'
<1>1. PICK x \in Said : x = Says(line)
  BY LineFacts
<1>2. /\ told' \in [Metrics -> Seq(Said)] /\ told'["tokens"] = Append(told["tokens"], x)
      /\ told["tokens"] \in Seq(Said)
      /\ \A k \in Metrics : k # "tokens" => told'[k] = told[k]
  BY <1>1, ToldAfter, MetricNames DEF TextInv
<1>3. PICK r \in BOOLEAN, g \in [Gauges -> Value], t \in TokensType, c \in FamilyType :
          parser = Parser(r, g, t, c)
  BY ParserFacts DEF TextInv
<1>4. parser.gauge = g /\ parser.tokens = t /\ parser.completions = c /\ parser.rejected = r
  BY <1>3, PartsOfParser
<1>5. PICK v \in Value, i \in BOOLEAN : t = Tokens(v, i)
  BY DEF TokensType, Tokens
<1>6. t.value = v /\ t.invalid = i
  BY <1>5 DEF Tokens
<1>7. x.value = line.value /\ (x.sense <=> ParseSampleLine(line)) /\ (x.sense => x.labels = line.labels)
      /\ line.value \in Value
  BY <1>1, LineFacts
<1>8. PICK said \in Seq(Said) : said = told["tokens"]
  BY <1>2
<1>9. TokensAgree(t, said)
  BY <1>4, <1>8 DEF TextInv
<1>10. GoodSingle(told'["tokens"]) <=>
          said = <<>> /\ x.sense /\ ParseCounter(x.value) /\ x.labels = Unlabelled
  BY <1>2, <1>8, SingleMore
<1>11. told'["tokens"] # <<>> /\ (said = <<>> => told'["tokens"][1] = x)
  BY <1>2, <1>8, ToldMore
<1>12. \E t2 \in TokensType : parser' = Parser(r, g, t2, c) /\ TokensAgree(t2, told'["tokens"])
  <2>1. CASE GoodSingle(told'["tokens"])
    <3>1. i = FALSE /\ v = None
      BY <1>6, <1>9, <1>10, <2>1 DEF TokensAgree, ToldGauge
    <3>2. parser' = [parser EXCEPT !.tokens.value = line.value]
      BY <1>4, <1>6, <1>7, <1>10, <2>1, <3>1, MetricNames DEF Observe, ObserveSingle, Unlabelled
    <3>3. PICK t2 : t2 = Tokens(line.value, i)
      OBVIOUS
    <3>4. parser' = Parser(r, g, t2, c)
      BY <1>3, <1>5, <3>2, <3>3 DEF Parser, Tokens
    <3>5. t2 \in TokensType /\ t2.value = line.value /\ t2.invalid = FALSE
      BY <1>7, <3>1, <3>3 DEF Tokens, TokensType
    <3>6. ToldGauge(told'["tokens"]) = line.value
      BY <1>7, <1>10, <1>11, <2>1 DEF ToldGauge
    <3> QED BY <2>1, <3>4, <3>5, <3>6 DEF TokensAgree
  <2>2. CASE ~GoodSingle(told'["tokens"])
    <3>1. \E w \in Value : parser' = Parser(r, g, Tokens(w, TRUE), c)
      <4>1. CASE ~x.sense \/ v # None \/ line.labels # <<>>
        <5>1. parser' = [parser EXCEPT !.tokens = [value |-> None, invalid |-> TRUE]]
          BY <1>4, <1>6, <1>7, <4>1, MetricNames DEF Observe, ObserveSingle, Malformed
        <5>2. parser' = Parser(r, g, Tokens(None, TRUE), c)
          BY <1>3, <5>1 DEF Parser, Tokens
        <5>3. None \in Value
          BY DEF None, Value
        <5> QED BY <5>2, <5>3
      <4>2. CASE x.sense /\ v = None /\ line.labels = <<>> /\ ~ParseCounter(line.value)
        <5>1. parser' = [parser EXCEPT !.tokens.invalid = TRUE]
          BY <1>4, <1>6, <1>7, <4>2, MetricNames DEF Observe, ObserveSingle
        <5>2. parser' = Parser(r, g, Tokens(v, TRUE), c)
          BY <1>3, <1>5, <5>1 DEF Parser, Tokens
        <5> QED BY <5>2
      <4>3. CASE x.sense /\ v = None /\ line.labels = <<>> /\ ParseCounter(line.value)
        <5>1. said # <<>>
          BY <1>7, <1>10, <2>2, <4>3 DEF Unlabelled
        <5>2. i = TRUE
          <6>1. GoodSingle(said) => said[1].value # None
            BY DEF GoodSingle, Countable, None
          <6>2. GoodSingle(said) => ToldGauge(said) # None
            BY <5>1, <6>1 DEF ToldGauge
          <6> QED BY <1>6, <1>9, <4>3, <5>1, <6>2 DEF TokensAgree
        <5>3. parser' = [parser EXCEPT !.tokens.value = line.value]
          BY <1>4, <1>6, <1>7, <4>3, MetricNames DEF Observe, ObserveSingle
        <5>4. parser' = Parser(r, g, Tokens(line.value, i), c)
          BY <1>3, <1>5, <5>3 DEF Parser, Tokens
        <5> QED BY <1>7, <5>2, <5>4
      <4> QED BY <4>1, <4>2, <4>3
    <3>2. PICK w \in Value : parser' = Parser(r, g, Tokens(w, TRUE), c)
      BY <3>1
    <3>3. Tokens(w, TRUE) \in TokensType /\ Tokens(w, TRUE).invalid = TRUE
      BY DEF Tokens, TokensType
    <3> QED BY <1>11, <2>2, <3>2, <3>3 DEF TokensAgree
  <2> QED BY <2>1, <2>2
<1>13. PICK t2 \in TokensType : parser' = Parser(r, g, t2, c) /\ TokensAgree(t2, told'["tokens"])
  BY <1>12
<1>14. /\ parser' \in ParserType /\ parser'.rejected = r /\ parser'.gauge = g
       /\ parser'.tokens = t2 /\ parser'.completions = c
  BY <1>13, PartsOfParser, ParserTyped
<1>15. told'["completions"] = told["completions"] /\ \A k \in Gauges : told'[k] = told[k]
  BY <1>2, MetricNames
<1> QED BY <1>2, <1>4, <1>13, <1>14, <1>15 DEF TextInv, GaugesAgree

(* A line of the completion counter.                                       *)
LEMMA ReadCompletions ==
    ASSUME TextInv, ~parser.rejected, NEW line \in Bodies,
           parser' = Observe(parser, "completions", line),
           told' = [told EXCEPT !["completions"] = Append(@, Says(line))]
    PROVE  TextInv'
<1>1. PICK x \in Said : x = Says(line)
  BY LineFacts
<1>2. /\ told' \in [Metrics -> Seq(Said)] /\ told'["completions"] = Append(told["completions"], x)
      /\ told["completions"] \in Seq(Said)
      /\ \A k \in Metrics : k # "completions" => told'[k] = told[k]
  BY <1>1, ToldAfter, MetricNames DEF TextInv
<1>3. PICK r \in BOOLEAN, g \in [Gauges -> Value], t \in TokensType, c \in FamilyType :
          parser = Parser(r, g, t, c)
  BY ParserFacts DEF TextInv
<1>4. parser.gauge = g /\ parser.tokens = t /\ parser.completions = c /\ parser.rejected = r
  BY <1>3, PartsOfParser
<1>5. PICK n \in Int, s \in SUBSET Labels, i \in BOOLEAN : c = Family(n, s, i)
  BY DEF FamilyType, Family
<1>6. c.total = n /\ c.series = s /\ c.invalid = i
  BY <1>5 DEF Family
<1>7. x.value = line.value /\ (x.sense <=> ParseSampleLine(line)) /\ (x.sense => x.labels = line.labels)
      /\ line.value \in Value /\ x.labels \in Labels /\ x.value.halves \in Int
  BY <1>1, LineFacts DEF Said, Value
<1>8. PICK said \in Seq(Said) : said = told["completions"]
  BY <1>2
<1>9. FamilyAgrees(c, said)
  BY <1>4, <1>8 DEF TextInv
<1>10. GoodFamily(told'["completions"]) <=>
          /\ GoodFamily(said) /\ x.sense /\ ParseCounter(x.value)
          /\ x.labels \notin Series(said)
  BY <1>2, <1>8, FamilyMore
<1>11. PICK more : more = told'["completions"]
  OBVIOUS
<1>12. \E c2 \in FamilyType : parser' = Parser(r, g, t, c2) /\ FamilyAgrees(c2, more)
  <2>1. CASE x.sense /\ ParseCounter(line.value) /\ line.labels \notin s
    <3>1. parser' = [parser EXCEPT !.completions.series = @ \cup {line.labels},
                                   !.completions.total = @ + line.value.halves]
      BY <1>4, <1>6, <1>7, <2>1, MetricNames DEF Observe, ObserveFamily
    <3>2. PICK s2 \in SUBSET Labels : s2 = s \cup {line.labels}
      BY <1>7, <2>1
    <3>3. PICK n2 \in Int : n2 = n + line.value.halves
      BY <1>7
    <3>4. PICK c2 : c2 = Family(n2, s2, i)
      OBVIOUS
    <3>5. parser' = [parser EXCEPT !.completions.series = s2, !.completions.total = n2]
      BY <1>4, <1>6, <3>1, <3>2, <3>3
    <3>6. parser' = Parser(r, g, t, c2)
      BY <1>3, <1>5, <3>4, <3>5 DEF Parser, Family
    <3>7. c2 \in FamilyType /\ c2.total = n2 /\ c2.series = s2 /\ c2.invalid = i
      BY <3>4 DEF Family, FamilyType
    <3>8. i <=> ~GoodFamily(more)
      BY <1>6, <1>7, <1>9, <1>10, <1>11, <2>1 DEF FamilyAgrees
    <3>9. ASSUME ~i PROVE s2 = Series(more) /\ n2 = Total(more)
      <4>1. s = Series(said) /\ n = Total(said)
        BY <1>6, <1>9, <3>9 DEF FamilyAgrees
      <4>2. more = Append(said, x)
        BY <1>2, <1>8, <1>11
      <4>3. Series(more) = Series(said) \cup {x.labels}
        BY <4>2, SeriesMore
      <4>4. Total(more) = Total(said) + x.value.halves
        BY <4>2, TotalAppend
      <4>5. s2 = Series(more)
        BY <1>7, <2>1, <3>2, <4>1, <4>3
      <4>6. n2 = Total(more)
        BY <1>7, <3>3, <4>1, <4>4
      <4> QED BY <4>5, <4>6
    <3> QED BY <3>6, <3>7, <3>8, <3>9 DEF FamilyAgrees
  <2>2. CASE ~(x.sense /\ ParseCounter(line.value) /\ line.labels \notin s)
    <3>1. parser' = [parser EXCEPT !.completions.invalid = TRUE]
      BY <1>4, <1>6, <1>7, <2>2, MetricNames DEF Observe, ObserveFamily, Malformed
    <3>2. PICK i2 \in BOOLEAN : i2 /\ parser' = [parser EXCEPT !.completions.invalid = i2]
      BY <3>1
    <3>3. PICK c2 : c2 = Family(n, s, i2)
      OBVIOUS
    <3>4. parser' = Parser(r, g, t, c2)
      BY <1>3, <1>5, <3>2, <3>3 DEF Parser, Family
    <3>5. c2 \in FamilyType /\ c2.invalid = i2
      BY <3>3 DEF Family, FamilyType
    <3>6. ~GoodFamily(more)
      <4>1. ASSUME GoodFamily(more) PROVE FALSE
        <5>1. x.sense /\ ParseCounter(line.value) /\ x.labels = line.labels /\ GoodFamily(said)
              /\ x.labels \notin Series(said)
          BY <1>7, <1>10, <1>11, <4>1
        <5>2. s = Series(said)
          BY <1>6, <1>9, <5>1 DEF FamilyAgrees
        <5> QED BY <2>2, <5>1, <5>2
      <4> QED BY <4>1
    <3> QED BY <3>2, <3>4, <3>5, <3>6 DEF FamilyAgrees
  <2> QED BY <2>1, <2>2
<1>13. PICK c2 \in FamilyType : parser' = Parser(r, g, t, c2) /\ FamilyAgrees(c2, told'["completions"])
  BY <1>11, <1>12
<1>14. /\ parser' \in ParserType /\ parser'.rejected = r /\ parser'.gauge = g
       /\ parser'.tokens = t /\ parser'.completions = c2
  BY <1>13, PartsOfParser, ParserTyped
<1>15. told'["tokens"] = told["tokens"] /\ \A k \in Gauges : told'[k] = told[k]
  BY <1>2, MetricNames
<1> QED BY <1>2, <1>4, <1>13, <1>14, <1>15 DEF TextInv, GaugesAgree

(* A parser before the first line.                                         *)
LEMMA TextInitInv == TextInit => TextInv
<1> SUFFICES ASSUME TextInit PROVE TextInv
  OBVIOUS
<1>1. None \in Value /\ 0 \in Int
  BY DEF None, Value
<1>2. PICK f \in BOOLEAN : ~f /\ parser = Parser(f, [m \in Gauges |-> None], Tokens(None, f), Family(0, {}, f))
  BY DEF TextInit, Parser, Tokens, Family
<1>3. [m \in Gauges |-> None] \in [Gauges -> Value] /\ Tokens(None, f) \in TokensType
      /\ Family(0, {}, f) \in FamilyType
  BY <1>1 DEF Tokens, Family, TokensType, FamilyType
<1>4. /\ parser \in ParserType /\ ~parser.rejected /\ parser.gauge = [m \in Gauges |-> None]
      /\ parser.tokens = Tokens(None, f) /\ parser.completions = Family(0, {}, f)
  BY <1>2, <1>3, PartsOfParser, ParserTyped
<1>5. <<>> \in Seq(Said) /\ DOMAIN <<>> = {} /\ Len(<<>>) = 0
  OBVIOUS
<1>6. told \in [Metrics -> Seq(Said)] /\ \A m \in Metrics : told[m] = <<>>
  BY <1>5 DEF TextInit
<1>7. TokensAgree(Tokens(None, f), <<>>)
  BY <1>2 DEF TokensAgree, Tokens, ToldGauge
<1>8. FamilyAgrees(Family(0, {}, f), <<>>)
  <2>1. GoodFamily(<<>>)
    BY <1>5 DEF GoodFamily, Countable
  <2> QED BY <1>2, <1>5, <2>1, TotalNone DEF FamilyAgrees, Family, Series
<1>9. \A m \in Gauges : told[m] = <<>> /\ GoodGauge(m, told[m])
  BY <1>6, MetricNames DEF GoodGauge
<1>10. GaugesAgree(parser.gauge, told)
  BY <1>4, <1>9 DEF GaugesAgree, ToldGauge
<1> QED BY <1>4, <1>6, <1>7, <1>8, <1>9, <1>10, MetricNames DEF TextInv

(* Every line keeps the inductive invariant.                               *)
LEMMA TextNextInv == TextInv /\ [TextNext]_textVars => TextInv'
<1> SUFFICES ASSUME TextInv, [TextNext]_textVars PROVE TextInv'
  OBVIOUS
<1>1. CASE UNCHANGED textVars
  BY <1>1 DEF textVars, TextInv
<1>2. CASE TextNext
  <2>1. PICK m \in Metrics \cup {"other"}, line \in Bodies :
            /\ parser' = Observe(parser, m, line)
            /\ told' = IF m \in Metrics THEN [told EXCEPT ![m] = Append(@, Says(line))] ELSE told
    BY <1>2 DEF TextNext, ReadLine
  <2>2. ~parser.rejected
    BY <1>2 DEF TextNext, ReadLine
  <2>3. CASE m \in Gauges
    BY <2>1, <2>2, <2>3, ReadGauge, MetricNames
  <2>4. CASE m = "tokens"
    BY <2>1, <2>2, <2>4, ReadTokens, MetricNames
  <2>5. CASE m = "completions"
    BY <2>1, <2>2, <2>5, ReadCompletions, MetricNames
  <2>6. CASE m \notin Metrics
    <3>1. parser' = parser /\ told' = told
      BY <2>1, <2>6 DEF Observe
    <3> QED BY <3>1 DEF TextInv
  <2> QED BY <2>3, <2>4, <2>5, <2>6, MetricNames
<1> QED BY <1>1, <1>2

(* The end of parse_mistralrs_metrics, on what the inductive invariant     *)
(* says of the parser.                                                     *)
LEMMA TextInvGives == TextInv => ParsedAsTold
<1> SUFFICES ASSUME TextInv PROVE ParsedAsTold
  OBVIOUS
<1>1. PICK r \in BOOLEAN, g \in [Gauges -> Value], t \in TokensType, c \in FamilyType :
          parser = Parser(r, g, t, c)
  BY ParserFacts DEF TextInv
<1>2. parser.gauge = g /\ parser.tokens = t /\ parser.completions = c /\ parser.rejected = r
  BY <1>1, PartsOfParser
<1>3. CASE r
  <2>1. \E m \in Gauges : ~GoodGauge(m, told[m])
    BY <1>2, <1>3 DEF TextInv
  <2> QED BY <1>2, <1>3, <2>1 DEF ParsedAsTold, Finish, Meaning
<1>4. CASE ~r
  <2>1. \A m \in Gauges : GoodGauge(m, told[m]) /\ g[m] = ToldGauge(told[m])
    BY <1>2, <1>4 DEF TextInv, GaugesAgree
  <2>2. \A m \in Gauges : g[m] = None <=> told[m] = <<>>
    <3>1. \A n : Number(n) # None
      BY DEF Number, None
    <3>2. \A m \in Gauges : told[m] # <<>> => told[m][1].value # None
      BY <2>1, <3>1 DEF GoodGauge
    <3> QED BY <2>1, <3>2 DEF ToldGauge
  <2>3. {"running", "waiting", "kv_used", "kv_total"} \subseteq Gauges
    BY DEF Gauges
  <2>4. g = [m \in Gauges |-> ToldGauge(told[m])]
    BY <2>1
  <2>5. (IF t.invalid THEN None ELSE t.value) = ToldTokens
    <3>1. PICK said : said = told["tokens"]
      OBVIOUS
    <3>2. TokensAgree(t, said)
      BY <1>2, <3>1 DEF TextInv
    <3>3. CASE said = <<>>
      <4>1. ~GoodSingle(said)
        BY <3>3 DEF GoodSingle
      <4> QED BY <3>1, <3>2, <3>3, <4>1 DEF TokensAgree, ToldGauge, ToldTokens
    <3>4. CASE said # <<>>
      BY <3>1, <3>2, <3>4 DEF TokensAgree, ToldGauge, ToldTokens
    <3> QED BY <3>3, <3>4
  <2>6. (IF c.invalid \/ c.series = {} THEN None ELSE Number(c.total)) = ToldCompletions
    <3>1. PICK said \in Seq(Said) : said = told["completions"]
      BY MetricNames DEF TextInv
    <3>2. FamilyAgrees(c, said)
      BY <1>2, <3>1 DEF TextInv
    <3>3. said = <<>> <=> Series(said) = {}
      <4>1. said # <<>> => 1 \in DOMAIN said
        OBVIOUS
      <4>2. said = <<>> => DOMAIN said = {}
        OBVIOUS
      <4> QED BY <4>1, <4>2 DEF Series
    <3>4. CASE c.invalid
      BY <3>1, <3>2, <3>4 DEF FamilyAgrees, ToldCompletions
    <3>5. CASE ~c.invalid
      BY <3>1, <3>2, <3>3, <3>5 DEF FamilyAgrees, ToldCompletions
    <3> QED BY <3>4, <3>5
  <2>7. CASE \/ told["running"] = <<>> \/ told["waiting"] = <<>>
             \/ (told["kv_used"] = <<>>) # (told["kv_total"] = <<>>)
    <3>1. Meaning = Rejected
      BY <2>7 DEF Meaning
    <3>2. Finish(parser) = Rejected
      BY <1>2, <2>2, <2>3, <2>7 DEF Finish
    <3> QED BY <3>1, <3>2 DEF ParsedAsTold
  <2>8. CASE /\ told["running"] # <<>> /\ told["waiting"] # <<>>
             /\ (told["kv_used"] = <<>>) = (told["kv_total"] = <<>>)
    <3>1. Meaning = Accepted(g, ToldTokens, ToldCompletions)
      BY <2>1, <2>4, <2>8 DEF Meaning
    <3>2. Finish(parser) = Accepted(g, ToldTokens, ToldCompletions)
      BY <1>2, <1>4, <2>2, <2>3, <2>5, <2>6, <2>8 DEF Finish
    <3> QED BY <3>1, <3>2 DEF ParsedAsTold
  <2> QED BY <2>7, <2>8
<1> QED BY <1>3, <1>4

(* After every line, the parser holds what the lines so far have told: it  *)
(* has failed exactly when a gauge is told badly or twice, and each        *)
(* counter is spoilt on its own.                                           *)
THEOREM TextInvariant == TextSpec => []TextInv
<1>1. TextInit => TextInv
  BY TextInitInv
<1>2. TextInv /\ [TextNext]_textVars => TextInv'
  BY TextNextInv
<1> QED BY <1>1, <1>2, PTL DEF TextSpec

(* parse_mistralrs_metrics returns what the page says: it rejects the      *)
(* page, or leaves a counter out, exactly when the samples of it make no   *)
(* sense together, in any order of lines, and otherwise gives the gauges   *)
(* and the sums that were told.                                            *)
THEOREM PageIsParsedAsTold == TextSpec => []ParsedAsTold
<1>1. TextInv => ParsedAsTold
  BY TextInvGives
<1> QED BY <1>1, TextInvariant, PTL

-----------------------------------------------------------------------------
(* The four readers.                                                       *)

(* A step of the readers is a step or a stutter of each of them.           *)
LEMMA ReadersStep ==
    ASSUME [ReadersNext]_readersVars
    PROVE  /\ [SniffNext]_sniffVars /\ [TextNext]_textVars
           /\ [ExplorerNext]_explorerVars /\ [ConsoleNext]_consoleVars
<1> HIDE DEF sniffVars, textVars, explorerVars, consoleVars
<1> QED BY DEF ReadersNext, readersVars

(* ... so their specification implies each of theirs.                      *)
LEMMA ReadersAreReaders ==
    ReadersSpec => SniffSpec /\ TextSpec /\ ExplorerSpec /\ ConsoleSpec
<1>1. ReadersInit => SniffInit /\ TextInit /\ ExplorerInit /\ ConsoleInit
  BY DEF ReadersInit
<1>2. [ReadersNext]_readersVars =>
        /\ [SniffNext]_sniffVars /\ [TextNext]_textVars
        /\ [ExplorerNext]_explorerVars /\ [ConsoleNext]_consoleVars
  BY ReadersStep
<1> QED BY <1>1, <1>2, PTL DEF ReadersSpec, SniffSpec, TextSpec, ExplorerSpec, ConsoleSpec

(* The types of the scanner, the explorer and the manager, in the          *)
(* specification of the run.                                               *)
THEOREM ReadersTypesHold == ReadersSpec => []ReadersTypeOK
<1>1. SniffInv => SniffTypeOK
  BY SniffInvGives
<1>2. SniffTypeOK /\ ExplorerTypeOK /\ ConsoleTypeOK => ReadersTypeOK
  BY DEF ReadersTypeOK
<1> QED BY <1>1, <1>2, ReadersAreReaders, SnifferInvariant, ExplorerTypesHold, ConsoleTypesHold, PTL

(* What the run of MCReaders checks of states, for every value of the      *)
(* constants.                                                              *)
THEOREM ReadersHold ==
    ReadersSpec => [](/\ ReadersTypeOK
                      /\ UsageIsTheLastObject /\ ParsedAsTold
                      /\ ExplorerShowsTheFile /\ HighlightFollows
                      /\ ConfirmedIsNamedWhileShown /\ SafeMeansDisabled)
  BY ReadersAreReaders, ReadersTypesHold, LastUsageIsReported, PageIsParsedAsTold, ShowsTheFile,
     HighlightIsKept, AnswerIsForTheQuestion, SafeIsSafe, PTL
=============================================================================
