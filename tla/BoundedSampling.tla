--------------------------- MODULE BoundedSampling ---------------------------
(****************************************************************************)
(* Bits, Uint64, Float64 and Intn of core/entropy and ChooseWeighted of     *)
(* core/slot/reels.go: numbers made from whatever bytes the source yields.  *)
(*                                                                          *)
(* A provably fair source reads as many bytes as the bits asked for take,   *)
(* from a stream that ends (ProvablyFair); the others read a whole word     *)
(* each time and never end: a crypto source may fail at any time, a simula- *)
(* tion source never does.                                                  *)
(****************************************************************************)
EXTENDS Integers, FiniteSets, Sequences

CONSTANTS ByteBits,         \* 8
          WordBytes,        \* 8
          FloatBits,        \* 53
          StreamBytes,      \* bytes a provably fair stream holds
          WeightLists       \* what ChooseWeighted is asked to choose among

\* 1 shifted left by n.
Pow2[n \in Nat] == IF n = 0 THEN 1 ELSE 2 * Pow2[n - 1]

WordBits == ByteBits * WordBytes

WordSize == Pow2[WordBits]

Word == 0..(WordSize - 1)

ASSUME SamplingAssumption ==
    /\ {ByteBits, WordBytes, StreamBytes} \subseteq Nat \ {0}
    /\ FloatBits \in 1..WordBits
    /\ WeightLists \subseteq Seq(Word)

VARIABLES kind,      \* which source
          left,      \* bytes left of its stream
          request,   \* the call being served, or the last one served
          pc,        \* "idle" or "drawing"
          answer     \* its outcome

vars == <<kind, left, request, pc, answer>>

\* The sum of the first k weights.
Cumulative(weights, k) ==
    LET Sum[i \in 0..Len(weights)] ==
            IF i = 0 THEN 0 ELSE Sum[i - 1] + weights[i]
    IN  Sum[k]

\* What may be asked for: n bits, a fraction of n bits, a number below n, an
\* index chosen by weights that add up to n; a bad n too.
Requests ==
    [op : {"bits"}, n : 0..(WordBits + 1), weights : {<<>>}]
    \cup [op : {"float64"}, n : {FloatBits}, weights : {<<>>}]
    \cup [op : {"intn"}, n : Word, weights : {<<>>}]
    \cup {[op |-> "choose", n |-> Cumulative(ws, Len(ws)), weights |-> ws] :
              ws \in WeightLists}

OfBits(r) == r.op \in {"bits", "float64"}

\* Weights whose sum leaves the word are refused, as are no weights at all.
Valid(r) == IF OfBits(r) THEN r.n \in 1..WordBits ELSE r.n \in 1..(WordSize - 1)

\* How many values a draw is reduced to.
Span(r) == IF OfBits(r) THEN Pow2[r.n] ELSE r.n

\* Bytes one draw takes: the fewest that hold the bits, or a word.
BytesOf(r) ==
    IF kind = "provably_fair" /\ OfBits(r)
    THEN (r.n + ByteBits - 1) \div ByteBits
    ELSE WordBytes

\* The big-endian values of a draw.
Draws(r) == 0..(Pow2[ByteBits * BytesOf(r)] - 1)

\* Mutation: every word is accepted, the raw modulus.
ThresholdZero(n) == 0

\* Mutation: the modulus is forgotten; what is left is uniform, and tiny.
ThresholdUnreduced(n) == WordSize - n

\* -n % n in unsigned arithmetic: words below it are thrown away.
Threshold(n) == (WordSize - n) % n

Accepts(r, v) == OfBits(r) \/ v >= Threshold(r.n)

\* Mutation: the bound itself may be answered.
ValueInclusive(r, v) == v % (Span(r) + 1)

\* Mutation: a weight's last value goes to it and not to the next.
ChosenInclusive(weights, x) ==
    (CHOOSE k \in DOMAIN weights :
        /\ x <= Cumulative(weights, k)
        /\ \A i \in 1..(k - 1) : x > Cumulative(weights, i)) - 1

\* The first index, from 0, whose cumulative weight exceeds x.
Chosen(weights, x) ==
    (CHOOSE k \in DOMAIN weights :
        /\ x < Cumulative(weights, k)
        /\ \A i \in 1..(k - 1) : x >= Cumulative(weights, i)) - 1

\* The low bits of the draw, its remainder, or the index that falls on; of a
\* fraction the numerator, its denominator is Span.
Value(r, v) ==
    IF r.op = "choose" THEN Chosen(r.weights, v % Span(r)) ELSE v % Span(r)

\* The answers there are, and how likely each should be.
Answers(r) == 0..((IF r.op = "choose" THEN Len(r.weights) ELSE Span(r)) - 1)
Weight(r, x) == IF r.op = "choose" THEN r.weights[x + 1] ELSE 1

NoAnswer == [ok |-> FALSE, value |-> 0]

Init ==
    /\ kind \in {"provably_fair", "crypto", "simulation"} /\ left = StreamBytes
    /\ request \in {r \in Requests : ~Valid(r)}
    /\ pc = "idle" /\ answer = NoAnswer

\* A call with a bad n is refused before anything is read.
Call ==
    /\ pc = "idle"
    /\ request' \in Requests
    /\ pc' = IF Valid(request') THEN "drawing" ELSE "idle"
    /\ answer' = NoAnswer
    /\ UNCHANGED <<kind, left>>

HasBytes == kind # "provably_fair" \/ left >= BytesOf(request)

Consume ==
    left' = IF kind = "provably_fair" THEN left - BytesOf(request) ELSE left

Accept ==
    /\ pc = "drawing" /\ HasBytes /\ Consume
    /\ \E v \in Draws(request) :
          /\ Accepts(request, v)
          /\ answer' = [ok |-> TRUE, value |-> Value(request, v)]
    /\ pc' = "idle"
    /\ UNCHANGED <<kind, request>>

Reject ==
    /\ pc = "drawing" /\ HasBytes /\ Consume
    /\ \E v \in Draws(request) : ~Accepts(request, v)
    /\ UNCHANGED <<kind, request, pc, answer>>

\* Mutation: the stream's end is taken for another rejection.
SourceFailsUnheard ==
    /\ pc = "drawing" /\ (kind = "crypto" \/ ~HasBytes)
    /\ left' = IF kind = "crypto" THEN left ELSE 0
    /\ UNCHANGED <<kind, request, pc, answer>>

\* The stream's end, whose last bytes are lost, or the reader's error.
SourceFails ==
    /\ pc = "drawing" /\ (kind = "crypto" \/ ~HasBytes)
    /\ left' = IF kind = "crypto" THEN left ELSE 0
    /\ pc' = "idle"
    /\ UNCHANGED <<kind, request, answer>>

Next == Call \/ Accept \/ Reject \/ SourceFails

\* A call, once made, runs on.
Spec == Init /\ [][Next]_vars /\ WF_vars(Accept \/ Reject \/ SourceFails)

------------------------------------------------------------------------------
(* Properties.                                                               *)

TypeOK ==
    /\ kind \in {"provably_fair", "crypto", "simulation"}
    /\ left \in 0..StreamBytes
    /\ request \in Requests /\ pc \in {"idle", "drawing"}
    /\ pc = "drawing" => Valid(request)
    /\ answer.ok => answer.value \in Answers(request)

\* No answer is likelier than another, or than its weight makes it: each comes
\* of as many draws.
Uniform ==
    pc = "drawing" =>
        LET From(x) == Cardinality({v \in Draws(request) :
                           Accepts(request, v) /\ Value(request, v) = x})
        IN  \A x, y \in Answers(request) :
                From(x) * Weight(request, y) = From(y) * Weight(request, x)

\* A draw is thrown away with a chance below one half, so that a call is
\* expected to read fewer than two words.
FewRejections ==
    pc = "drawing" =>
        2 * Cardinality({v \in Draws(request) : Accepts(request, v)})
            > Cardinality(Draws(request))

\* On a stream that ends, every call returns, however many draws it rejects.
FairCallsReturn == pc = "drawing" /\ kind = "provably_fair" ~> pc = "idle"
==============================================================================
