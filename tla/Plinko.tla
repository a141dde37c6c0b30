------------------------------- MODULE Plinko -------------------------------
(****************************************************************************)
(* engine/plinko/plinko.go: a ball's path through rows of pins and the      *)
(* bucket it lands in.  A configuration is [game, rows, risk, rtp, alpha,   *)
(* table]; no table is None.  The risk exponent is a fraction in the code   *)
(* and a whole number here.                                                 *)
(****************************************************************************)
EXTENDS InstantMath

CONSTANTS MinRows, MaxRows, DefaultRTP,
          RiskAlphas,            \* the exponent of each risk level
          None

Resolve(c) ==
    [c EXCEPT !.rtp   = IF @ = 0 THEN DefaultRTP ELSE @,
              !.alpha = IF @ = 0 /\ c.risk \in DOMAIN RiskAlphas
                        THEN RiskAlphas[c.risk] ELSE @]

\* New, on a resolved configuration.  A table that is there has a multiplier for
\* each bucket; otherwise the outermost bucket's weight, the largest, must be a
\* float.
Valid(c) ==
    /\ c.rows \in MinRows..MaxRows
    /\ c.risk \in DOMAIN RiskAlphas
    /\ c.rtp \in 1..Unit
    /\ c.alpha >= 0
    /\ IF c.table = None THEN Power(2 ^ c.rows, c.alpha) * Unit < Infinity
       ELSE /\ Len(c.table) = c.rows + 1
            /\ \A i \in DOMAIN c.table : c.table[i] >= 0

\* Mutation: the factors start one below n.
BinomialOffByOne(n, k) ==
    LET m == IF k > n \div 2 THEN n - k ELSE k
        upTo[i \in 0..m] == IF i = 0 THEN 1
                                     ELSE (upTo[i - 1] * (n - i)) \div i
    IN  upTo[m]

\* binomialCoefficient: each division is exact.
Binomial(n, k) ==
    LET m == IF k > n \div 2 THEN n - k ELSE k
        upTo[i \in 0..m] == IF i = 0 THEN 1
                                     ELSE (upTo[i - 1] * (n - i + 1)) \div i
    IN  upTo[m]

\* computeMultipliers: a bucket of chance p weighs p ^ -alpha, and the weights
\* are scaled to return the RTP.  Common factors of the weights cancel out:
\* those of every chance are taken over the product of all binomials.
Multiplier(c, bucket) ==
    LET chance[k \in 0..c.rows] == Binomial(c.rows, k)
        common    == Product([i \in 1..(c.rows \div 2) |-> chance[i]],
                             c.rows \div 2)
        Weight(k) == Power(common \div chance[k], c.alpha)
        z         == Total([i \in 1..(c.rows + 1) |->
                               chance[i - 1] * Weight(i - 1)], c.rows + 1)
    IN  Ratio(c.rtp * Weight(bucket) * 2 ^ c.rows, Unit * z)

Requests(c) == [i \in 1..c.rows |-> 2]

Rights(draws) == Cardinality({i \in DOMAIN draws : draws[i] # 0})

Outcome(c, draws) ==
    [game |-> "plinko",
     path |-> [i \in 1..c.rows |-> IF draws[i] = 0 THEN "Left" ELSE "Right"],
     bucket     |-> Rights(draws),
     multiplier |-> IF c.table = None THEN Multiplier(c, Rights(draws))
                    ELSE Ratio(c.table[Rights(draws) + 1], Unit)]
==============================================================================
