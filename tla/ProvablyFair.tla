---------------------------- MODULE ProvablyFair ----------------------------
(****************************************************************************)
(* ProvablyFairSource of core/entropy/entropy.go: the byte stream of a      *)
(* nonce, made one HMAC block at a time.                                    *)
(*                                                                          *)
(* The keyed hash is external and taken to be a function of its input: a    *)
(* block is known by the nonce and the counter it was computed from, and a  *)
(* byte by its block and its offset.  BlockSize stands for hmacBlockSize    *)
(* (32) and MaxCounter for 2^64 - 1.  One action is one turn of read's      *)
(* loop; the source belongs to one goroutine, so resets fall between reads. *)
(****************************************************************************)
EXTENDS Integers, Sequences

CONSTANTS Nonces, BlockSize, MaxCounter, ReadSizes

ASSUME FairAssumption ==
    /\ BlockSize \in Nat \ {0}
    /\ MaxCounter \in Nat
    /\ ReadSizes \subseteq Nat \ {0}

VARIABLES nonce,      \* p.nonce
          counter,    \* p.counter, the next block's
          block,      \* which block p.block holds
          offset,     \* p.offset, the next byte of it
          exhausted,  \* p.exhausted
          want,       \* len(dst): bytes the current read still asks for
          dst,        \* the bytes it has so far
          got,        \* the last read's outcome since the reset
          start       \* history: the stream position when the read began

source == <<nonce, counter, block, offset, exhausted>>
vars   == <<source, want, dst, got, start>>

\* The array of zeros a source starts with and clear leaves behind.
NoBlock == [nonce |-> 0, counter |-> -1]

Byte(n, i) == [nonce |-> n, index |-> i]

\* The byte of the held block at offset o, in stream coordinates.
BlockByte(o) == Byte(block.nonce, block.counter * BlockSize + o)

\* Bytes handed out since the reset: those of the blocks made, less what the
\* held one has left.
Position ==
    (IF exhausted THEN MaxCounter + 1 ELSE counter) * BlockSize
        - (BlockSize - offset)

\* ... where a source that has made no block counts as having used one up.
Consumed == IF counter = 0 /\ ~exhausted THEN 0 ELSE Position

TypeOK ==
    /\ nonce \in Nonces
    /\ counter \in 0..MaxCounter
    /\ offset \in 0..BlockSize
    /\ exhausted \in BOOLEAN
    /\ want \in Nat
    /\ start \in Nat

\* NewProvablyFairSource.
Init ==
    /\ nonce \in Nonces /\ counter = 0 /\ block = NoBlock
    /\ offset = BlockSize /\ exhausted = FALSE
    /\ want = 0 /\ dst = <<>> /\ start = 0
    /\ got = [ok |-> TRUE, bytes |-> <<>>]

\* Mutation: the cursor into the old block survives the reset.
ResetNonceKeepsOffset ==
    /\ want = 0
    /\ nonce' \in Nonces /\ counter' = 0 /\ block' = block
    /\ offset' = offset /\ exhausted' = FALSE
    /\ dst' = <<>> /\ start' = 0 /\ got' = [ok |-> TRUE, bytes |-> <<>>]
    /\ UNCHANGED want

ResetNonce ==
    /\ want = 0
    /\ nonce' \in Nonces /\ counter' = 0 /\ block' = NoBlock
    /\ offset' = BlockSize /\ exhausted' = FALSE
    /\ dst' = <<>> /\ start' = 0 /\ got' = [ok |-> TRUE, bytes |-> <<>>]
    /\ UNCHANGED want

\* Bits and Uint64 read a whole number of bytes.
ReadStarts ==
    /\ want = 0
    /\ want' \in ReadSizes /\ dst' = <<>> /\ start' = Consumed
    /\ UNCHANGED <<source, got>>

\* Mutation: the last counter is not recognised.
RefillUnchecked ==
    /\ want > 0 /\ offset = BlockSize /\ ~exhausted
    /\ block' = [nonce |-> nonce, counter |-> counter]
    /\ offset' = 0
    /\ exhausted' = exhausted
    /\ counter' = counter + 1
    /\ UNCHANGED <<nonce, want, dst, got, start>>

\* refill: the last counter is used once, then the source is exhausted.
Refill ==
    /\ want > 0 /\ offset = BlockSize /\ ~exhausted
    /\ block' = [nonce |-> nonce, counter |-> counter]
    /\ offset' = 0
    /\ exhausted' = (counter = MaxCounter)
    /\ counter' = IF counter = MaxCounter THEN counter ELSE counter + 1
    /\ UNCHANGED <<nonce, want, dst, got, start>>

\* Mutation: the error is dropped and the loop goes round again.
RefillRefusedIgnored ==
    /\ want > 0 /\ offset = BlockSize /\ exhausted
    /\ got' = [ok |-> FALSE, bytes |-> <<>>]
    /\ UNCHANGED <<source, want, dst, start>>

\* refill refuses; the bytes read already are lost to the caller.
RefillRefused ==
    /\ want > 0 /\ offset = BlockSize /\ exhausted
    /\ want' = 0 /\ got' = [ok |-> FALSE, bytes |-> <<>>]
    /\ UNCHANGED <<source, dst, start>>

Least(a, b) == IF a < b THEN a ELSE b

\* copy(dst, p.block[p.offset:]); read returns when dst is full.
Copy ==
    /\ want > 0 /\ offset < BlockSize
    /\ LET n == Least(want, BlockSize - offset) IN
       /\ dst' = dst \o [i \in 1..n |-> BlockByte(offset + i - 1)]
       /\ offset' = offset + n
       /\ want' = want - n
       /\ got' = IF n = want THEN [ok |-> TRUE, bytes |-> dst'] ELSE got
    /\ UNCHANGED <<nonce, counter, block, exhausted, start>>

Next == ResetNonce \/ ReadStarts \/ Refill \/ RefillRefused \/ Copy

\* A read, once called, runs to its end; nothing makes a caller call.
Spec == Init /\ [][Next]_vars /\ WF_vars(Refill \/ RefillRefused \/ Copy)

------------------------------------------------------------------------------
(* Properties.                                                               *)

\* A read that was started returns.
ReadReturns == want > 0 ~> want = 0

\* The source is the byte stream EntropyStream promises.
Stream == INSTANCE EntropyStream WITH
    Length   <- (MaxCounter + 1) * BlockSize,
    position <- IF want > 0 THEN start ELSE Consumed

ImplementsStream == Stream!Spec
==============================================================================
