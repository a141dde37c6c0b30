------------------------- MODULE ProvablyFairProofs -------------------------
(****************************************************************************)
(* ProvablyFairSource is the byte stream EntropyStream promises, for every  *)
(* block size, every last counter and every pattern of reads and resets:    *)
(* no byte is handed out twice, none is skipped, none of another nonce is   *)
(* among them, and a source runs out exactly when its last block does.      *)
(****************************************************************************)
EXTENDS ProvablyFair, SequenceTheorems, TLAPS

\* The bytes of the stream from position p on.
StreamBytes(n, p, k) == [i \in 1..k |-> Byte(n, p + i - 1)]

\* A source that has made no block holds none; any other holds the block its
\* counter has just left, or the last one.
BlockInv ==
    /\ counter = 0 /\ ~exhausted => offset = BlockSize
    /\ counter > 0 \/ exhausted =>
          block = [nonce   |-> nonce,
                   counter |-> IF exhausted THEN MaxCounter ELSE counter - 1]
    /\ exhausted => counter = MaxCounter

\* A read in progress has the bytes from where it began up to the cursor.
ReadInv ==
    want > 0 =>
        /\ dst = StreamBytes(nonce, start, Len(dst))
        /\ Len(dst) \in Nat
        /\ Len(dst) + want \in ReadSizes
        /\ Consumed = start + Len(dst)

FairInv == TypeOK /\ BlockInv /\ ReadInv

------------------------------------------------------------------------------
(* Blocks and positions.                                                     *)

\* Blocks one after the other.
LEMMA BlocksAdd ==
    ASSUME NEW m \in Nat, NEW n \in Nat, NEW b \in Nat, m <= n
    PROVE  /\ m * b \in Nat /\ n * b \in Nat /\ m * b <= n * b
           /\ (m + 1) * b = m * b + b
           /\ m > 0 => m * b >= b /\ (m - 1) * b = m * b - b
  <1>1. m * b \in Nat /\ n * b \in Nat /\ (m + 1) * b = m * b + b
    OBVIOUS
  <1>2. n * b = m * b + (n - m) * b /\ (n - m) * b >= 0
    OBVIOUS
  <1>3. ASSUME m > 0 PROVE m * b >= b /\ (m - 1) * b = m * b - b
    <2>1. m - 1 \in Nat /\ m * b = (m - 1) * b + b /\ (m - 1) * b \in Nat
      BY <1>3
    <2> QED BY <2>1
  <1> QED BY <1>1, <1>2, <1>3

\* How far a source that has made a block has come: to the end of the blocks
\* before the one it holds, and on by the offset.
LEMMA PositionIs ==
    ASSUME TypeOK, BlockInv, counter > 0 \/ exhausted
    PROVE  /\ block.counter \in 0..MaxCounter
           /\ Position = block.counter * BlockSize + offset
           /\ Consumed = Position
           /\ Position \in Nat
           /\ Position <= (MaxCounter + 1) * BlockSize
           /\ exhausted /\ offset = BlockSize =>
                 Position = (MaxCounter + 1) * BlockSize
  <1> DEFINE B == BlockSize
             c == block.counter
             M == MaxCounter
  <1>1. B \in Nat \ {0} /\ M \in Nat
    BY FairAssumption
  <1>2. /\ counter \in 0..M /\ offset \in 0..B /\ exhausted \in BOOLEAN
        /\ exhausted => counter = M
        /\ c = IF exhausted THEN M ELSE counter - 1
    BY DEF TypeOK, BlockInv
  <1> HIDE DEF B, c, M
  <1>3. c \in 0..M
    BY <1>1, <1>2
  <1>4. (IF exhausted THEN M + 1 ELSE counter) = c + 1
    BY <1>1, <1>2
  <1>5. /\ c * B \in Nat /\ c * B <= M * B
        /\ (c + 1) * B = c * B + B /\ (M + 1) * B = M * B + B
    BY <1>1, <1>3, BlocksAdd
  <1>6. Position = (c + 1) * B - (B - offset)
    BY <1>4 DEF Position, B, M
  <1>7. Position = c * B + offset
    BY <1>1, <1>2, <1>5, <1>6
  <1>8. Position \in Nat /\ Position <= (M + 1) * B
    BY <1>1, <1>2, <1>5, <1>7
  <1>9. exhausted /\ offset = B => Position = (M + 1) * B
    BY <1>1, <1>2, <1>5, <1>7
  <1>10. Consumed = Position
    <2>1. ~(counter = 0 /\ ~exhausted)
      BY <1>1, <1>2
    <2> QED BY <2>1 DEF Consumed
  <1> QED BY <1>3, <1>7, <1>8, <1>9, <1>10 DEF B, c, M

\* ... and one that has not has come nowhere.
LEMMA ConsumedIs ==
    ASSUME TypeOK, BlockInv
    PROVE  /\ Consumed \in Nat
           /\ Consumed <= (MaxCounter + 1) * BlockSize
           /\ counter = 0 /\ ~exhausted => Consumed = 0
  <1>1. CASE counter > 0 \/ exhausted
    <2>1. ~(counter = 0 /\ ~exhausted)
      BY <1>1 DEF TypeOK
    <2> QED BY <1>1, <2>1, PositionIs
  <1>2. CASE counter = 0 /\ ~exhausted
    <2>1. Consumed = 0
      BY <1>2 DEF Consumed
    <2>2. (MaxCounter + 1) * BlockSize \in Nat
      BY FairAssumption
    <2> QED BY <2>1, <2>2
  <1>3. counter \in Nat
    BY DEF TypeOK
  <1> QED BY <1>1, <1>2, <1>3

\* Two pieces of the stream, one after the other.
LEMMA StreamGoesOn ==
    ASSUME NEW n, NEW p \in Nat, NEW k \in Nat, NEW m \in Nat
    PROVE  /\ StreamBytes(n, p, k) \o StreamBytes(n, p + k, m)
                 = StreamBytes(n, p, k + m)
           /\ Len(StreamBytes(n, p, k)) = k
  <1> DEFINE V == {Byte(n, i) : i \in Nat}
             s == StreamBytes(n, p, k)
             t == StreamBytes(n, p + k, m)
             u == StreamBytes(n, p, k + m)
  <1>1. s \in [1..k -> V] /\ t \in [1..m -> V] /\ u \in [1..(k + m) -> V]
    BY DEF StreamBytes
  <1>2. /\ \A i \in 1..k : s[i] = Byte(n, p + i - 1)
        /\ \A i \in 1..m : t[i] = Byte(n, p + k + i - 1)
        /\ \A i \in 1..(k + m) : u[i] = Byte(n, p + i - 1)
    BY DEF StreamBytes
  <1> HIDE DEF V, s, t, u
  <1>3. /\ s \in Seq(V) /\ t \in Seq(V) /\ u \in Seq(V)
        /\ Len(s) = k /\ Len(t) = m /\ Len(u) = k + m
    BY <1>1
  <1>4. /\ s \o t \in Seq(V) /\ Len(s \o t) = k + m
        /\ \A i \in 1..k : (s \o t)[i] = s[i]
        /\ \A i \in 1..m : (s \o t)[k + i] = t[i]
    BY <1>3
  <1> DEFINE v == s \o t
  <1>6. \A i \in 1..k : v[i] = u[i]
    <2> TAKE i \in 1..k
    <2>1. i \in 1..(k + m)
      OBVIOUS
    <2> QED BY <1>2, <1>4, <2>1
  <1>7. \A j \in 1..m : v[k + j] = u[k + j]
    <2> TAKE j \in 1..m
    <2>1. k + j \in 1..(k + m) /\ p + (k + j) - 1 = p + k + j - 1
      OBVIOUS
    <2>2. u[k + j] = Byte(n, p + (k + j) - 1)
      BY <1>2, <2>1
    <2> QED BY <1>2, <1>4, <2>1, <2>2
  <1> HIDE DEF v
  <1>8. ASSUME NEW i \in 1..(k + m) PROVE v[i] = u[i]
    <2>1. i \in 1..k \/ \E j \in 1..m : i = k + j
      <3>1. i \in 1..k \/ (i - k \in 1..m /\ i = k + (i - k))
        OBVIOUS
      <3> QED BY <3>1
    <2> QED BY <1>6, <1>7, <2>1, Zenon
  <1>9. v = u
    <2>1. v \in Seq(V) /\ Len(v) = k + m
      BY <1>4 DEF v
    <2> QED BY <1>3, <1>8, <2>1, SeqEqual
  <1> QED BY <1>3, <1>9 DEF s, t, u, v

------------------------------------------------------------------------------
(* The invariant.                                                            *)

\* A new source satisfies the invariant.
LEMMA FairInit == Init => FairInv
  <1> SUFFICES ASSUME Init PROVE FairInv
    OBVIOUS
  <1>1. TypeOK
    <2>1. counter = 0 /\ want = 0 /\ start = 0 /\ nonce \in Nonces
          /\ offset = BlockSize
      BY DEF Init
    <2>2. exhausted \in BOOLEAN
      BY DEF Init
    <2>3. counter \in 0..MaxCounter /\ offset \in 0..BlockSize
      BY <2>1, FairAssumption
    <2> QED BY <2>1, <2>2, <2>3 DEF TypeOK
  <1>2. BlockInv /\ ReadInv
    BY FairAssumption DEF Init, BlockInv, ReadInv
  <1> QED BY <1>1, <1>2 DEF FairInv

\* A fresh stream satisfies the invariant.
LEMMA ResetInv == FairInv /\ ResetNonce => FairInv'
  <1> SUFFICES ASSUME FairInv, ResetNonce PROVE FairInv'
    OBVIOUS
  <1>1. TypeOK'
    <2>1. counter' = 0 /\ want' = 0 /\ start' = 0 /\ nonce' \in Nonces
          /\ offset' = BlockSize
      BY DEF ResetNonce
    <2>2. exhausted' \in BOOLEAN
      BY DEF ResetNonce
    <2>3. counter' \in 0..MaxCounter /\ offset' \in 0..BlockSize
      BY <2>1, FairAssumption
    <2> QED BY <2>1, <2>2, <2>3 DEF TypeOK
  <1>2. BlockInv' /\ ReadInv'
    BY FairAssumption DEF ResetNonce, BlockInv, ReadInv
  <1> QED BY <1>1, <1>2 DEF FairInv

\* A read starts at the cursor, with no byte yet.
LEMMA StartInv == FairInv /\ ReadStarts => FairInv'
  <1> SUFFICES ASSUME FairInv, ReadStarts PROVE FairInv'
    OBVIOUS
  <1> USE DEF FairInv, ReadStarts, source
  <1>1. want' \in ReadSizes /\ want' \in Nat /\ want' > 0 /\ dst' = <<>>
        /\ start' = Consumed /\ Consumed \in Nat
    BY FairAssumption, ConsumedIs
  <1>2. TypeOK' /\ BlockInv'
    BY <1>1 DEF TypeOK, BlockInv
  <1>3. Consumed' = Consumed
    BY DEF Consumed, Position
  <1>4. dst' = StreamBytes(nonce', start', 0) /\ Len(dst') = 0
    BY <1>1 DEF StreamBytes
  <1>5. ReadInv'
    BY <1>1, <1>3, <1>4 DEF ReadInv
  <1> QED BY <1>2, <1>5

\* The next block begins where the last one ended.
LEMMA RefillInv == FairInv /\ Refill => FairInv'
  <1> SUFFICES ASSUME FairInv, Refill PROVE FairInv'
    OBVIOUS
  <1> USE DEF FairInv
  <1>1. /\ want > 0 /\ offset = BlockSize /\ ~exhausted
        /\ block' = [nonce |-> nonce, counter |-> counter]
        /\ offset' = 0
        /\ exhausted' = (counter = MaxCounter)
        /\ counter' = IF counter = MaxCounter THEN counter ELSE counter + 1
        /\ UNCHANGED <<nonce, want, dst, got, start>>
    BY DEF Refill
  <1>2. counter \in 0..MaxCounter /\ MaxCounter \in Nat /\ BlockSize \in Nat \ {0}
    BY FairAssumption DEF TypeOK
  <1>3. exhausted' \in BOOLEAN
    BY <1>1
  <1>4. counter' \in 0..MaxCounter /\ (exhausted' => counter' = MaxCounter)
        /\ (exhausted' \/ counter' > 0)
        /\ counter = IF exhausted' THEN MaxCounter ELSE counter' - 1
    <2>1. CASE counter = MaxCounter
      BY <1>1, <1>2, <2>1
    <2>2. CASE counter # MaxCounter
      <3>1. ~exhausted' /\ counter' = counter + 1
        BY <1>1, <2>2
      <3> QED BY <1>2, <2>2, <3>1
    <2> QED BY <2>1, <2>2
  <1>5. TypeOK'
    BY <1>1, <1>2, <1>3, <1>4 DEF TypeOK
  <1>6. BlockInv'
    BY <1>1, <1>2, <1>4 DEF BlockInv
  <1>7. Consumed' = counter * BlockSize
    <2>1. (IF exhausted' THEN MaxCounter + 1 ELSE counter') = counter + 1
      <3>1. CASE counter = MaxCounter
        BY <1>1, <3>1
      <3>2. CASE counter # MaxCounter
        BY <1>1, <3>2
      <3> QED BY <3>1, <3>2
    <2>2. Position' = (counter + 1) * BlockSize - BlockSize
      <3>1. Position' = (counter + 1) * BlockSize - (BlockSize - 0)
        BY <1>1, <2>1 DEF Position
      <3> QED BY <1>2, <3>1
    <2>3. (counter + 1) * BlockSize = counter * BlockSize + BlockSize
          /\ counter * BlockSize \in Nat
      BY <1>2, BlocksAdd
    <2>4. Consumed' = Position'
      BY <1>2, <1>4 DEF Consumed
    <2> QED BY <1>2, <2>2, <2>3, <2>4
  <1>8. Consumed = counter * BlockSize
    <2>1. CASE counter = 0
      BY <1>1, <1>2, <2>1 DEF Consumed
    <2>2. CASE counter # 0
      <3>1. Consumed = counter * BlockSize - (BlockSize - BlockSize)
        BY <1>1, <2>2 DEF Consumed, Position
      <3>2. counter * BlockSize \in Nat
        BY <1>2
      <3> QED BY <1>2, <3>1, <3>2
    <2> QED BY <2>1, <2>2
  <1>9. ReadInv'
    BY <1>1, <1>7, <1>8 DEF ReadInv
  <1> QED BY <1>5, <1>6, <1>9

\* What Copy does to a read: it has n more bytes, the stream's next.
LEMMA CopyIs ==
    ASSUME FairInv, Copy
    PROVE  LET n == Least(want, BlockSize - offset) IN
           /\ n \in 1..want /\ n <= BlockSize - offset
           /\ dst' = StreamBytes(nonce, start, Len(dst) + n)
           /\ Len(dst') = Len(dst) + n /\ Len(dst) \in Nat
           /\ Consumed' = Consumed + n
           /\ Consumed' <= (MaxCounter + 1) * BlockSize
           /\ TypeOK' /\ BlockInv'
  <1> USE DEF FairInv
  <1> DEFINE n == Least(want, BlockSize - offset)
             bytes == [i \in 1..n |-> BlockByte(offset + i - 1)]
  <1>1. /\ want > 0 /\ offset < BlockSize
        /\ dst' = dst \o bytes /\ offset' = offset + n /\ want' = want - n
        /\ UNCHANGED <<nonce, counter, block, exhausted, start>>
    BY DEF Copy
  <1>2. /\ BlockSize \in Nat \ {0} /\ offset \in 0..BlockSize /\ want \in Nat
        /\ start \in Nat /\ counter \in Nat /\ exhausted \in BOOLEAN
    BY FairAssumption DEF TypeOK
  <1>3. n \in 1..want /\ n <= BlockSize - offset /\ n \in Nat
    BY <1>1, <1>2 DEF Least
  <1> HIDE DEF n
  <1>4. counter > 0 \/ exhausted
    BY <1>1, <1>2 DEF BlockInv
  <1>5. /\ block.counter \in Nat /\ block.nonce = nonce
        /\ Consumed = block.counter * BlockSize + offset
        /\ block.counter * BlockSize \in Nat
    BY <1>2, <1>4, PositionIs DEF BlockInv
  <1>6. /\ dst = StreamBytes(nonce, start, Len(dst)) /\ Len(dst) \in Nat
        /\ Consumed = start + Len(dst)
    BY <1>1 DEF ReadInv
  <1>7. bytes = StreamBytes(nonce, start + Len(dst), n)
    <2> DEFINE q == block.counter * BlockSize
               l == Len(dst)
    <2>1. q \in Nat /\ l \in Nat /\ q + offset = start + l
      BY <1>5, <1>6
    <2>2. \A i \in 1..n : BlockByte(offset + i - 1)
                             = Byte(nonce, q + (offset + i - 1))
      BY <1>5 DEF BlockByte
    <2> HIDE DEF q, l
    <2>3. \A i \in 1..n : q + (offset + i - 1) = start + l + i - 1
      BY <1>2, <1>3, <2>1
    <2> QED BY <2>2, <2>3 DEF StreamBytes, l
  <1>8. /\ dst' = StreamBytes(nonce, start, Len(dst) + n)
        /\ Len(dst') = Len(dst) + n
    <2> HIDE DEF bytes
    <2>1. dst' = StreamBytes(nonce, start, Len(dst))
                    \o StreamBytes(nonce, start + Len(dst), n)
      BY <1>1, <1>6, <1>7
    <2> DEFINE l == Len(dst)
    <2>2. start \in Nat /\ l \in Nat /\ n \in Nat /\ l + n \in Nat
      BY <1>2, <1>3, <1>6
    <2> HIDE DEF l
    <2>3. \A m \in Nat, x \in Nat, k \in Nat :
             /\ StreamBytes(nonce, x, k) \o StreamBytes(nonce, x + k, m)
                   = StreamBytes(nonce, x, k + m)
             /\ Len(StreamBytes(nonce, x, k)) = k
      BY StreamGoesOn
    <2>4. /\ StreamBytes(nonce, start, l) \o StreamBytes(nonce, start + l, n)
                = StreamBytes(nonce, start, l + n)
          /\ Len(StreamBytes(nonce, start, l + n)) = l + n
      BY <2>2, <2>3, Zenon
    <2> QED BY <2>1, <2>4 DEF l
  <1>9. TypeOK'
    <2>1. offset' \in 0..BlockSize /\ want' \in Nat
      BY <1>1, <1>2, <1>3
    <2> QED BY <1>1, <2>1 DEF TypeOK
  <1>10. BlockInv'
    BY <1>1, <1>2, <1>4 DEF BlockInv
  <1>11. Consumed' = Consumed + n
    <2>1. (counter > 0 \/ exhausted)'
      BY <1>1, <1>4
    <2>2. ~(counter = 0 /\ ~exhausted) /\ ~(counter = 0 /\ ~exhausted)'
      BY <1>1, <1>2, <1>4
    <2>3. Consumed = Position /\ Consumed' = Position'
      BY <2>2 DEF Consumed
    <2> DEFINE r == (IF exhausted THEN MaxCounter + 1 ELSE counter) * BlockSize
    <2>4. Position = r - (BlockSize - offset)
          /\ Position' = r - (BlockSize - (offset + n))
      BY <1>1 DEF Position
    <2>5. r \in Nat
      BY <1>2, FairAssumption
    <2> HIDE DEF r
    <2> QED BY <1>2, <1>3, <2>3, <2>4, <2>5
  <1>12. Consumed' <= (MaxCounter + 1) * BlockSize
    <2>1. offset' = offset + n /\ block' = block /\ offset' <= BlockSize
      BY <1>1, <1>2, <1>3
    <2>2. block.counter \in 0..MaxCounter
      BY <1>4, PositionIs
    <2>3. /\ block.counter * BlockSize <= MaxCounter * BlockSize
          /\ (MaxCounter + 1) * BlockSize = MaxCounter * BlockSize + BlockSize
          /\ MaxCounter * BlockSize \in Nat
      BY <1>2, <2>2, FairAssumption, BlocksAdd
    <2> QED BY <1>2, <1>3, <1>5, <1>11, <2>1, <2>3
  <1> QED BY <1>3, <1>6, <1>8, <1>9, <1>10, <1>11, <1>12 DEF n

\* Copying bytes out of the current block keeps the invariant.
LEMMA CopyInv == FairInv /\ Copy => FairInv'
  <1> SUFFICES ASSUME FairInv, Copy PROVE FairInv'
    OBVIOUS
  <1> DEFINE n == Least(want, BlockSize - offset)
  <1>1. /\ n \in 1..want /\ Len(dst') = Len(dst) + n /\ Len(dst) \in Nat
        /\ dst' = StreamBytes(nonce, start, Len(dst) + n)
        /\ Consumed' = Consumed + n /\ TypeOK' /\ BlockInv'
    BY CopyIs
  <1>2. want > 0 /\ want' = want - n /\ nonce' = nonce /\ start' = start
    BY DEF Copy
  <1>3. /\ Len(dst) + want \in ReadSizes /\ Consumed = start + Len(dst)
        /\ want \in Nat /\ start \in Nat
    BY <1>2 DEF FairInv, ReadInv, TypeOK
  <1> HIDE DEF n
  <1>4. Len(dst') + want' = Len(dst) + want /\ Consumed' = start + Len(dst')
        /\ Len(dst') \in Nat
    BY <1>1, <1>2, <1>3
  <1>5. ReadInv'
    BY <1>1, <1>2, <1>3, <1>4 DEF ReadInv
  <1> QED BY <1>1, <1>5 DEF FairInv

\* Every step of the source keeps the invariant.
LEMMA FairNext == FairInv /\ [Next]_vars => FairInv'
  <1> SUFFICES ASSUME FairInv, [Next]_vars PROVE FairInv'
    OBVIOUS
  <1>1. CASE UNCHANGED vars
    BY <1>1 DEF vars, source, FairInv, TypeOK, BlockInv, ReadInv, Consumed,
                Position
  <1>2. CASE RefillRefused
    BY <1>2 DEF RefillRefused, source, FairInv, TypeOK, BlockInv, ReadInv
  <1> QED BY <1>1, <1>2, ResetInv, StartInv, RefillInv, CopyInv DEF Next

\* The invariant holds in every state.
LEMMA FairInvHolds == Spec => []FairInv
  BY FairInit, FairNext, PTL DEF Spec

------------------------------------------------------------------------------
(* The theorems.                                                             *)

\* The cursor never leaves the block, the counter never passes the last one,
\* and read never asks for less than nothing.
THEOREM SourceIsTyped == Spec => []TypeOK
  BY FairInvHolds, PTL DEF FairInv

\* ProvablyFairSource implements EntropyStream: whatever reads and resets a
\* caller mixes, a read hands out the next bytes of the current nonce's stream
\* or, when fewer are left than it asked for, fails and uses the rest up.
THEOREM SourceIsAStream == Spec => ImplementsStream
  <1>1. Init => Stream!Init
    BY DEF Init, Stream!Init, Stream!Nothing, Consumed
  <1>2. FairInv /\ FairInv' /\ [Next]_vars => [Stream!Next]_(Stream!vars)
    <2> SUFFICES ASSUME FairInv, FairInv', [Next]_vars
                 PROVE  [Stream!Next]_(Stream!vars)
      OBVIOUS
    <2> DEFINE at == IF want > 0 THEN start ELSE Consumed
               L  == (MaxCounter + 1) * BlockSize
    <2>0. /\ Stream!vars = <<nonce, at, got>>
          /\ want \in Nat
      BY DEF Stream!vars, FairInv, TypeOK
    <2>1. CASE UNCHANGED vars
      <3>1. UNCHANGED <<nonce, at, got>>
        BY <2>1 DEF vars, source, Consumed, Position
      <3> QED BY <3>1 DEF Stream!vars
    <2>2. CASE ResetNonce
      <3>1. at' = 0
        BY <2>2 DEF ResetNonce, Consumed
      <3>2. Stream!Reset
        BY <2>2, <3>1 DEF ResetNonce, Stream!Reset, Stream!Nothing
      <3> QED BY <3>2 DEF Stream!Next
    <2>3. CASE ReadStarts
      <3>1. want = 0 /\ want' > 0 /\ start' = Consumed /\ UNCHANGED <<nonce, got>>
        BY <2>3, FairAssumption DEF ReadStarts, source
      <3>2. at' = at
        BY <3>1
      <3> QED BY <3>1, <3>2 DEF Stream!vars
    <2>4. CASE Refill
      <3>1. want > 0 /\ UNCHANGED <<nonce, want, got, start>>
        BY <2>4 DEF Refill
      <3>2. at' = at
        BY <3>1
      <3> QED BY <3>1, <3>2 DEF Stream!vars
    <2>5. CASE RefillRefused
      <3> DEFINE k == Len(dst) + want
      <3>1. /\ want > 0 /\ offset = BlockSize /\ exhausted /\ want' = 0
            /\ got' = [ok |-> FALSE, bytes |-> <<>>]
            /\ UNCHANGED <<source, start>>
        BY <2>5 DEF RefillRefused
      <3>2. /\ k \in ReadSizes /\ Len(dst) \in Nat
            /\ Consumed = start + Len(dst) /\ start \in Nat
        BY <3>1 DEF FairInv, ReadInv, TypeOK
      <3>3. Consumed = L
        BY <3>1, PositionIs DEF FairInv
      <3>4. at = start /\ at' = L /\ nonce' = nonce
        <4>1. Consumed' = Consumed
          BY <3>1 DEF Consumed, Position, source
        <4> QED BY <3>1, <3>3, <4>1 DEF source
      <3>5. start + k > L
        <4>1. start + k = Consumed + want /\ Consumed \in Nat
          BY <2>0, <3>2
        <4> HIDE DEF L, k
        <4> QED BY <2>0, <3>1, <3>3, <4>1
      <3>6. Stream!RunsOut(k)
        <4> HIDE DEF k
        <4> QED BY <3>1, <3>4, <3>5 DEF Stream!RunsOut
      <3> QED BY <3>2, <3>6 DEF Stream!Next
    <2>6. CASE Copy
      <3> DEFINE n == Least(want, BlockSize - offset)
                 k == Len(dst) + want
      <3>1. /\ n \in 1..want /\ Len(dst) \in Nat
            /\ dst' = StreamBytes(nonce, start, Len(dst) + n)
            /\ Consumed' = Consumed + n /\ Consumed' <= L
        BY <2>6, CopyIs
      <3>2. /\ want > 0 /\ want' = want - n
            /\ got' = IF n = want THEN [ok |-> TRUE, bytes |-> dst'] ELSE got
            /\ nonce' = nonce /\ start' = start
        BY <2>6 DEF Copy
      <3>3. /\ k \in ReadSizes /\ Consumed = start + Len(dst)
            /\ start \in Nat
        BY <3>2 DEF FairInv, ReadInv, TypeOK
      <3> HIDE DEF n, L
      <3>4. CASE n = want
        <4>1. want' = 0 /\ at = start
          BY <2>0, <3>2, <3>4
        <4>2. at' = start + k /\ start + k <= L
          <5>1. at' = Consumed'
            BY <4>1
          <5>2. Consumed' = start + k
            BY <2>0, <3>1, <3>3, <3>4
          <5> QED BY <3>1, <5>1, <5>2
        <4>3. got' = [ok |-> TRUE, bytes |-> [i \in 1..k |->
                                                Byte(nonce, start + i - 1)]]
          BY <3>1, <3>2, <3>4 DEF StreamBytes
        <4>4. Stream!Read(k)
          <5> HIDE DEF k
          <5> QED BY <3>2, <4>1, <4>2, <4>3
                  DEF Stream!Read, Stream!Byte, Byte, L
        <4> QED BY <3>3, <4>4 DEF Stream!Next
      <3>5. CASE n # want
        <4>1. want' > 0 /\ got' = got
          BY <2>0, <3>1, <3>2, <3>5
        <4>2. at' = at
          BY <3>2, <4>1
        <4> QED BY <3>2, <4>1, <4>2 DEF Stream!vars
      <3> QED BY <3>4, <3>5
    <2> QED BY <2>1, <2>2, <2>3, <2>4, <2>5, <2>6 DEF Next
  <1> QED BY <1>1, <1>2, FairInvHolds, PTL DEF Spec, ImplementsStream, Stream!Spec
=============================================================================
