---------------------------- MODULE EntropyStream ----------------------------
(****************************************************************************)
(* What a seeded entropy source promises: a finite stream of bytes for each *)
(* nonce, read front to back.  A read hands out the next bytes of the       *)
(* current nonce's stream, none twice and none skipped, or fails for good   *)
(* once fewer are left than it asked for; a reset goes back to the first    *)
(* byte, as a fresh source would.  ProvablyFair implements it.              *)
(****************************************************************************)
EXTENDS Integers, Sequences

CONSTANTS Nonces,    \* the nonces of the rounds played
          Length,    \* bytes in the stream of one nonce
          ReadSizes  \* bytes a caller asks for at a time

VARIABLES nonce,     \* whose stream is being read
          position,  \* bytes of it consumed
          got        \* the last read's outcome since the reset

vars == <<nonce, position, got>>

\* Byte i of nonce n's stream, identified by where it comes from.
Byte(n, i) == [nonce |-> n, index |-> i]

Nothing == [ok |-> TRUE, bytes |-> <<>>]

Init == nonce \in Nonces /\ position = 0 /\ got = Nothing

Read(k) ==
    /\ position + k <= Length
    /\ position' = position + k
    /\ got' = [ok |-> TRUE,
               bytes |-> [i \in 1..k |-> Byte(nonce, position + i - 1)]]
    /\ nonce' = nonce

RunsOut(k) ==
    /\ position + k > Length
    /\ position' = Length
    /\ got' = [ok |-> FALSE, bytes |-> <<>>]
    /\ nonce' = nonce

Reset == nonce' \in Nonces /\ position' = 0 /\ got' = Nothing

Next == Reset \/ \E k \in ReadSizes : Read(k) \/ RunsOut(k)

Spec == Init /\ [][Next]_vars
==============================================================================
