----------------------------- MODULE Detection -----------------------------
(***************************************************************************)
(* src/protocol/detect.rs, and the buffer handle_connection of             *)
(* src/server.rs:282-300 gives it, as operators on byte strings.           *)
(***************************************************************************)
EXTENDS Naturals, Sequences, SequencesExt

\* METHODS, each with the blank that follows it.
HttpMethods ==
    {<<71, 69, 84, 32>>,                           \* GET
     <<80, 79, 83, 84, 32>>,                       \* POST
     <<80, 85, 84, 32>>,                           \* PUT
     <<68, 69, 76, 69, 84, 69, 32>>,               \* DELETE
     <<72, 69, 65, 68, 32>>,                       \* HEAD
     <<79, 80, 84, 73, 79, 78, 83, 32>>,           \* OPTIONS
     <<80, 65, 84, 67, 72, 32>>,                   \* PATCH
     <<67, 79, 78, 78, 69, 67, 84, 32>>,           \* CONNECT
     <<84, 82, 65, 67, 69, 32>>}                   \* TRACE

\* A shorter buffer need only match so far.
IsHttpMethodPrefix(buf) == \E m \in HttpMethods : IsPrefix(m, buf) \/ IsPrefix(buf, m)

\* Mutant: the number of methods is looked at, too.
DetectByTwoBytes(buf) == CASE buf = <<>>                       -> "unknown"
                           [] Len(buf) > 1 /\ buf[1] = 5 /\ buf[2] # 0 -> "socks5"
                           [] IsHttpMethodPrefix(buf)          -> "http"
                           [] OTHER                            -> "unknown"

DetectProtocol(buf) == IF buf = <<>> THEN "unknown"
                       ELSE IF buf[1] = 5 THEN "socks5"
                       ELSE IF IsHttpMethodPrefix(buf) THEN "http"
                       ELSE "unknown"

\* peek() writes what has arrived over the zeros of an array of 8, and the whole array is
\* inspected, however many bytes there were.
PeekBuffer(bytes) == [i \in 1 .. 8 |-> IF i <= Len(bytes) THEN bytes[i] ELSE 0]
=============================================================================
