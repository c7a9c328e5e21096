---------------------------- MODULE StreamCalls ----------------------------
(***************************************************************************)
(* What callers hand to streams.                                            *)
(***************************************************************************)
EXTENDS Integers, Sequences

CONSTANTS Bytes,       \* 0, which fills new space, and what callers write
          Sources,     \* the sequences of bytes that callers write
          Counts,      \* sizes and positions that callers ask for
          MaxSize      \* bound: of an array, where std::size_t wraps around; files do
                       \* not grow further

ASSUME CallsAssumption ==
    /\ Sources \subseteq Seq(Bytes) /\ << >> \in Sources
    /\ Counts \subseteq Nat /\ 0 \in Counts
    /\ 0 \in Bytes
    /\ MaxSize \in Nat
    /\ \A d \in Sources : Len(d) <= MaxSize
=============================================================================
