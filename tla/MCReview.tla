------------------------------ MODULE MCReview ------------------------------
(* An instance of Review for TLC. *)
EXTENDS Review

UpTo(n, S) == UNION {[1 .. m -> S] : m \in 0 .. n}

(* Up to three files: on the skip list, without a patch, with one of half   *)
(* the byte limit, with one beyond it.                                      *)
SmallInputs ==
    UpTo(3, {[skip |-> TRUE, len |-> 1]} \cup [skip : {FALSE}, len : {0, 1, 3}])

(* A finding of each kind: unknown path, not confident, without lines, with *)
(* one or both, backwards, negative.                                        *)
Lined(s, e) == [path |-> 1, confidence |-> 80, start |-> s, end |-> e]
Kinds == {[Lined(1, 1) EXCEPT !.path = 0], [Lined(1, 1) EXCEPT !.confidence = 79],
          Lined(0, 0), Lined(2, 0), Lined(1, 2), Lined(2, 1), Lined(-1, 2)}

(* Any two findings, and three that compete for comments. *)
SmallOutputs == UpTo(2, Kinds) \cup [1 .. 3 -> {Lined(0, 0), Lined(1, 2)}]
=============================================================================
