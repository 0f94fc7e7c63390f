----------------------------- MODULE Translation -----------------------------
(* What a run of the transpiler promises to the build that follows it: the    *)
(* program is judged as a whole before its translation is begun.  A rejected  *)
(* program has no text; the text of an accepted one only grows, and is        *)
(* completed.  How the judgement is made (main.cpp: by a complete first walk) *)
(* is not said here.                                                          *)
EXTENDS Sequences, SequencesExt

VARIABLES
    verdict,   \* on the program
    text,      \* the translation so far
    complete

tvars == <<verdict, text, complete>>

Init == verdict = "undecided" /\ text = <<>> /\ ~complete

Reject ==
    /\ verdict = "undecided"
    /\ verdict' = "rejected"
    /\ UNCHANGED <<text, complete>>

\* The translation starts with an opening: the forward declarations.
Accept ==
    /\ verdict = "undecided"
    /\ verdict' = "accepted"
    /\ UNCHANGED complete

Write ==
    /\ verdict = "accepted" /\ ~complete
    /\ text # text' /\ IsPrefix(text, text')
    /\ UNCHANGED <<verdict, complete>>

Complete ==
    /\ verdict = "accepted" /\ ~complete
    /\ complete' = TRUE
    /\ UNCHANGED <<verdict, text>>

Next == Reject \/ Accept \/ Write \/ Complete

\* A judgement is reached, and an accepted program is translated completely.
Decided == <>(verdict # "undecided")
Completed == verdict = "accepted" ~> complete

Safety == Init /\ [][Next]_tvars

Spec == Safety /\ Decided /\ Completed
=============================================================================
