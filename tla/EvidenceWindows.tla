-------------------------- MODULE EvidenceWindows --------------------------
(***************************************************************************)
(* EvidenceService.chunk: a source text is cut at its headings and then    *)
(* into overlapping windows, and every window is looked up in the text     *)
(* again for its offsets.  Positions count from 0, as in Python: the       *)
(* character at position i of t is t[i + 1], and Slice(t, i, j) is t[i:j]. *)
(*                                                                         *)
(* A text is made of "x" and "." (visible), "s" (a space), "n" (a line     *)
(* end) and "h", the marks of a heading line, which the title, one visible *)
(* character, follows.                                                     *)
(***************************************************************************)
EXTENDS Integers, Sequences, FiniteSetsExt

CONSTANTS
    Texts,     \* texts, in which a visible character follows every "h"
    Limit,     \* the characters of a window
    Overlap    \* evidence_chunk_overlap, as configured

VARIABLES
    text,
    at,        \* sections finished so far
    cutting,   \* whether a section is being cut
    start,     \* where the next window starts in the section
    from,      \* section_start: where the text is searched
    offset,    \* where the text is searched for the next section
    chunks     \* the windows, with their offsets

vars == <<text, at, cutting, start, from, offset, chunks>>

Characters == {"x", ".", "s", "n", "h"}

Slice(t, i, j) == SubSeq(t, i + 1, j)
Blank(c) == c \in {"s", "n"}
Least2(a, b) == IF a < b THEN a ELSE b
Greatest2(a, b) == IF a > b THEN a ELSE b

\* text.strip()
Strip(t) ==
    LET visible == {i \in DOMAIN t : ~Blank(t[i])}
    IN IF visible = {} THEN <<>> ELSE SubSeq(t, Min(visible), Max(visible))

\* text.find(part, low), or low where the caller falls back to it.
Find(t, part, low) ==
    LET places == {i \in low .. Len(t) - Len(part) : Slice(t, i, i + Len(part)) = part}
    IN IF places = {} THEN low ELSE Min(places)

\* _sections: what the first i characters leave, and the end of the text after
\* them: where the section in hand begins and the sections before it, without the
\* blank ones.  One ends at each heading, the last with the text.
Cut[i \in 0 .. Len(text) + 1] ==
    IF i = 0 THEN [begun |-> 0, bodies |-> <<>>]
    ELSE LET prior == Cut[i - 1]
             body == Strip(Slice(text, prior.begun, i - 1))
         IN IF i <= Len(text) /\ text[i] # "h" THEN prior
            ELSE [begun |-> i + 1,
                  bodies |-> IF body = <<>> THEN prior.bodies ELSE Append(prior.bodies, body)]

\* The whole text when it has no heading or nothing else is left.
Sections ==
    LET bodies == Cut[Len(text) + 1].bodies
    IN IF bodies = <<>> \/ \A i \in DOMAIN text : text[i] # "h" THEN <<text>> ELSE bodies

\* _window: where a window that starts at s ends: at its last line or sentence
\* end, if that leaves more than half of it.  (A paragraph end is a line end.)
BreaksIn(c, s, e) ==
    {i \in s .. e - 1 : c[i + 1] = "n" \/ (c[i + 1] = "." /\ i + 2 <= e /\ c[i + 2] = "s")}

End(c, s) ==
    LET e == Least2(Len(c), s + Limit)
        breaks == BreaksIn(c, s, e)
    IN IF e < Len(c) /\ breaks # {} /\ Max(breaks) > s + Limit \div 2 THEN Max(breaks) + 1 ELSE e

\* The windows overlap by half of one at most.
Kept == Least2(Greatest2(0, Overlap), Limit \div 2)

StartAfter(s, e) == Greatest2(s + 1, e - Kept)

\* chunk: the search goes on inside the overlap.  Mutant: behind the window.
SearchBehind(end, low) == Greatest2(end, low)
SearchAfter(end, low) == Greatest2(end - Overlap, low)

Init ==
    /\ text \in Texts
    /\ at = 0 /\ cutting = FALSE
    /\ start = 0 /\ from = 0 /\ offset = 0
    /\ chunks = <<>>

Cleaned == Strip(Sections[at + 1])

BeginSection ==
    /\ ~cutting /\ at < Len(Sections)
    /\ cutting' = TRUE
    /\ start' = 0
    /\ from' = Find(text, Sections[at + 1], offset)
    /\ UNCHANGED <<text, at, offset, chunks>>

\* A window becomes a chunk unless it is blank.
CutWindow ==
    /\ cutting /\ start < Len(Cleaned)
    /\ LET end == End(Cleaned, start)
           part == Strip(Slice(Cleaned, start, end))
           place == Find(text, part, from)
       IN /\ IF part = <<>>
             THEN UNCHANGED <<chunks, from>>
             ELSE /\ chunks' = Append(chunks, [content |-> part, first |-> place, last |-> place + Len(part)])
                  /\ from' = SearchAfter(place + Len(part), from)
          /\ start' = IF end >= Len(Cleaned) THEN end ELSE StartAfter(start, end)
    /\ UNCHANGED <<text, at, cutting, offset>>

EndSection ==
    /\ cutting /\ start >= Len(Cleaned)
    /\ cutting' = FALSE
    /\ at' = at + 1
    /\ offset' = Greatest2(offset, from)
    /\ UNCHANGED <<text, start, from, chunks>>

Next == BeginSection \/ CutWindow \/ EndSection

Spec == Init /\ [][Next]_vars

-----------------------------------------------------------------------------
(* Properties.                                                             *)

\* The offsets of a chunk lead to its content in the preserved text.
QuotesAreExact ==
    \A k \in DOMAIN chunks :
        /\ chunks[k].last <= Len(text)
        /\ Slice(text, chunks[k].first, chunks[k].last) = chunks[k].content

=============================================================================
