----------------------------- MODULE Assembler -----------------------------
(* IncrementalUtteranceAssembler of dialogue/assembler.py: the pure function *)
(* that cuts the model's text into speech segments. A text is a sequence of  *)
(* character classes; positions are 1-based, so the code's text[:i] is       *)
(* SubSeq(text, 1, i).                                                       *)
EXTENDS Naturals, Sequences, FiniteSetsExt, SequencesExt

CONSTANT MaxSegmentChars   \* max_segment_chars

ASSUME MaxSegmentCharsAssumption == MaxSegmentChars \in Nat /\ MaxSegmentChars >= 2

\* A letter; one of . ! ?; one of their CJK forms; a space; a newline.
Letter == "a"
Stop == "."
CjkStop == "cjk"
Space == " "
Newline == "nl"

Chars == {Letter, Stop, CjkStop, Space, Newline}
Blank == {Space, Newline}

\* str.lstrip, str.strip
VisibleAt(text) == {i \in DOMAIN text : text[i] \notin Blank}

StripLeft(text) ==
    IF VisibleAt(text) = {} THEN <<>> ELSE SubSeq(text, Min(VisibleAt(text)), Len(text))

Strip(text) ==
    IF VisibleAt(text) = {} THEN <<>>
    ELSE SubSeq(text, Min(VisibleAt(text)), Max(VisibleAt(text)))

\* The last position of the run of characters of S that starts at i (i - 1 if none).
RunEnd(text, i, S) ==
    Max({j \in (i - 1)..Len(text) : \A k \in i..j : text[k] \in S})

\* _BOUNDARY matches at i: a stop before blanks or the end of the buffer, a CJK
\* stop, a run of newlines.
BoundaryAt(text, i) ==
    \/ text[i] = Stop /\ (i = Len(text) \/ text[i + 1] \in Blank)
    \/ text[i] \in {CjkStop, Newline}

Boundaries(text) == {i \in DOMAIN text : BoundaryAt(text, i)}

\* Where the segment ends, and where the match ends.
SegmentEnd(text, i) == IF text[i] = Newline THEN i - 1 ELSE i

MatchEnd(text, i) ==
    CASE text[i] = Stop -> RunEnd(text, i + 1, Blank)
      [] text[i] = CjkStop -> i
      [] OTHER -> RunEnd(text, i, {Newline})

\* The number of characters _safe_cut keeps.
SafeCut(text) ==
    LET spaces == {i \in 1..(MaxSegmentChars + 1) : i \in DOMAIN text /\ text[i] = Space}
    IN  IF spaces /= {} /\ Max(spaces) - 1 >= MaxSegmentChars \div 2
        THEN Max(spaces) - 1
        ELSE MaxSegmentChars

\* A candidate with a text becomes a segment; the rest stays in the buffer.
Emit(cut, candidate, rest) ==
    [segments |-> IF candidate = <<>> THEN cut.segments ELSE Append(cut.segments, candidate),
     buffer |-> rest]

\* One round of push's loop: a sentence, or a segment of the largest length, leaves the buffer.
CutSentence(cut, i) ==
    Emit(cut, Strip(SubSeq(cut.buffer, 1, SegmentEnd(cut.buffer, i))),
         SubSeq(cut.buffer, MatchEnd(cut.buffer, i) + 1, Len(cut.buffer)))

CutLength(cut, length) ==
    Emit(cut, Strip(SubSeq(cut.buffer, 1, length)),
         StripLeft(SubSeq(cut.buffer, length + 1, Len(cut.buffer))))

CutOnce(cut) ==
    IF Boundaries(cut.buffer) /= {} THEN CutSentence(cut, Min(Boundaries(cut.buffer)))
    ELSE IF Len(cut.buffer) >= MaxSegmentChars THEN CutLength(cut, SafeCut(cut.buffer))
    ELSE cut

\* The loop of push. Every round takes a character at least, so it ends within Len(text).
Cut(text) ==
    LET cut[n \in 0..Len(text)] ==
            IF n = 0 THEN [segments |-> <<>>, buffer |-> text] ELSE CutOnce(cut[n - 1])
    IN  cut[Len(text)]

Push(buffer, delta) == Cut(buffer \o delta)

\* What finish() emits.
Flush(buffer) == IF Strip(buffer) = <<>> THEN <<>> ELSE <<Strip(buffer)>>

-----------------------------------------------------------------------------
\* Visible characters, in order: what a listener can tell apart.
Visible(text) ==
    LET visible[n \in 0..Len(text)] ==
            IF n = 0 THEN <<>>
            ELSE IF text[n] \in Blank THEN visible[n - 1] ELSE Append(visible[n - 1], text[n])
    IN  visible[Len(text)]

\* The visible characters of the segments, one segment after the other.
Spoken(made) ==
    LET spoken[n \in 0..Len(made)] ==
            IF n = 0 THEN <<>> ELSE spoken[n - 1] \o Visible(made[n])
    IN  spoken[Len(made)]

\* What cutting a text must do whatever the text: keep its visible characters in order,
\* make no blank segment (UtteranceSegment refuses one) and leave a rest with nothing to
\* emit, shorter than the largest segment.
CutsFaithfully(text, made, buffer) ==
    /\ Spoken(made) \o Visible(buffer) = Visible(text)
    /\ \A i \in DOMAIN made : made[i] = Strip(made[i]) /\ made[i] /= <<>>
    /\ Boundaries(buffer) = {}
    /\ Len(buffer) < MaxSegmentChars
=============================================================================
