------------------------ MODULE MCDialoguePipeline ------------------------
(* DialoguePipeline on short texts. The deltas of the state machine give one *)
(* to three segments, with sentences that end with a delta, inside one and   *)
(* across two; every other text of up to MaxText characters is cut once,     *)
(* before the run.                                                           *)
EXTENDS DialoguePipeline

MCDeltas == {<<Letter>>, <<Stop, Space, Letter>>}

\* Bound: characters of a text cut on its own, one longer than a full segment.
MaxText == 5

\* push on every text up to the bound, and the rest flushed by finish.
ASSUME ShortTextsCutFaithfully ==
    \A text \in SeqOf(Chars, MaxText) :
        LET cut == Push(<<>>, text)
        IN  /\ CutsFaithfully(text, cut.segments, cut.buffer)
            /\ Visible(FlattenSeq(cut.segments \o Flush(cut.buffer))) = Visible(text)

=============================================================================
