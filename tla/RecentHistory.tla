---------------------------- MODULE RecentHistory ----------------------------
(* RecentConversationHistoryCompiler (application/conversation_history.py):  *)
(* which stored messages a turn's prompt shows, and how much of each. A text *)
(* is its number of characters after strip(); the rendered JSON costs        *)
(* Envelope characters once and Header for each message.                     *)
EXTENDS Naturals, Sequences

CONSTANTS MaxMessages, MaxChars, MaxMessageChars,    \* RecentConversationHistoryPolicy
          Envelope, Header

ASSUME HistoryAssumption ==
    /\ MaxMessages \in Nat /\ MaxChars \in Nat /\ MaxMessageChars \in Nat \ {0}
    /\ Envelope \in Nat /\ Header \in Nat

\* fetch_limit, below its cap of 1000
FetchLimit == 2 * MaxMessages

\* list_recent_before returns the newest messages before a cursor, oldest first.
Newest(messages, n) ==
    LET skipped == IF Len(messages) > n THEN Len(messages) - n ELSE 0
    IN  SubSeq(messages, 1 + skipped, Len(messages))

\* len(_render(shown))
RenderedSize(shown) ==
    LET size[n \in 0..Len(shown)] ==
            IF n = 0 THEN Envelope ELSE size[n - 1] + Header + shown[n].chars
    IN  size[Len(shown)]

\* A message of an older generation that has a text, in the length the policy shows.
Eligible(message, beforeGeneration) ==
    message.generation < beforeGeneration /\ message.chars > 0

Shortened(message) ==
    [sequence |-> message.sequence,
     chars |-> IF message.chars > MaxMessageChars THEN MaxMessageChars ELSE message.chars,
     truncated |-> message.chars > MaxMessageChars]

EligibleMessages(messages, beforeGeneration) ==
    LET kept[n \in 0..Len(messages)] ==
            IF n = 0 THEN <<>>
            ELSE IF Eligible(messages[n], beforeGeneration)
            THEN Append(kept[n - 1], Shortened(messages[n]))
            ELSE kept[n - 1]
    IN  kept[Len(messages)]

\* _fit_message: the whole message, or the longest part the binary search finds to fit.
Fit(message, newer) ==
    LET free == MaxChars - (RenderedSize(newer) + Header)
    IN  IF RenderedSize(newer) + Header + message.chars <= MaxChars THEN <<message>>
        ELSE IF RenderedSize(newer) + Header < MaxChars
        THEN <<[message EXCEPT !.chars = free, !.truncated = TRUE]>>
        ELSE <<>>

\* From the newest back, and a message that does not fit leaves room for older ones.
Select(candidates) ==
    LET selected[n \in 0..Len(candidates)] ==
            IF n = 0 THEN <<>>
            ELSE Fit(candidates[Len(candidates) + 1 - n], selected[n - 1]) \o selected[n - 1]
    IN  selected[Len(candidates)]

\* compile
CompileHistory(messages, beforeGeneration) ==
    Select(Newest(EligibleMessages(messages, beforeGeneration), MaxMessages))
=============================================================================
