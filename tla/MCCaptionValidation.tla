------------------------- MODULE MCCaptionValidation -------------------------
(***************************************************************************)
(* Instances of CaptionValidation.  A text is the set of words in it, of   *)
(* which "A" is "a" in upper case; a word is three bits wide.              *)
(***************************************************************************)
EXTENDS CaptionValidation

MCText == SUBSET {"a", "A", "b"}
MCBlank == {}
MCLower(text) == {IF w = "A" THEN "a" ELSE w : w \in text}
MCEqualFold(a, b) == MCLower(a) = MCLower(b)
MCWithin(a, b) == a \subseteq b
MCMin == -4

Lists(S, n) == UNION {[1..k -> S] : k \in 0..n}

Short == [min |-> 1, max |-> 2]
Long  == [min |-> 2, max |-> 3]
TwoRanges == {Short, Long}

\* Three cues anywhere in time, at the ends of the range too.
TimedCues ==
    [sequence : 1..3, in : {-4, 0, 1, 2, 3}, out : {-4, 1, 2, 3},
     source : {{"a"}}, translated : {{"b"}}, speaker : {{}}]
TimedLists == Lists(TimedCues, 3)

\* Two cues with any texts.
WordedCues ==
    [sequence : 1..2, in : {0}, out : {1},
     source : {{"A"}, {"b"}}, translated : {{}, {"a"}, {"A", "b"}}, speaker : {{}}]
WordedLists == Lists(WordedCues, 2)
SomeTerms ==
    [source : {{"a"}, {"A"}, {"b"}}, required : {{}, {"a"}, {"A"}, {"A", "b"}},
     forbidden : {{}, {{"a"}}, {{"b"}, {}}, {{"A"}, {"b"}}}, caseSensitive : BOOLEAN]

\* Pairs of revisions: no cue or one, two numbered ones, or three in order.
EditedCues(n) ==
    {[sequence |-> n, in |-> t[1], out |-> t[2], source |-> {"a"},
      translated |-> said[1], speaker |-> said[2]] :
        t \in {<<0, 1>>, <<1, 2>>, <<0, 3>>},
        said \in {<<{}, {}>>, <<{"a"}, {}>>, <<{"b"}, {}>>, <<{"a"}, {"b"}>>}}
LastCue == [sequence |-> 3, in |-> 2, out |-> 3, source |-> {"a"},
            translated |-> {"a"}, speaker |-> {}]
EditedLists ==
    Lists(EditedCues(1) \cup EditedCues(2), 1)
    \cup (EditedCues(1) \X EditedCues(2))
    \cup {<<c, d, LastCue>> : c \in {e \in EditedCues(1) : e.speaker = {}},
                             d \in {e \in EditedCues(2) : e.speaker = {}}}
EditTerms ==
    {[source |-> {"A"}, required |-> {"a"}, forbidden |-> {{"b"}},
      caseSensitive |-> FALSE]}

\* Single revisions of timed cues without a glossary and of worded cues with any
\* one; and pairs of edited revisions, with at most the one term above, before or
\* between them.
InEdits(glossary) == \A k \in DOMAIN glossary : k = 1 /\ glossary[k] \in EditTerms
MCLists(range, glossary, submitted) ==
    (IF submitted = <<>> /\ glossary = <<>> THEN TimedLists ELSE {})
    \cup (IF submitted = <<>> /\ range = Short THEN WordedLists ELSE {})
    \cup (IF /\ range = Short /\ InEdits(glossary)
             /\ \A r \in DOMAIN submitted : submitted[r].cues \in EditedLists
          THEN EditedLists ELSE {})
MCTerms(submitted) ==
    IF submitted = <<>> THEN SomeTerms \cup EditTerms
    ELSE IF Len(submitted) = 1 /\ submitted[1].cues \in EditedLists
         THEN EditTerms ELSE {}
\* The rules change before and after timed cues are submitted; the properties of
\* pairs compare runs under any two ranges.
MCRanges(submitted) ==
    IF \A r \in DOMAIN submitted : submitted[r].cues \in TimedLists
    THEN TwoRanges ELSE {}

=============================================================================
