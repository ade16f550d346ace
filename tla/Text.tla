-------------------------------- MODULE Text --------------------------------
(***************************************************************************)
(* The parts of package strings that the configuration relies on.  A text  *)
(* is a sequence of characters; a character is a separator, a space or a   *)
(* name that stands for a run of others, as the code looks at no more.     *)
(***************************************************************************)
EXTENDS Sequences, Integers

LOCAL INSTANCE SequencesExt

Separator == "/"
Space == " "

\* strings.TrimRight(s, c)
TrimRight(s, c) == SubSeq(s, 1, SelectLastInSeq(s, LAMBDA x : x # c))

\* strings.TrimSpace(s)
TrimSpace(s) ==
    LET first == SelectInSeq(s, LAMBDA x : x # Space)
    IN  IF first = 0 THEN <<>> ELSE TrimRight(SubSeq(s, first, Len(s)), Space)

\* strings.HasPrefix(s, p), strings.HasSuffix(s, p)
StartsWith(s, p) == IsPrefix(p, s)
EndsWith(s, p) == IsSuffix(p, s)

\* The text before and after the first c, with c in neither: strings.Cut(s, c).
Cut(s, c) ==
    LET at == SelectInSeq(s, LAMBDA x : x = c)
    IN  [found  |-> at # 0,
         before |-> IF at = 0 THEN s ELSE SubSeq(s, 1, at - 1),
         after  |-> IF at = 0 THEN <<>> ELSE SubSeq(s, at + 1, Len(s))]

\* A path that begins with a separator, as the code makes every one do.
Rooted(s) == IF StartsWith(s, <<Separator>>) THEN s ELSE <<Separator>> \o s

=============================================================================
