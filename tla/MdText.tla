------------------------------- MODULE MdText -------------------------------
(* Text as the Markdown parser of specgen sees it (tools/specgen/md4c.c):   *)
(* sequences of characters, and what its scanning loops find in them.       *)
EXTENDS Integers, Sequences, FiniteSets, SequencesExt

Newline == "n"
Tab == "t"
Backtick == "tick"
Blank == {" ", Tab}

(* Behind every text there is the end of its line.                          *)
At(s, k) == IF k <= Len(s) THEN s[k] ELSE Newline
AtEnd(s, k) == k > Len(s)

(* The first place from off on that is not in the set. *)
Skip(s, off, set) ==
  CHOOSE k \in off..(Len(s) + 1) :
    (\A i \in off..(k - 1) : s[i] \in set) /\ (k <= Len(s) => s[k] \notin set)

(* The end of s[beg..end - 1] without what is in the set behind it. *)
TrimEnd(s, beg, end, set) ==
  CHOOSE k \in beg..end :
    (\A i \in k..(end - 1) : s[i] \in set) /\ (k > beg => s[k - 1] \notin set)

StartsAt(what, s, off) == \A i \in DOMAIN what : At(s, off + i - 1) = what[i]
Occurs(what, s, off) == \E k \in off..Len(s) : StartsAt(what, s, k)
=============================================================================
