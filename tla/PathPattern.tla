---------------------------- MODULE PathPattern ----------------------------
(***************************************************************************)
(* Route patterns and mounts of the HTTP adapter (path-matching.ts): which *)
(* of them cold start accepts, which request paths they match, and what    *)
(* their parameters capture.  A path is the sequence of its segments.      *)
(***************************************************************************)
EXTENDS Naturals, Sequences, FiniteSetsExt

CONSTANTS Texts,      \* the texts of path segments
          LowerCase   \* their lower-case forms

ASSUME PathAssumption == LowerCase \in [Texts -> Texts]

Segments == [kind : {"literal", "param", "wildcard", "regex"}, text : STRING]

Literal(text) == [kind |-> "literal", text |-> text]
Param(name) == [kind |-> "param", text |-> name]
Wildcard == [kind |-> "wildcard", text |-> "*"]
Regex(text) == [kind |-> "regex", text |-> text]   \* syntax outside the subset

(* compilePathPattern throws for the others. *)
Supported(pattern) ==
  /\ \A i \in DOMAIN pattern : pattern[i].kind # "regex"
  /\ \A i \in DOMAIN pattern : pattern[i].kind = "wildcard" => i = Len(pattern)

HasWildcard(pattern) == \E i \in DOMAIN pattern : pattern[i].kind = "wildcard"

SegmentMatches(segment, text) ==
  \/ segment.kind \in {"param", "wildcard"}
  \/ segment.kind = "literal" /\ LowerCase[segment.text] = LowerCase[text]

(* A route: all of the path, or all up to the final wildcard. *)
Matches(pattern, path) ==
  LET fixed == Len(pattern) - (IF HasWildcard(pattern) THEN 1 ELSE 0) IN
  /\ Len(path) >= fixed
  /\ \A i \in 1..fixed : SegmentMatches(pattern[i], path[i])
  /\ HasWildcard(pattern) \/ Len(path) = fixed

ParamNames(pattern) == {pattern[i].text : i \in {j \in DOMAIN pattern : pattern[j].kind = "param"}}

Captured(pattern, path) ==
  [name \in ParamNames(pattern) |->
     path[Max({i \in DOMAIN pattern : pattern[i] = Param(name)})]]

(* A mount: a prefix of the path, or with the "$" marker the path itself. *)
MatchesPrefix(pattern, exactMount, path) ==
  IF exactMount
    THEN /\ Len(path) = Len(pattern)
         /\ \A i \in DOMAIN path : pattern[i].kind = "literal" /\ SegmentMatches(pattern[i], path[i])
    ELSE /\ Len(path) >= Len(pattern)
         /\ \A i \in DOMAIN pattern : SegmentMatches(pattern[i], path[i])

-----------------------------------------------------------------------------
(* What a pattern means, independently of the matcher: the paths one gets by
   writing a text for each parameter and any texts for the wildcard. *)
Fixed(pattern) == IF HasWildcard(pattern) THEN SubSeq(pattern, 1, Len(pattern) - 1) ELSE pattern

Filled(segments, texts) ==
  [i \in DOMAIN segments |-> IF segments[i].kind = "param" THEN texts[i] ELSE segments[i].text]

SameText(p, q) == Len(p) = Len(q) /\ \A i \in DOMAIN p : LowerCase[p[i]] = LowerCase[q[i]]

Means(pattern, path) ==
  \E texts \in [DOMAIN Fixed(pattern) -> Texts], n \in 0..Len(path) :
    /\ SameText(Filled(Fixed(pattern), texts), SubSeq(path, 1, n))
    /\ n = Len(path) \/ HasWildcard(pattern)
=============================================================================
