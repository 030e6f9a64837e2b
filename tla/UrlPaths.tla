------------------------------ MODULE UrlPaths ------------------------------
(***************************************************************************)
(* How buildUrl (src/http/url-builder.ts) cleans a path.  A path is a      *)
(* sequence of tokens: "/", ":", "NUL" and names without any of them.      *)
(***************************************************************************)
EXTENDS Integers, Sequences, SequencesExt

\* What a replacement leaves of a path: the tokens at some of its positions.
ChosenUpTo(path, positions) ==
  LET chosen[n \in Nat] ==
        IF n = 0 THEN << >>
        ELSE IF n \in positions THEN Append(chosen[n - 1], path[n]) ELSE chosen[n - 1]
  IN chosen

Chosen(path, positions) == ChosenUpTo(path, positions)[Len(path)]

StripNulls(path) == Chosen(path, {i \in DOMAIN path : path[i] # "NUL"})

\* A slash behind a slash goes, unless the two are those of a "://": the
\* look-behind lets no match begin right behind a colon.
Redundant(path, i) ==
  /\ i > 1
  /\ path[i] = "/"
  /\ path[i - 1] = "/"
  /\ ~ (i > 2 /\ path[i - 2] = ":")

CollapseSlashes(path) == Chosen(path, {i \in DOMAIN path : ~ Redundant(path, i)})

StripTrailingSlash(path) ==
  IF Len(path) > 1 /\ Last(path) = "/" THEN Front(path) ELSE path

\* Mutant: null bytes are stripped last.
CleanPathNullsLast(path) == StripNulls(StripTrailingSlash(CollapseSlashes(path)))

CleanPath(path) == StripTrailingSlash(CollapseSlashes(StripNulls(path)))
=============================================================================
