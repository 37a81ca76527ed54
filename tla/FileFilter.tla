------------------------------ MODULE FileFilter ------------------------------
(***************************************************************************)
(* Which files count as test files (file_filter/).  A path and a glob      *)
(* pattern are sequences of segments, compared without regard to case; one *)
(* segment against another, "*" and "?" included, is the standard          *)
(* library's fnmatch.  A suffix or prefix pattern is a single segment, the *)
(* star it is given when it is compiled included.                          *)
(***************************************************************************)
EXTENDS Listing

CONSTANTS
    FilterConfig,   \* [language -> set of patterns by kind], the shipped file_filter
    DefaultFilter,  \* the shipped patterns of languages without their own
    Fnmatch         \* the pairs <<pattern segment, name>> that match

Globstar == "**"

(* Segment by segment; a globstar takes any number of them, none included. *)
MatchSegments(path, pattern) ==
    LET M[at \in (1 .. Len(path) + 1) \X (1 .. Len(pattern) + 1)] ==
            LET i == at[1]
                j == at[2]
            IN IF j > Len(pattern) THEN i > Len(path)
               ELSE IF i > Len(path)
               THEN \A k \in j .. Len(pattern) : pattern[k] = Globstar
               ELSE IF pattern[j] = Globstar THEN M[<<i, j + 1>>] \/ M[<<i + 1, j>>]
               ELSE <<pattern[j], path[i]>> \in Fnmatch /\ M[<<i + 1, j + 1>>]
    IN M[<<1, 1>>]

(* A leading globstar is taken off, and the rest tried on every end of the *)
(* path; nothing is left of a pattern that is but a globstar.              *)
MatchGlobstarPath(path, pattern) ==
    LET remaining == IF Len(pattern) = 1 THEN <<"">> ELSE Tail(pattern)
    IN \E n \in 1 .. Len(path) : MatchSegments(SubSeq(path, n, Len(path)), remaining)

MatchPath(path, pattern) ==
    IF pattern[1] = Globstar THEN MatchGlobstarPath(path, pattern)
    ELSE MatchSegments(path, pattern)

MatchFilename(name, pattern) == <<pattern, name>> \in Fnmatch

IsEmpty(set) == set.directory = {} /\ set.suffix = {} /\ set.prefix = {}

(* The language's own patterns if it has some, else the defaults: never    *)
(* both.                                                                   *)
GetFilter(language) ==
    IF language \in DOMAIN FilterConfig THEN FilterConfig[language] ELSE DefaultFilter

PatternSetFor(language) ==
    IF IsEmpty(GetFilter(language)) THEN DefaultFilter ELSE GetFilter(language)

(* Include patterns first: what they match is no test file. *)
IsTest(language, file) ==
    LET path == <<"">> \o file
        set == PatternSetFor(language)
    IN /\ \A p \in set.include : ~ MatchPath(path, p)
       /\ \/ \E p \in set.directory : MatchPath(path, p)
          \/ \E p \in set.suffix \cup set.prefix : MatchFilename(file[Len(file)], p)

FilterByUri(items, includeTests, language) ==
    IF includeTests THEN items
    ELSE Picked(items, {n \in 1 .. Len(items) : ~ IsTest(language, items[n].file)})
=============================================================================
