------------------------ MODULE MCRelatedOccurrences ------------------------
(* A small instance of Collectors and RelatedOccurrences for TLC. *)
EXTENDS RelatedOccurrences

CONSTANTS sonar, sonarCi,      \* collectors
          k1, k2,              \* note kinds
          git, fork, image     \* uris

\* The collector ids "sonar" and "sonar-ci".
MCCollector == {sonar, sonarCi}
MCPrefixedBy == (sonar :> {sonar, sonarCi}) @@ (sonarCi :> {sonarCi})
MCKind == {k1, k2}

\* Two builds of one image, from a repository and from a fork of it, a scan of the
\* repository, and a build of the image that came without a provenance.
MCUri == {git, fork, image}
Scan(u) == [uri |-> u, note |-> <<sonar, k1>>, builds |-> {}, provenance |-> TRUE]
Build(u) == [uri |-> u, note |-> <<sonar, k2>>, builds |-> {image}, provenance |-> TRUE]
Bare(u) == [uri |-> u, note |-> <<sonar, k2>>, builds |-> {}, provenance |-> FALSE]
MCListOrder == <<Build(fork), Scan(git), Bare(image), Build(git)>>

\* The image page by page with notes, and its repository two at a time without.  One
\* build of the image is enough for a second page, and two fit the page of builds: the
\* filter may change while a token is in use.
MCWalks ==
  {[uri |-> image, size |-> 1, notes |-> TRUE], [uri |-> git, size |-> 2, notes |-> FALSE]}

Symmetry == Permutations(Handler)
=============================================================================
