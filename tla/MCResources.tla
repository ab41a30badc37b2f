---------------------------- MODULE MCResources ----------------------------
(* Small instances of Resources for TLC. *)
EXTENDS Resources, TLC

CONSTANTS image, library, repo,            \* resources
          image1, library1, ambiguous, unparsable,  \* uris
          latest, tagged

MCResource == {image, library, repo}
MCUri == {image1, library1, ambiguous, unparsable}

\* "git://repo@sha256:1" is a version of a git repository and of an image.
MCResourcesOf == (image1 :> {image}) @@ (library1 :> {library})
                 @@ (ambiguous :> {image, repo}) @@ (unparsable :> {})

Scan(u) == [resource |-> u, artifacts |-> <<>>, provenance |-> TRUE]
Build(u, artifact, names) ==
  [resource |-> u, artifacts |-> artifact :> names, provenance |-> TRUE]
Bare(u) == [resource |-> u, artifacts |-> <<>>, provenance |-> FALSE]

\* Scans and builds of one image, with and without names; a build of a library that
\* is never scanned itself; a build that names its artifact twice, and one that came
\* without a provenance.
MCBatches ==
  {<<Scan(image1)>>,
   <<Build(ambiguous, image1, latest), Build(ambiguous, image1, NoNames)>>,
   <<Scan(image1), Build(image1, library1, tagged)>>,
   <<Build(image1, unparsable, latest)>>, <<Scan(unparsable)>>, <<Bare(image1)>>}

Symmetry == Permutations(Handler)
=============================================================================
