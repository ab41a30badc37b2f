------------------------- MODULE RelatedOccurrences -------------------------
(***************************************************************************)
(* ListVersionedResourceOccurrences (server/server.go and                  *)
(* pkg/grafeas/extensions.go) beside RPCs that create notes and            *)
(* occurrences.                                                            *)
(*                                                                         *)
(* A client lists the occurrences of a resource version page by page.      *)
(* For each page the server lists the builds of the version, then the      *)
(* occurrences of everything these builds link, then the notes of those.   *)
(* The filter of the second call is made anew for each page, and the token *)
(* that came from a call with another filter is passed on with it.         *)
(*                                                                         *)
(* What a token means is decided in Grafeas: "a particular spot in the     *)
(* list" (grafeas.proto), the list being in some order that lasts.         *)
(*                                                                         *)
(* The occurrences are tracked while a client walks through them; what is  *)
(* there when it begins is any set.  One client walks at a time: listings  *)
(* change nothing.  Left out: an empty uri, refused before any call.       *)
(***************************************************************************)
EXTENDS Collectors, FiniteSetsExt, SequencesExt

CONSTANTS
  Uri,
  ListOrder,     \* the occurrences there can be, in the order of Grafeas' lists
  MaxPageSize,   \* constants.MaxPageSize
  Walks          \* the listings clients ask for: uri, page size and whether with notes

Occurrence == Range(ListOrder)

\* builds are the built artifacts of a build, and empty for other kinds.  provenance is
\* FALSE for a build that came without one, and so without artifacts.
ASSUME OccurrenceAssumption ==
  /\ ListOrder \in Seq([uri : Uri, note : NoteId, builds : SUBSET Uri, provenance : BOOLEAN])
  /\ IsInjective(ListOrder)
ASSUME PageAssumption == MaxPageSize \in Nat \ {0}
ASSUME WalkAssumption ==
  /\ Walks \subseteq [uri : Uri, size : Nat \ {0}, notes : BOOLEAN]
  /\ Missing \notin Walks

VARIABLES
  occurrences,   \* the occurrences in Grafeas
  walk,          \* what the client asks for
  spot,          \* the token it has
  resourceUris,  \* the uris in the filter of the listing
  page,          \* the occurrences of the page, and the token after it
  owed           \* history: what was related when the walk began and is not listed yet

walkVars == <<occurrences, walk, spot, resourceUris, page, owed>>
listingVars == <<vars, walkVars>>

NoPage == [found |-> {}, next |-> 0]

WalkInit ==
  /\ Init
  /\ occurrences = {} /\ walk = Missing /\ spot = 0
  /\ resourceUris = {} /\ page = NoPage /\ owed = {}

WalkLabel == {"betweenPages", "listBuilds", "listOccurrences", "listRelatedNotes", "walked"}

Step(h, from, to) == Goto(h, from, to) /\ UNCHANGED <<notes, request, toCreate, named, reply, listed>>

----------------------------------------------------------------------------
\* Two uris belong together if one build links them.
Linked(o) == {o.uri} \cup o.builds
IsBuild(o) == o.builds # {} \/ ~o.provenance

Related(uri) ==
  {o \in occurrences :
     o.uri = uri \/ \E b \in occurrences : IsBuild(b) /\ {uri, o.uri} \subseteq Linked(b)}

StartWalk(h) ==
  /\ walk = Missing
  /\ Step(h, "idle", "betweenPages")
  /\ \E w \in Walks, stored \in SUBSET Occurrence :
       /\ occurrences' = stored
       /\ walk' = w
       /\ owed' = Related(w.uri)'
  /\ spot' = 0 /\ resourceUris' = {} /\ page' = NoPage

ListVersionedResourceOccurrences(h) ==
  Step(h, "betweenPages", "listBuilds") /\ UNCHANGED walkVars

\* The builds of the version, of which Grafeas lists a page.
Builds(uri) == {o \in occurrences : IsBuild(o) /\ uri \in Linked(o)}
BuildPages == kSubset(Min({MaxPageSize, Cardinality(Builds(walk.uri))}), Builds(walk.uri))

\* Mutant: the builds go into the filter of the first page only, and the token is used
\* with another filter that finds less.
LaterPagesPlain(h) ==
  /\ Step(h, "listBuilds", "listOccurrences")
  /\ \E builds \in BuildPages :
       /\ \A b \in builds : b.provenance
       /\ resourceUris' = {walk.uri} \cup
                          (IF spot = 0 THEN UNION {Linked(b) : b \in builds} ELSE {})
  /\ UNCHANGED <<occurrences, walk, spot, page, owed>>

ListBuilds(h) ==
  /\ Step(h, "listBuilds", "listOccurrences")
  /\ \E builds \in BuildPages :
       /\ \A b \in builds : b.provenance
       /\ resourceUris' = {walk.uri} \cup UNION {Linked(b) : b \in builds}
  /\ UNCHANGED <<occurrences, walk, spot, page, owed>>

\* The artifacts of a build without a provenance: a nil pointer, and Internal is answered.
BuildsPanic(h) ==
  /\ Step(h, "listBuilds", "betweenPages")
  /\ \E builds \in BuildPages : \E b \in builds : ~b.provenance
  /\ UNCHANGED walkVars

\* What the filter finds, and its page at a spot.
Matches(uris) == {o \in occurrences : o.uri \in uris}

UpTo(o) ==
  {p \in Occurrence : \E i, j \in DOMAIN ListOrder :
                        i <= j /\ ListOrder[i] = p /\ ListOrder[j] = o}

\* The place of o among those found.
Rank(found, o) == Cardinality(found \cap UpTo(o))

PageAt(found) ==
  LET end == Min({spot + walk.size, Cardinality(found)})
  IN  [found |-> {o \in found : Rank(found, o) \in spot + 1..end},
       next  |-> IF end < Cardinality(found) THEN end ELSE 0]

\* The page is answered: it goes on at the next spot, or the walk is over.  What the
\* page has, with its notes if they are asked for, is not owed any more.
Deliver(h, label, answered, related) ==
  /\ Step(h, label, IF answered.next = 0 THEN "walked" ELSE "betweenPages")
  /\ spot' = answered.next
  /\ owed' = owed \ {o \in answered.found :
                       walk.notes /\ o.note \in notes => o.note \in related}
  /\ resourceUris' = {} /\ page' = NoPage
  /\ UNCHANGED <<occurrences, walk>>

\* Without notes to fetch, or occurrences to fetch them for, the answer leaves.
ListOccurrences(h) == pc[h] = "listOccurrences" /\ LET found == PageAt(Matches(resourceUris)) IN
  IF walk.notes /\ found.found # {}
  THEN /\ Step(h, "listOccurrences", "listRelatedNotes")
       /\ page' = found
       /\ UNCHANGED <<occurrences, walk, spot, resourceUris, owed>>
  ELSE Deliver(h, "listOccurrences", found, {})

\* fetchRelatedNotes
FetchRelatedNotes(h) == pc[h] = "listRelatedNotes" /\
  LET matching == {o.note : o \in page.found} \cap notes IN
  \E related \in kSubset(Min({MaxPageSize, Cardinality(matching)}), matching) :
    Deliver(h, "listRelatedNotes", page, related)

\* A call fails, the RPC is cut off or its answer is lost: the client has the token
\* that it had.
PageFails(h) ==
  /\ CallFaults
  /\ \E label \in {"listBuilds", "listOccurrences", "listRelatedNotes"} :
       Step(h, label, "betweenPages")
  /\ resourceUris' = {} /\ page' = NoPage
  /\ UNCHANGED <<occurrences, walk, spot, owed>>

\* The client is done, or gives up.
EndWalk(h) ==
  /\ \E label \in {"betweenPages", "walked"} : Step(h, label, "idle")
  /\ occurrences' = {} /\ walk' = Missing /\ spot' = 0 /\ owed' = {}
  /\ UNCHANGED <<resourceUris, page>>

----------------------------------------------------------------------------
\* BatchCreateOccurrences of another client.
CreateOccurrence ==
  /\ walk # Missing
  /\ \E o \in Occurrence \ occurrences : occurrences' = occurrences \cup {o}
  /\ UNCHANGED <<vars, walk, spot, resourceUris, page, owed>>

\* UpdateOccurrence, with the name that its id gives, changes an occurrence into any
\* other.  Nothing is promised of a list that is changed while it is walked through.
UpdateOccurrence ==
  /\ walk # Missing
  /\ \E old \in occurrences, new \in Occurrence \ occurrences :
       occurrences' = (occurrences \ {old}) \cup {new}
  /\ owed' = {}
  /\ UNCHANGED <<vars, walk, spot, resourceUris, page>>

WalkNext ==
  \/ \E h \in Handler :
       \/ pc[h] \notin WalkLabel /\ Serve(h) /\ UNCHANGED walkVars
       \/ StartWalk(h) \/ ListVersionedResourceOccurrences(h)
       \/ ListBuilds(h) \/ BuildsPanic(h) \/ ListOccurrences(h) \/ FetchRelatedNotes(h) \/ PageFails(h) \/ EndWalk(h)
  \/ CreateNote /\ UNCHANGED walkVars
  \/ CreateOccurrence \/ UpdateOccurrence

WalkSpec == WalkInit /\ [][WalkNext]_listingVars

----------------------------------------------------------------------------
\* A client that has walked through all pages has seen every occurrence that was related
\* to its resource version when it began, each with its note if that exists, although
\* the filter is made anew for every page, pages fail and are asked for again, and
\* occurrences, builds and notes are created meanwhile: unless the builds, or the notes
\* of a page, are more than MaxPageSize.
PagesLoseNothing ==
  (\E h \in Handler : pc[h] = "walked") =>
    \/ owed = {}
    \/ Cardinality(Builds(walk.uri)) > MaxPageSize
    \/ walk.notes /\ walk.size > MaxPageSize
=============================================================================
