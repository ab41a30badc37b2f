-------------------------- MODULE CollectorProofs --------------------------
(***************************************************************************)
(* Proofs about Collectors and RelatedOccurrences, for any number of       *)
(* registrations in flight, of notes, collectors and occurrences, and any  *)
(* page sizes.                                                             *)
(***************************************************************************)
EXTENDS RelatedOccurrences, FiniteSetTheorems, SequenceTheorems, TLAPS

Label == {"idle", "listNotes", "createNotes", "done"}

USE DEF Label, WalkLabel

\* What a handler relies on between its calls.  Before the batch is sent, the notes of the
\* request that are not in it were listed, and Grafeas removes none.
HandlerShape(h) ==
  /\ pc[h] \in {"idle", "listNotes"} \cup WalkLabel => named[h] = {}
  /\ reply[h] # Missing => pc[h] = "done"
  /\ pc[h] \in {"listNotes", "createNotes"} =>
       /\ request[h] \in Request /\ request[h].id \in Collector
       /\ toCreate[h] # {}
       /\ named[h] \cup toCreate[h] \subseteq NoteIds(request[h])
  /\ pc[h] = "listNotes" => toCreate[h] = NoteIds(request[h])
  /\ pc[h] = "createNotes" =>
       /\ NoteIds(request[h]) \ toCreate[h] \subseteq notes \cap named[h]
       /\ \/ toCreate[h] \cap listed[h] = {}
          \/ Cardinality(listed[h] \cap (PrefixedBy[request[h].id] \X Kind)) > PageSize
  /\ reply[h] = "OK" => NoteIds(request[h]) \subseteq notes \cap named[h]

ShapeInv ==
  /\ notes \subseteq NoteId
  /\ pc \in [Handler -> Label \cup WalkLabel]
  /\ request \in [Handler -> Request \cup {Missing}]
  /\ toCreate \in [Handler -> SUBSET NoteId]
  /\ named \in [Handler -> SUBSET NoteId]
  /\ reply \in [Handler -> {"OK", "InvalidArgument", "Internal", Missing}]
  /\ listed \in [Handler -> SUBSET NoteId]
  /\ \A h \in Handler : HandlerShape(h)

----------------------------------------------------------------------------
\* A message that names a collector and some notes names note ids.
LEMMA MessageNotes ==
  ASSUME NEW message \in Request
  PROVE  /\ message.id \in Collector => NoteIds(message) \subseteq NoteId
         /\ message.notes # <<>> => NoteIds(message) # {}
         /\ message.notes = <<>> => NoteIds(message) = {}
<1>1. PICK n \in 0..MaxNotes : message.notes \in [1..n -> Kind]
  BY DEF Request
<1>2. message.id \in Collector => NoteIds(message) \subseteq NoteId
  BY <1>1 DEF NoteIds, NoteId
<1>3. ASSUME message.notes # <<>> PROVE NoteIds(message) # {}
  <2>1. message.notes \in Seq(Kind) /\ Len(message.notes) = n
    BY <1>1, BoundAssumption
  <2>2. n # 0
    BY <2>1, <1>3, EmptySeq
  <2>3. 1 \in DOMAIN message.notes
    BY <1>1, <2>2, BoundAssumption
  <2>4. <<message.id, message.notes[1]>> \in NoteIds(message)
    BY <2>3 DEF NoteIds
  <2> QED
    BY <2>4
<1>4. message.notes = <<>> => NoteIds(message) = {}
  BY DEF NoteIds
<1> QED
  BY <1>2, <1>3, <1>4

\* A page is part of what was found, and all of it unless there is more than a page.
LEMMA PageOfFound ==
  ASSUME NEW found \in SUBSET NoteId, NEW first \in Pages(found)
  PROVE  /\ first \subseteq found
         /\ first = found \/ Cardinality(found) > PageSize
<1>1. IsFiniteSet(found)
  BY FS_Product, FS_Subset, FiniteAssumption DEF NoteId
<1>2. Cardinality(found) \in Nat
  BY <1>1, FS_CardinalityType
<1> QED
  BY <1>2, BoundAssumption DEF Pages

\* Nothing is in flight.
LEMMA ShapeInit == Init => ShapeInv
  BY MissingAssumption DEF Init, ShapeInv, HandlerShape

\* The other handlers keep what they rely on while notes are only added.
LEMMA OthersKeepShape ==
  ASSUME ShapeInv, NEW h \in Handler, NEW g \in Handler, g # h,
         pc'[g] = pc[g], request'[g] = request[g], toCreate'[g] = toCreate[g],
         named'[g] = named[g], reply'[g] = reply[g], listed'[g] = listed[g],
         notes \subseteq notes'
  PROVE  HandlerShape(g)'
  BY DEF ShapeInv, HandlerShape

\* The step of a handler.
LEMMA ServeStep ==
  ASSUME ShapeInv, NEW h \in Handler, Serve(h)
  PROVE  ShapeInv'
<1>0. HandlerShape(h)
  BY DEF ShapeInv
<1> DEFINE Others ==
      \A g \in Handler \ {h} :
        /\ pc'[g] = pc[g] /\ request'[g] = request[g] /\ toCreate'[g] = toCreate[g]
        /\ named'[g] = named[g] /\ reply'[g] = reply[g] /\ listed'[g] = listed[g]
    Types ==
      /\ notes' \subseteq NoteId /\ notes \subseteq notes'
      /\ pc' \in [Handler -> Label \cup WalkLabel]
      /\ request' \in [Handler -> Request \cup {Missing}]
      /\ toCreate' \in [Handler -> SUBSET NoteId]
      /\ named' \in [Handler -> SUBSET NoteId]
      /\ reply' \in [Handler -> {"OK", "InvalidArgument", "Internal", Missing}]
      /\ listed' \in [Handler -> SUBSET NoteId]
<1>1. ASSUME Others, Types, HandlerShape(h)' PROVE ShapeInv'
  <2>1. \A g \in Handler \ {h} : HandlerShape(g)'
    BY <1>1, OthersKeepShape
  <2> QED
    BY <1>1, <2>1 DEF ShapeInv
<1>2. CASE AnswerAtOnce(h)
  <2>1. PICK message \in Request :
          /\ message.id = NoId \/ message.notes = <<>> \/ SameTypeTwice(message)
          /\ request' = [request EXCEPT ![h] = message]
          /\ Answer(h, "idle", IF message.id # NoId /\ message.notes = <<>>
                               THEN "OK" ELSE "InvalidArgument")
          /\ UNCHANGED <<notes, toCreate, named, listed>>
    BY <1>2 DEF AnswerAtOnce
  <2>2. Others /\ Types
    BY <2>1 DEF ShapeInv, Answer, Goto
  <2>3. HandlerShape(h)'
    <3>1. pc'[h] = "done" /\ request'[h] = message
          /\ reply'[h] = (IF message.id # NoId /\ message.notes = <<>>
                          THEN "OK" ELSE "InvalidArgument")
      BY <2>1 DEF ShapeInv, Answer, Goto
    <3> QED
      BY <3>1, MessageNotes DEF HandlerShape
  <2> QED
    BY <1>1, <2>2, <2>3
<1>3. CASE RegisterCollector(h)
  <2>1. PICK message \in Request :
          /\ message.id # NoId /\ message.notes # <<>>
          /\ Goto(h, "idle", "listNotes")
          /\ request' = [request EXCEPT ![h] = message]
          /\ toCreate' = [toCreate EXCEPT ![h] = NoteIds(message)]
          /\ UNCHANGED <<notes, named, reply, listed>>
    BY <1>3 DEF RegisterCollector
  <2>2. message.id \in Collector /\ NoteIds(message) \subseteq NoteId /\ NoteIds(message) # {}
    BY <2>1, MessageNotes DEF Request
  <2>3. Others /\ Types
    BY <2>1, <2>2 DEF ShapeInv, Goto
  <2>4. HandlerShape(h)'
    <3>1. /\ pc[h] = "idle" /\ pc'[h] = "listNotes" /\ request'[h] = message
          /\ toCreate'[h] = NoteIds(message)
      BY <2>1 DEF ShapeInv, Goto
    <3> QED
      BY <1>0, <2>1, <2>2, <3>1, MissingAssumption DEF HandlerShape, ShapeInv
  <2> QED
    BY <1>1, <2>3, <2>4
<1>4. CASE ListNotes(h)
  <2>1. PICK first \in Pages(Matching(h)) :
          /\ pc[h] = "listNotes"
          /\ IF toCreate[h] \subseteq first THEN Answer(h, "listNotes", "OK")
             ELSE Goto(h, "listNotes", "createNotes") /\ UNCHANGED reply
          /\ toCreate' = [toCreate EXCEPT ![h] = @ \ first]
          /\ named' = [named EXCEPT ![h] = NoteIds(request[h]) \cap first]
          /\ listed' = [listed EXCEPT ![h] = notes]
          /\ UNCHANGED <<notes, request>>
    BY <1>4 DEF ListNotes
  <2>2. /\ first \subseteq notes
        /\ first = Matching(h) \/ Cardinality(Matching(h)) > PageSize
    BY <2>1, PageOfFound DEF Matching, ShapeInv
  <2>3. Others /\ Types
    BY <2>1, <2>2 DEF ShapeInv, Answer, Goto
  <2>4. /\ toCreate[h] = NoteIds(request[h]) /\ toCreate'[h] = NoteIds(request[h]) \ first
        /\ named'[h] = NoteIds(request[h]) \cap first
        /\ listed'[h] = notes /\ request'[h] = request[h] /\ notes' = notes
        /\ request[h] \in Request /\ request[h].id \in Collector
        /\ reply[h] = Missing
    BY <1>0, <2>1 DEF HandlerShape, ShapeInv
  <2>5. \/ toCreate'[h] \cap listed'[h] = {}
        \/ Cardinality(listed'[h] \cap (PrefixedBy[request[h].id] \X Kind)) > PageSize
    <3>1. NoteIds(request[h]) \subseteq PrefixedBy[request[h].id] \X Kind
      BY <2>4, PrefixAssumption DEF NoteIds, Request
    <3> QED
      BY <2>2, <2>4, <3>1 DEF Matching
  <2>6. CASE toCreate[h] \subseteq first
    <3>1. pc'[h] = "done" /\ reply'[h] = "OK"
      BY <2>1, <2>6 DEF ShapeInv, Answer, Goto
    <3> QED
      BY <1>1, <2>2, <2>3, <2>4, <2>6, <3>1 DEF HandlerShape
  <2>7. CASE ~(toCreate[h] \subseteq first)
    <3>1. pc'[h] = "createNotes" /\ reply'[h] = Missing
      BY <2>1, <2>4, <2>7 DEF ShapeInv, Goto
    <3>2. toCreate'[h] # {}
      BY <2>4, <2>7
    <3>3. HandlerShape(h)'
      BY <2>2, <2>4, <2>5, <3>1, <3>2, MissingAssumption DEF HandlerShape
    <3> QED
      BY <1>1, <2>3, <3>3
  <2> QED
    BY <2>6, <2>7
<1>5. CASE BatchCreateNotes(h)
  <2>1. Others /\ Types
    BY <1>5 DEF BatchCreateNotes, ShapeInv, Answer, Goto
  <2>2. HandlerShape(h)'
    <3>1. /\ pc[h] = "createNotes" /\ pc'[h] = "done" /\ request'[h] = request[h]
          /\ notes' = notes \cup toCreate[h]
          /\ named'[h] = named[h] \cup toCreate[h]
      BY <1>5 DEF BatchCreateNotes, ShapeInv, Answer, Goto
    <3> QED
      BY <1>0, <3>1 DEF HandlerShape
  <2> QED
    BY <1>1, <2>1, <2>2
<1>6. ASSUME NEW from, Answer(h, from, "Internal"), NEW created \in SUBSET toCreate[h],
             notes' = notes \cup created, UNCHANGED <<request, toCreate, named, listed>>
      PROVE  ShapeInv'
  <2>1. Others /\ Types
    BY <1>6 DEF ShapeInv, Answer, Goto
  <2>2. pc'[h] = "done" /\ reply'[h] = "Internal"
    BY <1>6 DEF ShapeInv, Answer, Goto
  <2>3. HandlerShape(h)'
    BY <2>2 DEF HandlerShape
  <2> QED
    BY <1>1, <2>1, <2>3
<1>7. CASE NoteConflict(h)
  BY <1>6, <1>7 DEF NoteConflict
<1>8. CASE CallFails(h)
  <2>1. CASE UNCHANGED notes
    <3>1. notes' = notes \cup {} /\ {} \in SUBSET toCreate[h]
      BY <2>1
    <3> QED
      BY <1>6, <1>8, <3>1 DEF CallFails
  <2> QED
    BY <1>6, <1>8, <2>1 DEF CallFails
<1>9. CASE Finish(h)
  <2>1. Others /\ Types
    BY <1>9 DEF Finish, ShapeInv
  <2>2. pc'[h] = "idle" /\ named'[h] = {} /\ reply'[h] = Missing
    BY <1>9 DEF Finish, ShapeInv
  <2>3. HandlerShape(h)'
    BY <2>2, MissingAssumption DEF HandlerShape
  <2> QED
    BY <1>1, <2>1, <2>3
<1> QED
  BY <1>2, <1>3, <1>4, <1>5, <1>7, <1>8, <1>9 DEF Serve

\* Every step keeps ShapeInv; CreateNote only adds a note.
LEMMA ShapeStep == ShapeInv /\ [Next]_vars => ShapeInv'
<1> SUFFICES ASSUME ShapeInv, [Next]_vars PROVE ShapeInv'
  OBVIOUS
<1>1. CASE UNCHANGED vars
  BY <1>1 DEF vars, ShapeInv, HandlerShape
<1>2. CASE CreateNote
  BY <1>2 DEF CreateNote, ShapeInv, HandlerShape
<1> QED
  BY <1>1, <1>2, ServeStep DEF Next

\* Without a client that walks the handlers are at the labels of the registrations.
LabelInv == pc \in [Handler -> Label]

LEMMA LabelStep == LabelInv /\ [Next]_vars => LabelInv'
<1> SUFFICES ASSUME pc \in [Handler -> Label], [Next]_vars PROVE pc' \in [Handler -> Label]
  BY DEF LabelInv
<1>1. CASE UNCHANGED vars
  BY <1>1 DEF vars
<1>2. CASE CreateNote
  BY <1>2 DEF CreateNote
<1>3. ASSUME NEW h \in Handler, Serve(h) PROVE pc' \in [Handler -> Label]
  BY <1>3 DEF Serve, AnswerAtOnce, RegisterCollector, ListNotes, BatchCreateNotes, NoteConflict,
              CallFails, Finish, Answer, Goto
<1> QED
  BY <1>1, <1>2, <1>3 DEF Next

\* A step of a client that walks leaves the notes and the registrations alone.
LEMMA WalkerStep ==
  ASSUME ShapeInv, NEW h \in Handler,
         NEW from \in {"idle"} \cup WalkLabel, NEW to \in {"idle"} \cup WalkLabel, Step(h, from, to)
  PROVE  ShapeInv'
<1>1. /\ pc[h] = from /\ pc' = [pc EXCEPT ![h] = to]
      /\ UNCHANGED <<notes, request, toCreate, named, reply, listed>>
  BY DEF Step, Goto
<1>2. pc' \in [Handler -> Label \cup WalkLabel] /\ pc'[h] = to
  BY <1>1 DEF ShapeInv
<1>3. HandlerShape(h)'
  BY <1>1, <1>2 DEF ShapeInv, HandlerShape
<1>4. \A g \in Handler \ {h} : HandlerShape(g)'
  BY <1>1, OthersKeepShape DEF ShapeInv
<1> QED
  BY <1>1, <1>2, <1>3, <1>4 DEF ShapeInv

\* Every step of registrations and listings together keeps ShapeInv.
LEMMA ListingShapeStep == ShapeInv /\ [WalkNext]_listingVars => ShapeInv'
<1> SUFFICES ASSUME ShapeInv, [WalkNext]_listingVars PROVE ShapeInv'
  OBVIOUS
<1>1. CASE UNCHANGED vars
  BY <1>1, ShapeStep
<1>2. CASE CreateNote
  BY <1>2, ShapeStep DEF Next
<1>3. ASSUME NEW h \in Handler, Serve(h) PROVE ShapeInv'
  BY <1>3, ServeStep
<1>4. ASSUME NEW h \in Handler,
             \/ StartWalk(h) \/ ListVersionedResourceOccurrences(h)
             \/ ListBuilds(h) \/ BuildsPanic(h) \/ ListOccurrences(h)
             \/ FetchRelatedNotes(h) \/ PageFails(h) \/ EndWalk(h)
      PROVE  ShapeInv'
  <2>1. \E from, to \in {"idle"} \cup WalkLabel : Step(h, from, to)
    BY <1>4 DEF StartWalk, ListVersionedResourceOccurrences, ListBuilds, BuildsPanic,
                ListOccurrences, FetchRelatedNotes, PageFails, EndWalk, Deliver
  <2> QED
    BY <2>1, WalkerStep
<1> QED
  BY <1>1, <1>2, <1>3, <1>4 DEF WalkNext, CreateOccurrence, UpdateOccurrence, listingVars

----------------------------------------------------------------------------
(***************************************************************************)
(* Places in a list that Grafeas keeps in order.                           *)
(***************************************************************************)

\* There are finitely many occurrences, as many at most as the list has places.
LEMMA OccurrenceFinite == IsFiniteSet(Occurrence)
<1>1. ListOrder \in [1..Len(ListOrder) -> Occurrence] /\ Len(ListOrder) \in Nat
  BY OccurrenceAssumption, LenProperties DEF Occurrence, Range
<1>2. ListOrder \in Surjection(1..Len(ListOrder), Occurrence)
  BY <1>1 DEF Occurrence, Range, Surjection
<1> QED
  BY <1>1, <1>2, FS_Interval, FS_Surjection

\* A place is a number up to that of those found, and what more is found only moves it on.
LEMMA RankMonotone ==
  ASSUME NEW T \in SUBSET Occurrence, NEW S \in SUBSET T, NEW o
  PROVE  /\ Rank(T, o) \in 0..Cardinality(T)
         /\ Rank(S, o) <= Rank(T, o)
<1>1. IsFiniteSet(T)
  BY OccurrenceFinite, FS_Subset
<1>2. IsFiniteSet(T \cap UpTo(o)) /\ Cardinality(T \cap UpTo(o)) <= Cardinality(T)
  BY <1>1, FS_Intersection
<1>3. IsFiniteSet(S \cap UpTo(o)) /\ Cardinality(S \cap UpTo(o)) <= Cardinality(T \cap UpTo(o))
  <2>1. S \cap UpTo(o) \in SUBSET (T \cap UpTo(o))
    OBVIOUS
  <2> QED
    BY <1>2, <2>1, FS_Subset
<1>4. Cardinality(T \cap UpTo(o)) \in Nat /\ Cardinality(T) \in Nat
  BY <1>1, <1>2, FS_CardinalityType
<1> QED
  BY <1>2, <1>3, <1>4 DEF Rank

\* The place of an occurrence in a list is a number.
LEMMA RankType ==
  ASSUME NEW T \in SUBSET Occurrence, NEW o
  PROVE  Rank(T, o) \in Int
<1>1. T \in SUBSET T /\ Rank(T, o) \in 0..Cardinality(T)
  BY RankMonotone
<1> QED
  BY <1>1

\* No two of those found have the same place: the earlier one comes up to the later one,
\* and not the other way round.
LEMMA RankInjective ==
  ASSUME NEW S \in SUBSET Occurrence, NEW o \in S, NEW p \in S, Rank(S, o) = Rank(S, p)
  PROVE  o = p
<1>1. /\ Len(ListOrder) \in Nat /\ DOMAIN ListOrder = 1..Len(ListOrder)
      /\ \A i, j \in DOMAIN ListOrder : ListOrder[i] = ListOrder[j] => i = j
  BY OccurrenceAssumption, LenProperties DEF IsInjective
<1>2. PICK i \in DOMAIN ListOrder, j \in DOMAIN ListOrder : ListOrder[i] = o /\ ListOrder[j] = p
  BY DEF Occurrence, Range
<1>3. ASSUME NEW x \in S, NEW y \in S, NEW m \in DOMAIN ListOrder, NEW n \in DOMAIN ListOrder,
             ListOrder[m] = x, ListOrder[n] = y, m < n
      PROVE  Rank(S, x) < Rank(S, y)
  <2>1. UpTo(x) \subseteq UpTo(y)
    <3> SUFFICES ASSUME NEW z \in UpTo(x) PROVE z \in UpTo(y)
      OBVIOUS
    <3>1. PICK k \in DOMAIN ListOrder, l \in DOMAIN ListOrder :
            k <= l /\ ListOrder[k] = z /\ ListOrder[l] = x
      BY DEF UpTo
    <3>2. k <= n
      BY <1>1, <1>3, <3>1
    <3> QED
      BY <1>3, <3>1, <3>2 DEF UpTo
  <2>2. y \notin UpTo(x)
    BY <1>1, <1>3 DEF UpTo
  <2>3. y \in UpTo(y)
    BY <1>1, <1>3 DEF UpTo
  <2>4. S \cap UpTo(x) \in SUBSET (S \cap UpTo(y)) /\ S \cap UpTo(x) # S \cap UpTo(y)
    BY <2>1, <2>2, <2>3
  <2>5. IsFiniteSet(S) /\ IsFiniteSet(S \cap UpTo(y))
    BY OccurrenceFinite, FS_Subset, FS_Intersection
  <2>6. /\ IsFiniteSet(S \cap UpTo(x))
        /\ Cardinality(S \cap UpTo(x)) <= Cardinality(S \cap UpTo(y))
        /\ Cardinality(S \cap UpTo(x)) # Cardinality(S \cap UpTo(y))
    BY <2>4, <2>5, FS_Subset
  <2>7. Cardinality(S \cap UpTo(x)) \in Nat /\ Cardinality(S \cap UpTo(y)) \in Nat
    BY <2>5, <2>6, FS_CardinalityType
  <2> QED
    BY <2>6, <2>7 DEF Rank
<1>4. ~(i < j) /\ ~(j < i)
  <2>1. Rank(S, o) \in Int
    BY RankMonotone
  <2> QED
    BY <1>2, <1>3, <2>1
<1> QED
  BY <1>1, <1>2, <1>4

\* The smaller of two numbers.
LEMMA MinOfTwo ==
  ASSUME NEW m \in Int, NEW n \in Int
  PROVE  Min({m, n}) = IF m <= n THEN m ELSE n
<1>1. \E x \in {m, n} : \A y \in {m, n} : x <= y
  OBVIOUS
<1>2. Min({m, n}) \in {m, n} /\ \A y \in {m, n} : Min({m, n}) <= y
  BY <1>1 DEF Min
<1> QED
  BY <1>2

\* A page at a spot has at most as many as were asked for, and whatever is found beyond
\* the spot is on it or beyond the next one.
LEMMA PageOfSpot ==
  ASSUME NEW found \in SUBSET Occurrence, spot \in Nat, walk \in Walks
  PROVE  /\ PageAt(found).found \subseteq found
         /\ PageAt(found).next \in Nat
         /\ Cardinality(PageAt(found).found) <= walk.size
         /\ \A o \in found : Rank(found, o) > spot =>
              \/ o \in PageAt(found).found
              \/ PageAt(found).next # 0 /\ Rank(found, o) > PageAt(found).next
<1> DEFINE end == Min({spot + walk.size, Cardinality(found)})
           onPage == {o \in found : Rank(found, o) \in spot + 1..end}
<1>1. walk.size \in Nat \ {0}
  BY WalkAssumption
<1>2. IsFiniteSet(found) /\ Cardinality(found) \in Nat
  BY OccurrenceFinite, FS_Subset, FS_CardinalityType
<1>3. end = IF spot + walk.size <= Cardinality(found) THEN spot + walk.size ELSE Cardinality(found)
  BY <1>1, <1>2, MinOfTwo
<1>4. \A o : Rank(found, o) \in 0..Cardinality(found)
  BY RankMonotone
<1> HIDE DEF end, onPage
<1>5. PageAt(found) = [found |-> onPage, next |-> IF end < Cardinality(found) THEN end ELSE 0]
  BY DEF PageAt, end, onPage
<1>6. Cardinality(onPage) <= walk.size
  <2> DEFINE place == [o \in onPage |-> Rank(found, o)]
  <2>1. end \in Nat
    BY <1>1, <1>2, <1>3
  <2>2. place \in [onPage -> spot + 1..end]
    BY DEF onPage
  <2>3. \A o, p \in onPage : place[o] = place[p] => o = p
    BY RankInjective DEF onPage
  <2>4. place \in Injection(onPage, spot + 1..end)
    BY <2>2, <2>3 DEF Injection, IsInjective
  <2>5. /\ IsFiniteSet(spot + 1..end)
        /\ Cardinality(spot + 1..end) = IF spot + 1 > end THEN 0 ELSE end - (spot + 1) + 1
    BY <2>1, FS_Interval
  <2>6. IsFiniteSet(onPage) /\ Cardinality(onPage) <= Cardinality(spot + 1..end)
    BY <2>4, <2>5, FS_Injection
  <2>7. Cardinality(onPage) \in Nat
    BY <2>6, FS_CardinalityType
  <2> QED
    BY <1>1, <1>2, <1>3, <2>5, <2>6, <2>7
<1>7. onPage \subseteq found
  BY DEF onPage
<1>8. ASSUME NEW o \in found, Rank(found, o) > spot
      PROVE  o \in onPage \/ (end < Cardinality(found) /\ end # 0 /\ Rank(found, o) > end)
  <2>1. CASE Rank(found, o) <= end
    BY <1>1, <1>2, <1>3, <1>4, <1>8, <2>1 DEF onPage
  <2>2. CASE Rank(found, o) > end
    BY <1>1, <1>2, <1>3, <1>4, <1>8, <2>2
  <2> QED
    BY <1>1, <1>2, <1>3, <1>4, <2>1, <2>2
<1> QED
  BY <1>1, <1>2, <1>3, <1>5, <1>6, <1>7, <1>8

\* The uris of a filter that has all builds.
LinkedUris(uri) == {uri} \cup UNION {Linked(b) : b \in Builds(uri)}

\* What is related to a uri is what that filter finds.
LEMMA RelatedMatches == \A uri : Related(uri) = Matches(LinkedUris(uri))
  BY DEF Related, Matches, Builds, LinkedUris

----------------------------------------------------------------------------
(***************************************************************************)
(* The walk.                                                               *)
(***************************************************************************)

\* No list of Grafeas was cut off at MaxPageSize.
Uncut ==
  /\ Cardinality(Builds(walk.uri)) <= MaxPageSize
  /\ walk.notes => walk.size <= MaxPageSize

\* Where the occurrences are that the walk owes, by the label of the walker: beyond the spot
\* of its token; beyond it in the list of the filter it has, which is part of what is related
\* by now; or on the page it holds or beyond that.
OwedBeyond(h) ==
  /\ pc[h] \in WalkLabel \ {"walked"} => \A o \in owed : Rank(Related(walk.uri), o) > spot
  /\ pc[h] = "listOccurrences" =>
       /\ owed \subseteq Matches(resourceUris)
       /\ resourceUris \subseteq LinkedUris(walk.uri)
       /\ \A o \in owed : Rank(Matches(resourceUris), o) > spot
  /\ pc[h] = "listRelatedNotes" =>
       /\ Cardinality(page.found) <= walk.size
       /\ \A o \in owed : \/ o \in page.found
                          \/ page.next # 0 /\ Rank(Related(walk.uri), o) > page.next
  /\ pc[h] = "walked" => owed = {}

\* An update of an occurrence ends what is owed, and a list that is cut off stays so, as
\* builds are only created while something is owed.
WalkInv ==
  /\ ShapeInv
  /\ occurrences \subseteq Occurrence
  /\ walk \in Walks \cup {Missing}
  /\ spot \in Nat
  /\ page \in [found : SUBSET Occurrence, next : Nat]
  /\ walk = Missing => \A h \in Handler : pc[h] \notin WalkLabel
  /\ \A g, h \in Handler : {pc[g], pc[h]} \subseteq WalkLabel => g = h
  /\ walk # Missing =>
       /\ owed \subseteq Related(walk.uri)
       /\ owed = {} \/ ~Uncut \/ \A h \in Handler : OwedBeyond(h)

\* Nobody walks.
LEMMA WalkInvInit == WalkInit => WalkInv
<1> SUFFICES ASSUME WalkInit PROVE WalkInv
  OBVIOUS
<1>1. ShapeInv
  BY ShapeInit DEF WalkInit
<1> QED
  BY <1>1 DEF WalkInit, Init, WalkInv, NoPage

\* What holds of the walker after a step of it that keeps what it walks through.
LEMMA WalkerKeeps ==
  ASSUME WalkInv, NEW h \in Handler, NEW from \in WalkLabel, NEW to \in WalkLabel, Step(h, from, to),
         UNCHANGED <<occurrences, walk>>, owed' \subseteq owed, spot' \in Nat,
         page' \in [found : SUBSET Occurrence, next : Nat],
         owed' # {} /\ Uncut /\ OwedBeyond(h) => OwedBeyond(h)'
  PROVE  WalkInv'
<1>1. /\ pc[h] = from /\ pc'[h] = to
      /\ \A g \in Handler \ {h} : pc'[g] = pc[g] /\ pc[g] \notin WalkLabel
  BY DEF Step, Goto, WalkInv, ShapeInv
<1>2. ShapeInv'
  BY WalkerStep DEF WalkInv
<1>3. walk # Missing
  BY <1>1 DEF WalkInv
<1>4. Uncut' = Uncut /\ Related(walk.uri)' = Related(walk.uri)
  BY DEF Uncut, Builds, Related
<1>5. owed' = {} \/ ~Uncut' \/ \A g \in Handler : OwedBeyond(g)'
  <2>1. \A g \in Handler \ {h} : OwedBeyond(g)'
    BY <1>1 DEF OwedBeyond
  <2>2. ASSUME owed' # {}, Uncut PROVE OwedBeyond(h)'
    BY <1>3, <2>2 DEF WalkInv
  <2> QED
    BY <1>4, <2>1, <2>2
<1>6. owed' \subseteq Related(walk.uri)'
  BY <1>3, <1>4 DEF WalkInv
<1>7. \A g, k \in Handler : {pc'[g], pc'[k]} \subseteq WalkLabel => g = k
  BY <1>1
<1> QED
  BY <1>2, <1>3, <1>5, <1>6, <1>7 DEF WalkInv

\* What holds after a step of others that changes nothing but labels outside the walk, and
\* notes.
LEMMA OthersKeepWalk ==
  ASSUME WalkInv, ShapeInv', UNCHANGED walkVars,
         \A g \in Handler : pc'[g] # pc[g] => {pc[g], pc'[g]} \cap WalkLabel = {}
  PROVE  WalkInv'
<1>1. /\ occurrences' = occurrences /\ walk' = walk /\ spot' = spot
      /\ resourceUris' = resourceUris /\ page' = page /\ owed' = owed
  BY DEF walkVars
<1>2. /\ Uncut' = Uncut /\ Related(walk.uri)' = Related(walk.uri)
      /\ Matches(resourceUris)' = Matches(resourceUris)
      /\ LinkedUris(walk.uri)' = LinkedUris(walk.uri)
  BY <1>1 DEF Uncut, Builds, Related, Matches, LinkedUris
<1>3. \A g \in Handler : pc'[g] \in WalkLabel => pc'[g] = pc[g]
  OBVIOUS
<1>4. \A g \in Handler : OwedBeyond(g) => OwedBeyond(g)'
  BY <1>1, <1>2, <1>3 DEF OwedBeyond
<1> QED
  BY <1>1, <1>2, <1>3, <1>4 DEF WalkInv

\* A call of a registration, with any answer.
LEMMA WalkAndServe ==
  ASSUME WalkInv, NEW h \in Handler, pc[h] \notin WalkLabel, Serve(h), UNCHANGED walkVars
  PROVE  WalkInv'
<1>1. ShapeInv'
  BY ServeStep DEF WalkInv
<1>2. /\ pc'[h] \in Label
      /\ \A g \in Handler \ {h} : pc'[g] = pc[g]
  BY DEF Serve, AnswerAtOnce, RegisterCollector, ListNotes, BatchCreateNotes, NoteConflict,
         CallFails, Finish, Answer, Goto, WalkInv, ShapeInv
<1>3. \A g \in Handler : pc'[g] # pc[g] => {pc[g], pc'[g]} \cap WalkLabel = {}
  BY <1>2
<1> QED
  BY <1>1, <1>3, OthersKeepWalk

\* What is found has a place from 1 on.
LEMMA RankPositive ==
  ASSUME NEW S \in SUBSET Occurrence, NEW o \in S
  PROVE  Rank(S, o) > 0
<1>1. /\ Len(ListOrder) \in Nat /\ DOMAIN ListOrder = 1..Len(ListOrder)
  BY OccurrenceAssumption, LenProperties
<1>2. o \in S \cap UpTo(o)
  BY <1>1 DEF UpTo, Occurrence, Range
<1>3. IsFiniteSet(S \cap UpTo(o))
  BY OccurrenceFinite, FS_Subset, FS_Intersection
<1> QED
  BY <1>2, <1>3, FS_EmptySet, FS_CardinalityType DEF Rank

\* A walk begins with everything owed beyond spot 0, and nobody else walks.
LEMMA WalkStarts ==
  ASSUME WalkInv, NEW h \in Handler, StartWalk(h)
  PROVE  WalkInv'
<1>1. PICK w \in Walks, stored \in SUBSET Occurrence :
        occurrences' = stored /\ walk' = w /\ owed' = Related(w.uri)'
  BY DEF StartWalk
<1>2. /\ walk = Missing /\ Step(h, "idle", "betweenPages")
      /\ spot' = 0 /\ page' = NoPage
  BY DEF StartWalk
<1>3. ShapeInv'
  BY <1>2, WalkerStep DEF WalkInv
<1>4. /\ pc'[h] = "betweenPages"
      /\ \A g \in Handler \ {h} : pc'[g] \notin WalkLabel
  BY <1>2 DEF Step, Goto, WalkInv, ShapeInv
<1>5. owed' = Related(walk.uri)' /\ Related(walk.uri)' \subseteq Occurrence
  BY <1>1 DEF Related
<1>6. \A o \in owed' : Rank(Related(walk.uri)', o) > spot'
  BY <1>2, <1>5, RankPositive
<1>7. \A g \in Handler : OwedBeyond(g)'
  BY <1>4, <1>6 DEF OwedBeyond
<1> QED
  BY <1>1, <1>2, <1>3, <1>4, <1>5, <1>7, WalkAssumption DEF WalkInv, NoPage

\* The filter has all builds of the version, if they are on a page.
LEMMA BuildsListed ==
  ASSUME WalkInv, NEW h \in Handler, ListBuilds(h)
  PROVE  WalkInv'
<1>1. PICK builds \in BuildPages :
        resourceUris' = {walk.uri} \cup UNION {Linked(b) : b \in builds}
  BY DEF ListBuilds
<1>2. Step(h, "listBuilds", "listOccurrences") /\ UNCHANGED <<occurrences, walk, spot, page, owed>>
  BY DEF ListBuilds
<1>3. pc[h] = "listBuilds" /\ pc'[h] = "listOccurrences" /\ walk # Missing
  BY <1>2 DEF Step, Goto, WalkInv, ShapeInv
<1>4. ASSUME Uncut, OwedBeyond(h) PROVE OwedBeyond(h)'
  <2>1. IsFiniteSet(Builds(walk.uri)) /\ Cardinality(Builds(walk.uri)) \in Nat
    BY OccurrenceFinite, FS_Subset, FS_CardinalityType DEF Builds, WalkInv
  <2>2. builds = Builds(walk.uri)
    <3>1. Min({MaxPageSize, Cardinality(Builds(walk.uri))}) = Cardinality(Builds(walk.uri))
      BY <1>4, <2>1, MinOfTwo, PageAssumption DEF Uncut
    <3>2. builds \in SUBSET Builds(walk.uri) /\ Cardinality(builds) = Cardinality(Builds(walk.uri))
      BY <1>1, <3>1 DEF BuildPages, kSubset
    <3> QED
      BY <2>1, <3>2, FS_Subset
  <2>3. resourceUris' = LinkedUris(walk.uri) /\ Matches(resourceUris)' = Related(walk.uri)
    BY <1>1, <1>2, <2>2, RelatedMatches DEF Matches, LinkedUris
  <2>4. Related(walk.uri)' = Related(walk.uri) /\ LinkedUris(walk.uri)' = LinkedUris(walk.uri)
    BY <1>2 DEF Related, LinkedUris, Builds
  <2> QED
    BY <1>2, <1>3, <1>4, <2>3, <2>4 DEF OwedBeyond, WalkInv
<1> QED
  BY <1>2, <1>4, WalkerKeeps DEF WalkInv

\* The answer leaves with a page: what is still owed is beyond the next spot, and nothing if
\* there is none.
LEMMA PageDelivered ==
  ASSUME WalkInv, NEW h \in Handler, NEW label \in {"listOccurrences", "listRelatedNotes"},
         NEW answered \in [found : SUBSET Occurrence, next : Nat], NEW related,
         Deliver(h, label, answered, related),
         Uncut /\ OwedBeyond(h) => \A o \in owed :
           \/ o \in answered.found /\ (walk.notes /\ o.note \in notes => o.note \in related)
           \/ answered.next # 0 /\ Rank(Related(walk.uri), o) > answered.next
  PROVE  WalkInv'
<1> DEFINE to == IF answered.next = 0 THEN "walked" ELSE "betweenPages"
<1>1. /\ Step(h, label, to) /\ UNCHANGED <<occurrences, walk>>
      /\ spot' = answered.next /\ page' = NoPage
      /\ owed' = owed \ {o \in answered.found : walk.notes /\ o.note \in notes => o.note \in related}
  BY DEF Deliver
<1>2. pc'[h] = to
  BY <1>1 DEF Step, Goto, WalkInv, ShapeInv
<1>3. Related(walk.uri)' = Related(walk.uri)
  BY <1>1 DEF Related
<1>4. ASSUME Uncut, OwedBeyond(h) PROVE OwedBeyond(h)'
  <2>1. \A o \in owed' : answered.next # 0 /\ Rank(Related(walk.uri), o) > answered.next
    BY <1>1, <1>4
  <2> QED
    BY <1>1, <1>2, <1>3, <2>1 DEF OwedBeyond
<1>5. page' \in [found : SUBSET Occurrence, next : Nat] /\ spot' \in Nat /\ owed' \subseteq owed
  BY <1>1 DEF NoPage
<1>6. label \in WalkLabel /\ to \in WalkLabel
  OBVIOUS
<1> QED
  BY <1>1, <1>4, <1>5, <1>6, WalkerKeeps

\* A page of what the filter finds is answered at once or kept for its notes.
LEMMA OccurrencesListed ==
  ASSUME WalkInv, NEW h \in Handler, ListOccurrences(h)
  PROVE  WalkInv'
<1> DEFINE found == PageAt(Matches(resourceUris))
<1>1. pc[h] = "listOccurrences" /\ walk \in Walks /\ spot \in Nat
  BY DEF ListOccurrences, WalkInv
<1>2. Matches(resourceUris) \in SUBSET Occurrence
  BY DEF Matches, WalkInv
<1>3. /\ found.found \in SUBSET Occurrence /\ found.next \in Nat
      /\ Cardinality(found.found) <= walk.size
      /\ \A o \in Matches(resourceUris) : Rank(Matches(resourceUris), o) > spot =>
           \/ o \in found.found
           \/ found.next # 0 /\ Rank(Matches(resourceUris), o) > found.next
  BY <1>1, <1>2, PageOfSpot
<1>4. found \in [found : SUBSET Occurrence, next : Nat]
  BY <1>3 DEF PageAt
<1> HIDE DEF found
<1>5. ASSUME OwedBeyond(h), NEW o \in owed
      PROVE  o \in found.found \/ (found.next # 0 /\ Rank(Related(walk.uri), o) > found.next)
  <2>1. /\ o \in Matches(resourceUris) /\ Rank(Matches(resourceUris), o) > spot
        /\ resourceUris \subseteq LinkedUris(walk.uri)
    BY <1>1, <1>5 DEF OwedBeyond
  <2>2. Matches(resourceUris) \in SUBSET Related(walk.uri) /\ Related(walk.uri) \in SUBSET Occurrence
    BY <2>1, RelatedMatches DEF Matches, WalkInv
  <2>3. /\ Rank(Matches(resourceUris), o) <= Rank(Related(walk.uri), o)
        /\ Rank(Related(walk.uri), o) \in Int
    BY <2>2, RankMonotone
  <2>4. Rank(Matches(resourceUris), o) \in Int
    BY <1>2, RankMonotone
  <2> QED
    BY <1>3, <2>1, <2>3, <2>4
<1>6. CASE walk.notes /\ found.found # {}
  <2>1. /\ Step(h, "listOccurrences", "listRelatedNotes") /\ page' = found
        /\ UNCHANGED <<occurrences, walk, spot, resourceUris, owed>>
    BY <1>6 DEF ListOccurrences, found
  <2>2. pc'[h] = "listRelatedNotes" /\ Related(walk.uri)' = Related(walk.uri)
    BY <2>1 DEF Step, Goto, Related, WalkInv, ShapeInv
  <2>3. ASSUME OwedBeyond(h) PROVE OwedBeyond(h)'
    BY <1>1, <1>3, <1>5, <2>1, <2>2, <2>3 DEF OwedBeyond
  <2>4. /\ owed' \subseteq owed /\ spot' \in Nat
        /\ page' \in [found : SUBSET Occurrence, next : Nat]
        /\ UNCHANGED <<occurrences, walk>>
    BY <1>1, <1>4, <2>1
  <2> QED
    BY <2>1, <2>3, <2>4, WalkerKeeps
<1>7. CASE ~(walk.notes /\ found.found # {})
  <2>1. Deliver(h, "listOccurrences", found, {})
    BY <1>7 DEF ListOccurrences, found
  <2> QED
    BY <1>4, <1>5, <1>7, <2>1, PageDelivered
<1> QED
  BY <1>6, <1>7

\* All notes of the page are fetched, if it is no longer than a page of notes.
LEMMA NotesFetched ==
  ASSUME WalkInv, NEW h \in Handler, FetchRelatedNotes(h)
  PROVE  WalkInv'
<1> DEFINE matching == {o.note : o \in page.found} \cap notes
<1>1. PICK related \in kSubset(Min({MaxPageSize, Cardinality(matching)}), matching) :
        Deliver(h, "listRelatedNotes", page, related)
  BY DEF FetchRelatedNotes
<1>2. pc[h] = "listRelatedNotes" /\ walk \in Walks /\ page \in [found : SUBSET Occurrence, next : Nat]
  BY DEF FetchRelatedNotes, WalkInv
<1>3. ASSUME Uncut, OwedBeyond(h), walk.notes PROVE related = matching
  <2> DEFINE noted == [o \in page.found |-> o.note]
             named_ == {o.note : o \in page.found}
  <2>1. IsFiniteSet(page.found)
    BY <1>2, OccurrenceFinite, FS_Subset
  <2>2. noted \in Surjection(page.found, named_)
    BY DEF Surjection
  <2>3. IsFiniteSet(named_) /\ Cardinality(named_) <= Cardinality(page.found)
    BY <2>1, <2>2, FS_Surjection
  <2>4. IsFiniteSet(matching) /\ Cardinality(matching) <= Cardinality(named_)
    BY <2>3, FS_Intersection
  <2>5. /\ Cardinality(page.found) <= walk.size /\ walk.size <= MaxPageSize
        /\ walk.size \in Nat
    BY <1>2, <1>3, WalkAssumption DEF OwedBeyond, Uncut
  <2>6. /\ Cardinality(matching) \in Nat /\ Cardinality(named_) \in Nat
        /\ Cardinality(page.found) \in Nat
    BY <2>1, <2>3, <2>4, FS_CardinalityType
  <2> HIDE DEF matching, named_, noted
  <2>7. Min({MaxPageSize, Cardinality(matching)}) = Cardinality(matching)
    BY <2>3, <2>4, <2>5, <2>6, MinOfTwo, PageAssumption
  <2>8. related \in SUBSET matching /\ Cardinality(related) = Cardinality(matching)
    BY <1>1, <2>7 DEF kSubset, matching
  <2> QED
    BY <2>4, <2>8, FS_Subset
<1>4. ASSUME Uncut, OwedBeyond(h), NEW o \in owed
      PROVE  \/ o \in page.found /\ (walk.notes /\ o.note \in notes => o.note \in related)
             \/ page.next # 0 /\ Rank(Related(walk.uri), o) > page.next
  BY <1>2, <1>3, <1>4 DEF OwedBeyond
<1> QED
  BY <1>1, <1>2, <1>4, PageDelivered

\* A build without a provenance: the page is asked for again at the same spot.
LEMMA BuildsPanicked ==
  ASSUME WalkInv, NEW h \in Handler, BuildsPanic(h)
  PROVE  WalkInv'
<1>1. /\ Step(h, "listBuilds", "betweenPages")
      /\ UNCHANGED <<occurrences, walk, spot, page, owed>>
  BY DEF BuildsPanic, walkVars
<1>2. pc[h] = "listBuilds" /\ pc'[h] = "betweenPages" /\ Related(walk.uri)' = Related(walk.uri)
  BY <1>1 DEF Step, Goto, WalkInv, ShapeInv, Related
<1>3. OwedBeyond(h) => OwedBeyond(h)'
  BY <1>1, <1>2 DEF OwedBeyond
<1> QED
  BY <1>1, <1>3, WalkerKeeps DEF WalkInv

\* A page that fails is asked for again at the spot it was asked for.
LEMMA PageFailed ==
  ASSUME WalkInv, NEW h \in Handler, PageFails(h)
  PROVE  WalkInv'
<1>1. PICK label \in {"listBuilds", "listOccurrences", "listRelatedNotes"} :
        Step(h, label, "betweenPages")
  BY DEF PageFails
<1>2. /\ page' = NoPage /\ UNCHANGED <<occurrences, walk, spot, owed>>
      /\ pc[h] = label /\ pc'[h] = "betweenPages"
  BY <1>1 DEF PageFails, Step, Goto, WalkInv, ShapeInv
<1>3. Related(walk.uri)' = Related(walk.uri)
  BY <1>2 DEF Related
<1>4. OwedBeyond(h) => OwedBeyond(h)'
  BY <1>2, <1>3 DEF OwedBeyond
<1> QED
  BY <1>1, <1>2, <1>4, WalkerKeeps DEF WalkInv, NoPage

\* The walk is over.
LEMMA WalkEnds ==
  ASSUME WalkInv, NEW h \in Handler, EndWalk(h)
  PROVE  WalkInv'
<1>1. PICK label \in {"betweenPages", "walked"} : Step(h, label, "idle")
  BY DEF EndWalk
<1>2. occurrences' = {} /\ walk' = Missing /\ spot' = 0 /\ page' = page
  BY DEF EndWalk
<1>3. \A g \in Handler : pc'[g] \notin WalkLabel
  BY <1>1 DEF Step, Goto, WalkInv, ShapeInv
<1>4. ShapeInv'
  BY <1>1, WalkerStep DEF WalkInv
<1> QED
  BY <1>2, <1>3, <1>4 DEF WalkInv

\* What is created moves on what it is listed before, and never puts anything before a spot.
LEMMA OccurrenceCreated ==
  ASSUME WalkInv, CreateOccurrence
  PROVE  WalkInv'
<1>1. PICK new \in Occurrence : occurrences' = occurrences \cup {new}
  BY DEF CreateOccurrence
<1>2. /\ UNCHANGED <<vars, walk, spot, resourceUris, page, owed>> /\ walk # Missing
      /\ pc' = pc
  BY DEF CreateOccurrence, vars
<1>3. ShapeInv'
  BY <1>2, ShapeStep DEF WalkInv
<1>4. occurrences' \subseteq Occurrence /\ occurrences \subseteq occurrences'
  BY <1>1 DEF WalkInv
<1>5. /\ Builds(walk.uri) \subseteq Builds(walk.uri)' /\ Builds(walk.uri)' \subseteq Occurrence
      /\ LinkedUris(walk.uri) \subseteq LinkedUris(walk.uri)'
  BY <1>2, <1>4 DEF Builds, LinkedUris
<1>6. Related(walk.uri) \subseteq Related(walk.uri)' /\ Related(walk.uri)' \subseteq Occurrence
  BY <1>2, <1>4 DEF Related
<1>7. Matches(resourceUris) \subseteq Matches(resourceUris)' /\ Matches(resourceUris)' \subseteq Occurrence
  BY <1>2, <1>4 DEF Matches
<1>8. Uncut' => Uncut
  <2>1. IsFiniteSet(Builds(walk.uri)')
    BY <1>5, OccurrenceFinite, FS_Subset
  <2>2. /\ IsFiniteSet(Builds(walk.uri))
        /\ Cardinality(Builds(walk.uri)) <= Cardinality(Builds(walk.uri)')
    BY <1>5, <2>1, FS_Subset
  <2>3. Cardinality(Builds(walk.uri)) \in Nat /\ Cardinality(Builds(walk.uri)') \in Nat
    BY <2>1, <2>2, FS_CardinalityType
  <2> QED
    BY <1>2, <2>2, <2>3, PageAssumption DEF Uncut
<1>9. ASSUME NEW o
      PROVE  /\ Rank(Related(walk.uri), o) <= Rank(Related(walk.uri)', o)
             /\ Rank(Matches(resourceUris), o) <= Rank(Matches(resourceUris)', o)
             /\ {Rank(Related(walk.uri), o), Rank(Matches(resourceUris), o)} \subseteq Int
             /\ {Rank(Related(walk.uri)', o), Rank(Matches(resourceUris)', o)} \subseteq Int
  <2>1. Rank(Related(walk.uri), o) <= Rank(Related(walk.uri)', o) /\ Rank(Related(walk.uri)', o) \in Int
    BY <1>6, RankMonotone
  <2>2. Rank(Matches(resourceUris), o) <= Rank(Matches(resourceUris)', o) /\ Rank(Matches(resourceUris)', o) \in Int
    BY <1>7, RankMonotone
  <2>3. Related(walk.uri) \in SUBSET Occurrence /\ Matches(resourceUris) \in SUBSET Occurrence
    BY <1>6, <1>7
  <2>4. Rank(Related(walk.uri), o) \in Int /\ Rank(Matches(resourceUris), o) \in Int
    BY <2>3, RankType
  <2> QED
    BY <2>1, <2>2, <2>4
<1>10. ASSUME NEW g \in Handler, OwedBeyond(g) PROVE OwedBeyond(g)'
  <2>1. spot \in Nat /\ page.next \in Nat
    BY DEF WalkInv
  <2>2. \A o : Rank(Related(walk.uri), o) > spot => Rank(Related(walk.uri)', o) > spot
    BY <1>9, <2>1
  <2>3. \A o : Rank(Related(walk.uri), o) > page.next => Rank(Related(walk.uri)', o) > page.next
    BY <1>9, <2>1
  <2>4. \A o : Rank(Matches(resourceUris), o) > spot => Rank(Matches(resourceUris)', o) > spot
    BY <1>9, <2>1
  <2>5. pc[g] \in WalkLabel \ {"walked"} => \A o \in owed : Rank(Related(walk.uri)', o) > spot
    BY <1>10, <2>2 DEF OwedBeyond
  <2>6. pc[g] = "listOccurrences" =>
          /\ owed \subseteq Matches(resourceUris)' /\ resourceUris \subseteq LinkedUris(walk.uri)'
          /\ \A o \in owed : Rank(Matches(resourceUris)', o) > spot
    BY <1>5, <1>7, <1>10, <2>4 DEF OwedBeyond
  <2>7. pc[g] = "listRelatedNotes" =>
          /\ Cardinality(page.found) <= walk.size
          /\ \A o \in owed : \/ o \in page.found
                             \/ page.next # 0 /\ Rank(Related(walk.uri)', o) > page.next
    BY <1>10, <2>3 DEF OwedBeyond
  <2>8. pc[g] = "walked" => owed = {}
    BY <1>10 DEF OwedBeyond
  <2> QED
    BY <1>2, <2>5, <2>6, <2>7, <2>8 DEF OwedBeyond
<1>11. owed' \subseteq Related(walk.uri)'
  BY <1>2, <1>6 DEF WalkInv
<1>12. owed' = {} \/ ~Uncut' \/ \A g \in Handler : OwedBeyond(g)'
  BY <1>2, <1>8, <1>10 DEF WalkInv
<1> QED
  BY <1>2, <1>3, <1>4, <1>11, <1>12 DEF WalkInv

\* Every step of registrations and listings together keeps WalkInv.
LEMMA WalkInvStep == WalkInv /\ [WalkNext]_listingVars => WalkInv'
<1> SUFFICES ASSUME WalkInv, [WalkNext]_listingVars PROVE WalkInv'
  OBVIOUS
<1>1. ShapeInv'
  BY ListingShapeStep DEF WalkInv
<1>2. CASE UNCHANGED listingVars
  BY <1>1, <1>2, OthersKeepWalk DEF listingVars, vars
<1>3. CASE CreateNote /\ UNCHANGED walkVars
  BY <1>1, <1>3, OthersKeepWalk DEF CreateNote
<1>4. CASE CreateOccurrence
  BY <1>4, OccurrenceCreated
<1>5. CASE UpdateOccurrence
  <2>1. /\ owed' = {} /\ occurrences' \subseteq Occurrence
        /\ pc' = pc /\ walk' = walk /\ spot' = spot /\ page' = page
    BY <1>5 DEF UpdateOccurrence, WalkInv, vars
  <2> QED
    BY <1>1, <2>1 DEF WalkInv
<1>6. ASSUME NEW h \in Handler, ListVersionedResourceOccurrences(h) PROVE WalkInv'
  <2>1. /\ Step(h, "betweenPages", "listBuilds") /\ UNCHANGED walkVars
        /\ pc[h] = "betweenPages" /\ pc'[h] = "listBuilds"
    BY <1>6 DEF ListVersionedResourceOccurrences, Step, Goto, WalkInv, ShapeInv
  <2>2. Related(walk.uri)' = Related(walk.uri)
    BY <2>1 DEF walkVars, Related
  <2>3. OwedBeyond(h) => OwedBeyond(h)'
    BY <2>1, <2>2 DEF OwedBeyond, walkVars
  <2> QED
    BY <2>1, <2>3, WalkerKeeps DEF walkVars, WalkInv
<1>7. ASSUME NEW h \in Handler,
             \/ pc[h] \notin WalkLabel /\ Serve(h) /\ UNCHANGED walkVars
             \/ StartWalk(h) \/ ListBuilds(h) \/ BuildsPanic(h) \/ ListOccurrences(h)
             \/ FetchRelatedNotes(h) \/ PageFails(h) \/ EndWalk(h)
      PROVE  WalkInv'
  BY <1>7, WalkAndServe, WalkStarts, BuildsListed, BuildsPanicked,
     OccurrencesListed, NotesFetched, PageFailed, WalkEnds
<1> QED
  BY <1>2, <1>3, <1>4, <1>5, <1>6, <1>7 DEF WalkNext

----------------------------------------------------------------------------
(***************************************************************************)
(* The theorems.                                                           *)
(***************************************************************************)

\* ShapeInv holds in every behaviour of the registrations, with listings beside them or
\* without, and WalkInv in every behaviour with listings.
LEMMA ShapeAlways == Spec => [](ShapeInv /\ LabelInv)
<1>1. Init => ShapeInv /\ LabelInv
  BY ShapeInit DEF Init, LabelInv
<1> QED
  BY <1>1, ShapeStep, LabelStep, PTL DEF Spec

\* The invariant of the walk holds throughout.
LEMMA WalkAlways == WalkSpec => []WalkInv
  BY WalkInvInit, WalkInvStep, PTL DEF WalkSpec

\* Every variable of the registrations keeps its type, whatever calls fail.
THEOREM TypeCorrect == Spec => []TypeOK
<1>1. ShapeInv /\ LabelInv => TypeOK
  BY DEF LabelInv, ShapeInv, HandlerShape, TypeOK
<1> QED
  BY <1>1, ShapeAlways, PTL

\* RegisterCollector only answers OK when all its notes are in Grafeas and all their names
\* in the answer, however many registrations create the same notes at once, and whoever
\* lists occurrences beside them.
THEOREM Registered == (Spec => []RegisteredNotesExist) /\ (WalkSpec => []RegisteredNotesExist)
<1>1. ShapeInv => RegisteredNotesExist
  BY DEF ShapeInv, HandlerShape, RegisteredNotesExist
<1>2. WalkInv => ShapeInv
  BY DEF WalkInv
<1> QED
  BY <1>1, <1>2, ShapeAlways, WalkAlways, PTL

\* The batch of a registration has no note that was there when it listed them, unless they
\* were on a later page.
THEOREM OnlyNewNotes == (Spec => []NotRecreated) /\ (WalkSpec => []NotRecreated)
<1>1. ShapeInv => NotRecreated
  BY DEF ShapeInv, HandlerShape, NotRecreated
<1>2. WalkInv => ShapeInv
  BY DEF WalkInv
<1> QED
  BY <1>1, <1>2, ShapeAlways, WalkAlways, PTL

\* A client that has walked through all pages of ListVersionedResourceOccurrences has seen
\* what was related when it began, although the filter of every page is made anew and goes
\* with a token that came from another: builds and occurrences that are created meanwhile
\* only move on what is still to be listed.
THEOREM WalksLoseNothing == WalkSpec => []PagesLoseNothing
<1>1. WalkInv => PagesLoseNothing
  <2> SUFFICES ASSUME WalkInv, NEW h \in Handler, pc[h] = "walked"
               PROVE  \/ owed = {}
                      \/ Cardinality(Builds(walk.uri)) > MaxPageSize
                      \/ walk.notes /\ walk.size > MaxPageSize
    BY DEF PagesLoseNothing
  <2>1. walk \in Walks /\ (owed = {} \/ ~Uncut)
    BY DEF WalkInv, OwedBeyond
  <2>2. IsFiniteSet(Builds(walk.uri)) /\ Cardinality(Builds(walk.uri)) \in Nat
    BY OccurrenceFinite, FS_Subset, FS_CardinalityType DEF Builds, WalkInv
  <2> QED
    BY <2>1, <2>2, WalkAssumption, PageAssumption DEF Uncut
<1> QED
  BY <1>1, WalkAlways, PTL
=============================================================================
