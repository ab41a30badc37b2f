----------------------------- MODULE Collectors -----------------------------
(***************************************************************************)
(* RegisterCollector and CreateNote (server/server.go): the notes of the   *)
(* collectors, which Grafeas keeps.  A registration lists the notes that   *)
(* exist and creates the others; nothing holds the notes in between, and   *)
(* "collectors are expected to invoke this RPC each time they start".      *)
(*                                                                         *)
(* A note id is a collector and a kind.  The list is by prefix, so that it *)
(* also finds the notes of collectors whose id goes on with a hyphen, and  *)
(* of all these only the first page.  Grafeas refuses to create a note     *)
(* that exists; what it does with the rest of the batch is its own affair. *)
(*                                                                         *)
(* Left out: what a note says.  Two kinds without a name of their own      *)
(* share the id "unspecified": Kind has one element for both.              *)
(***************************************************************************)
EXTENDS FiniteSets, Naturals

CONSTANTS
  Collector,   \* collector ids
  NoId,        \* the empty id
  PrefixedBy,  \* PrefixedBy[c]: the collectors whose note ids begin with "c-"
  Kind,        \* note kinds
  MaxNotes,    \* bound on the notes of a request
  PageSize,    \* the notes Grafeas lists when no page size is asked for
  Handler,     \* the registrations that can be in flight at once
  Missing,
  CallFaults   \* may a call fail, before or after its effect, or the RPC be cut off?

ASSUME BoundAssumption == MaxNotes \in Nat /\ PageSize \in Nat
ASSUME PrefixAssumption ==
  /\ PrefixedBy \in [Collector -> SUBSET Collector]
  /\ \A c \in Collector : c \in PrefixedBy[c]
ASSUME FiniteAssumption == IsFiniteSet(Collector) /\ IsFiniteSet(Kind)
ASSUME MissingAssumption == Missing \notin {"OK", "InvalidArgument", "Internal"}

VARIABLES
  notes,     \* the ids of the notes in Grafeas
  pc,        \* pc[h]: the call handler h is about to make
  request,   \* request[h]: the message h serves
  toCreate,  \* toCreate[h]: notesToCreate
  named,     \* named[h]: the notes of the request that have their full name
  reply,     \* reply[h]: the status of the answer
  listed     \* history: the notes there were when h listed them

vars == <<notes, pc, request, toCreate, named, reply, listed>>

NoteId == Collector \X Kind

\* notes[i] is the kind of the i-th note.
Request == [id : Collector \cup {NoId}, notes : UNION {[1..n -> Kind] : n \in 0..MaxNotes}]

Init ==
  /\ notes = {}
  /\ pc = [h \in Handler |-> "idle"]
  /\ request = [h \in Handler |-> Missing]
  /\ toCreate = [h \in Handler |-> {}]
  /\ named = [h \in Handler |-> {}]
  /\ reply = [h \in Handler |-> Missing]
  /\ listed = [h \in Handler |-> {}]

----------------------------------------------------------------------------
Goto(h, from, to) == pc[h] = from /\ pc' = [pc EXCEPT ![h] = to]

Answer(h, from, code) ==
  /\ Goto(h, from, "done")
  /\ reply' = [reply EXCEPT ![h] = code]

NoteIds(message) == {message.id} \X {message.notes[i] : i \in DOMAIN message.notes}

SameTypeTwice(message) == Cardinality(NoteIds(message)) < Cardinality(DOMAIN message.notes)

\* An answer without a call: no id, no notes, or two notes of one type.
AnswerAtOnce(h) == \E message \in Request :
  /\ message.id = NoId \/ message.notes = <<>> \/ SameTypeTwice(message)
  /\ request' = [request EXCEPT ![h] = message]
  /\ Answer(h, "idle",
            IF message.id # NoId /\ message.notes = <<>> THEN "OK" ELSE "InvalidArgument")
  /\ UNCHANGED <<notes, toCreate, named, listed>>

RegisterCollector(h) == \E message \in Request :
  /\ message.id # NoId /\ message.notes # <<>> /\ ~SameTypeTwice(message)
  /\ Goto(h, "idle", "listNotes")
  /\ request' = [request EXCEPT ![h] = message]
  /\ toCreate' = [toCreate EXCEPT ![h] = NoteIds(message)]
  /\ UNCHANGED <<notes, named, reply, listed>>

----------------------------------------------------------------------------
\* The notes the filter of the list matches.
Matching(h) == notes \cap (PrefixedBy[request[h].id] \X Kind)

Pages(found) ==
  IF Cardinality(found) <= PageSize THEN {found}
  ELSE {page \in SUBSET found : Cardinality(page) = PageSize}

\* Mutant: a note that exists is not taken out of notesToCreate.
KeepsAll(h) == pc[h] = "listNotes" /\ \E page \in Pages(Matching(h)) :
  /\ Goto(h, "listNotes", "createNotes")
  /\ named' = [named EXCEPT ![h] = NoteIds(request[h]) \cap page]
  /\ listed' = [listed EXCEPT ![h] = notes]
  /\ UNCHANGED <<notes, request, toCreate, reply>>

\* With nothing to create the answer leaves.
ListNotes(h) == pc[h] = "listNotes" /\ \E page \in Pages(Matching(h)) :
  /\ IF toCreate[h] \subseteq page THEN Answer(h, "listNotes", "OK")
     ELSE Goto(h, "listNotes", "createNotes") /\ UNCHANGED reply
  /\ toCreate' = [toCreate EXCEPT ![h] = @ \ page]
  /\ named' = [named EXCEPT ![h] = NoteIds(request[h]) \cap page]
  /\ listed' = [listed EXCEPT ![h] = notes]
  /\ UNCHANGED <<notes, request>>

\* Mutant: the answer of Grafeas is not looked through.
NamesListed(h) ==
  /\ toCreate[h] \cap notes = {}
  /\ Answer(h, "createNotes", "OK")
  /\ notes' = notes \cup toCreate[h]
  /\ UNCHANGED <<request, toCreate, named, listed>>

BatchCreateNotes(h) ==
  /\ toCreate[h] \cap notes = {}
  /\ Answer(h, "createNotes", "OK")
  /\ notes' = notes \cup toCreate[h]
  /\ named' = [named EXCEPT ![h] = @ \cup toCreate[h]]
  /\ UNCHANGED <<request, toCreate, listed>>

\* A note of the batch exists: some of the others may be created.
NoteConflict(h) ==
  /\ toCreate[h] \cap notes # {}
  /\ Answer(h, "createNotes", "Internal")
  /\ \E others \in SUBSET toCreate[h] : notes' = notes \cup others
  /\ UNCHANGED <<request, toCreate, named, listed>>

CallFails(h) ==
  /\ CallFaults
  /\ \/ Answer(h, "listNotes", "Internal") /\ UNCHANGED notes
     \/ /\ Answer(h, "createNotes", "Internal")
        /\ \E created \in SUBSET toCreate[h] : notes' = notes \cup created
  /\ UNCHANGED <<request, toCreate, named, listed>>

\* The answer leaves, or the process dies or the RPC is cancelled before.
Finish(h) ==
  /\ pc[h] = "done" \/ (CallFaults /\ pc[h] # "idle")
  /\ pc' = [pc EXCEPT ![h] = "idle"]
  /\ request' = [request EXCEPT ![h] = Missing]
  /\ toCreate' = [toCreate EXCEPT ![h] = {}]
  /\ named' = [named EXCEPT ![h] = {}]
  /\ reply' = [reply EXCEPT ![h] = Missing]
  /\ listed' = [listed EXCEPT ![h] = {}]
  /\ UNCHANGED notes

Serve(h) ==
  \/ AnswerAtOnce(h) \/ RegisterCollector(h)
  \/ ListNotes(h) \/ BatchCreateNotes(h) \/ NoteConflict(h)
  \/ CallFails(h) \/ Finish(h)

\* The other RPC that creates notes goes to Grafeas as it came.
CreateNote == \E id \in NoteId \ notes :
  /\ notes' = notes \cup {id}
  /\ UNCHANGED <<pc, request, toCreate, named, reply, listed>>

Next == (\E h \in Handler : Serve(h)) \/ CreateNote

Spec == Init /\ [][Next]_vars

----------------------------------------------------------------------------
\* Every variable has its type.
TypeOK ==
  /\ notes \subseteq NoteId
  /\ pc \in [Handler -> {"idle", "listNotes", "createNotes", "done"}]
  /\ request \in [Handler -> Request \cup {Missing}]
  /\ \A h \in Handler : pc[h] \in {"listNotes", "createNotes"} =>
       /\ named[h] \cup toCreate[h] \subseteq NoteIds(request[h])
       /\ toCreate[h] # {}
  /\ reply \in [Handler -> {"OK", "InvalidArgument", "Internal", Missing}]
  /\ listed \in [Handler -> SUBSET NoteId]

\* A collector that is told OK has all its notes in Grafeas, and "the notes with the
\* fully qualified note name" in the answer.
RegisteredNotesExist ==
  \A h \in Handler : reply[h] = "OK" => NoteIds(request[h]) \subseteq notes \cap named[h]

\* "This operation is idempotent, so any notes that already exist will not be
\* re-created": a note that Grafeas is asked to create did not exist when the notes
\* were listed, if they are on one page.  Only a registration that overlaps another
\* RPC creating one of its notes is refused.
NotRecreated ==
  \A h \in Handler : pc[h] = "createNotes" =>
    \/ toCreate[h] \cap listed[h] = {}
    \/ Cardinality(listed[h] \cap (PrefixedBy[request[h].id] \X Kind)) > PageSize
=============================================================================
