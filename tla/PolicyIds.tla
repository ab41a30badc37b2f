----------------------------- MODULE PolicyIds -----------------------------
(***************************************************************************)
(* The ids of the policies index (pkg/policy/manager.go): "policy" of a    *)
(* policy document, "policy.n" of a version, "policy.counter" of the       *)
(* counter, and how the RPCs read the ids they are given.                  *)
(*                                                                         *)
(* An id is the sequence of the pieces between its dots.  A piece is a     *)
(* word or a numeral: canonical as "%d" writes the number, or another      *)
(* spelling of it ("01", "+1").  The widths are those of a small machine:  *)
(* an int has twice the bits of a uint32.                                  *)
(***************************************************************************)
EXTENDS Integers, Sequences

CONSTANT Width   \* the bits of a uint32

ASSUME WidthAssumption == Width \in Nat \ {0}

Word(text) == [text |-> text, number |-> 0, canonical |-> FALSE]
Numeral(n, canonical) == [text |-> "", number |-> n, canonical |-> canonical]
Empty == Word("empty")

IntMax == 2 ^ (2 * Width - 1) - 1
Version == 1..(2 ^ Width - 1)

IsNumeral(piece) == piece.text = ""

\* policyVersionId, policyCounterId
PolicyVersionId(policy, version) == <<policy, Numeral(version, TRUE)>>
PolicyCounterId(id) == Append(id, Word("counter"))

\* What can be told from an id: an error, or its policy and version (0 if none).
Unreadable == [ok |-> FALSE, policy |-> Empty, version |-> 0]
Readable(policy, version) == [ok |-> TRUE, policy |-> policy, version |-> version]

\* Mutant: a number that Atoi refuses is taken for none.
ParseLenient(id) ==
  IF Len(id) = 1 THEN Readable(id[1], 0)
  ELSE IF Len(id) # 2 THEN Unreadable
  ELSE Readable(id[1], IF IsNumeral(id[2]) THEN id[2].number % 2 ^ Width ELSE 0)

\* Mutant: half of the width.
ParseNarrow(id) ==
  IF Len(id) = 1 THEN Readable(id[1], 0)
  ELSE IF Len(id) # 2 \/ ~IsNumeral(id[2]) THEN Unreadable
  ELSE Readable(id[1], id[2].number % 2)

\* parsePolicyVersionId: Atoi takes any spelling of an int, and the conversion to
\* uint32 keeps its lower bits.
ParsePolicyVersionId(id) ==
  IF Len(id) = 1 THEN Readable(id[1], 0)
  ELSE IF Len(id) # 2 THEN Unreadable
  ELSE IF ~IsNumeral(id[2]) \/ id[2].number \notin (-IntMax - 1)..IntMax THEN Unreadable
  ELSE Readable(id[1], id[2].number % 2 ^ Width)

----------------------------------------------------------------------------
(***************************************************************************)
(* The RPCs, each in one step (PolicyManager has the steps between): what  *)
(* they answer, which document they read, and what they write, given the   *)
(* documents of the index, a function from ids.                            *)
(***************************************************************************)

\* current and deleted are those of a policy; writes the _version of a counter, which
\* Elasticsearch counts whatever is written.
Doc(kind, current, deleted, writes) ==
  [kind |-> kind, current |-> current, deleted |-> deleted, writes |-> writes]
Counter(writes) == Doc("counter", 0, FALSE, writes)
VersionDoc == Doc("version", 0, FALSE, 0)

NoWrites == [id \in {} |-> VersionDoc]

\* What is written replaces what there is of its id.
Over(writes, documents) ==
  [id \in DOMAIN writes \cup DOMAIN documents |->
     IF id \in DOMAIN writes THEN writes[id] ELSE documents[id]]
Write(id, doc, documents) == Over([d \in {id} |-> doc], documents)

Outcome(code, read, writes) == [code |-> code, read |-> read, writes |-> writes]
Refusal(code) == Outcome(code, <<>>, NoWrites)

\* What a policy's content can be to CreatePolicy and UpdatePolicy.
Content == {"unset", "same", "invalid", "valid"}

\* A uuid is new: <<Word("p")>> stands for it. The deleted flag of the message, which
\* CreatePolicy keeps, is left unset here; PolicyManager has both.
CreatePolicy(index, id, content) ==
  IF content # "valid" THEN Refusal("InvalidArgument")
  ELSE Outcome("OK", <<>>,
         Write(id, Doc("policy", 1, FALSE, 0),
           Write(PolicyCounterId(id), Counter(1),
             Write(PolicyVersionId(id[1], 1), VersionDoc, NoWrites))))

\* read is the version document of the answer.
GetPolicy(index, id) ==
  LET parsed   == ParsePolicyVersionId(id)
      document == <<parsed.policy>>
      version  == IF parsed.version = 0 THEN index[document].current ELSE parsed.version
      entity   == PolicyVersionId(parsed.policy, version)
  IN IF ~parsed.ok \/ parsed.policy = Empty THEN Refusal("InvalidArgument")
     ELSE IF document \notin DOMAIN index THEN Refusal("NotFound")
     ELSE IF entity \notin DOMAIN index THEN Refusal("Internal")
     ELSE Outcome("OK", entity, NoWrites)

\* Mutant: the number is taken before the content is validated.
UpdateCountsFirst(index, id, content) ==
  LET got     == GetPolicy(index, id)
      policy  == index[<<id[1]>>]
      counter == PolicyCounterId(id)
      next    == 1 + IF counter \in DOMAIN index THEN index[counter].writes ELSE 0
      version == Append(id, Numeral(next, TRUE))
  IN CASE got.code # "OK" -> got
       [] got.code = "OK" /\ content = "same" ->
            Outcome("OK", got.read, Write(id, policy, NoWrites))
       [] got.code = "OK" /\ content = "valid" ->
            Outcome("OK", version,
              Write(id, [policy EXCEPT !.current = next],
                Write(counter, Counter(next), Write(version, VersionDoc, NoWrites))))
       [] OTHER -> Outcome("InvalidArgument", <<>>, Write(counter, Counter(next), NoWrites))

\* Reads as GetPolicy does, and writes under the id as it came: the policy, and with
\* new content the counter and the next version, which is created and never replaced.
\* An unset content is dereferenced.
UpdatePolicy(index, id, content) ==
  LET got     == GetPolicy(index, id)
      policy  == index[<<id[1]>>]
      counter == PolicyCounterId(id)
      next    == 1 + IF counter \in DOMAIN index THEN index[counter].writes ELSE 0
      version == Append(id, Numeral(next, TRUE))
      Writes(documents) ==
        Write(id, [policy EXCEPT !.current = next], Write(counter, Counter(next), documents))
  IN CASE got.code # "OK" -> got
       [] got.code = "OK" /\ policy.deleted -> Refusal("FailedPrecondition")
       [] got.code = "OK" /\ ~policy.deleted /\ content = "unset" -> Refusal("panic")
       [] got.code = "OK" /\ ~policy.deleted /\ content = "invalid" ->
            Refusal("InvalidArgument")
       [] got.code = "OK" /\ ~policy.deleted /\ content = "same" ->
            Outcome("OK", got.read, Write(id, policy, NoWrites))
       [] OTHER ->
            IF version \in DOMAIN index THEN Outcome("Internal", <<>>, Writes(NoWrites))
            ELSE Outcome("OK", version, Writes(Write(version, VersionDoc, NoWrites)))

\* Reads and writes the document of the id as it came, which it takes for a policy.
DeletePolicy(index, id) ==
  IF id = <<Empty>> THEN Refusal("InvalidArgument")
  ELSE IF id \notin DOMAIN index THEN Refusal("NotFound")
  ELSE LET doc == index[id]
           count == IF doc.writes = 0 THEN 0 ELSE doc.writes + 1
       IN Outcome("OK", <<>>, Write(id, Doc("policy", doc.current, TRUE, count), NoWrites))

\* All policies that are not deleted, each with the version it points to: the id of
\* that is made of the document's id.  One that is missing fails the whole listing.
ListPolicies(index) ==
  LET hits == {id \in DOMAIN index : index[id].kind = "policy" /\ ~index[id].deleted}
  IN Refusal(IF \A id \in hits : Append(id, Numeral(index[id].current, TRUE)) \in DOMAIN index
             THEN "OK" ELSE "Internal")
=============================================================================
