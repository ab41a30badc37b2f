------------------------- MODULE PolicyValidation -------------------------
(***************************************************************************)
(* ValidatePolicy and validateRodeRequirementsForPolicy                    *)
(* (pkg/policy/manager.go): which Rego modules are accepted as policies,   *)
(* and what the answer says of the others.                                 *)
(*                                                                         *)
(* A source is what OPA's parser and compiler make of it: is it "empty",   *)
(* "unparsable" or "parsable", the errors of its compilation, its rules.   *)
(* A rule has a name, a key and a body; an expression of a body an         *)
(* operator and two terms; a term is a variable or an object with its keys.*)
(***************************************************************************)
EXTENDS Naturals, Sequences

Fields == {"pass", "name", "id", "message"}

Variable(name) == [kind |-> "variable", name |-> name, keys |-> {}]
Object(keys) == [kind |-> "object", name |-> "", keys |-> keys]

Expression(operator, left, right) == [operator |-> operator, terms |-> <<left, right>>]

\* An object that is the right side of an assignment to, or a unification with, result.
ResultObject(expression, i) ==
  /\ expression.operator \in {"assign", "eq"}
  /\ expression.terms[i].kind = "object"
  /\ i > 1
  /\ expression.terms[i - 1] = Variable("result")

\* Mutant: one field is enough.
SomeField(body) ==
  \A e \in DOMAIN body : \A i \in DOMAIN body[e].terms :
    ResultObject(body[e], i) => body[e].terms[i].keys \cap Fields # {}

\* validateResultTermsInBody
ResultTermsInBody(body) ==
  \A e \in DOMAIN body : \A i \in DOMAIN body[e].terms :
    ResultObject(body[e], i) => Fields \subseteq body[e].terms[i].keys

\* The places of the rules violations.
Violations(rules) == {i \in DOMAIN rules : rules[i].name = "violations"}

\* The loop over the violations: has it come past the rule at n, and those before it?  It
\* breaks at the first that is not well formed.
Passed(rules) ==
  LET passed[n \in 0..Len(rules)] ==
        IF n = 0 THEN TRUE
        ELSE /\ passed[n - 1]
             /\ n \in Violations(rules) =>
                  rules[n].key = "result" /\ ResultTermsInBody(rules[n].body)
  IN passed

\* The flag is set only at the end of the last.
ReturnFieldsExist(rules) ==
  \E last \in Violations(rules) :
    /\ \A i \in Violations(rules) : i <= last
    /\ Passed(rules)[last]

\* validateRodeRequirementsForPolicy
RodeErrors(rules) ==
  {e \in {"no pass", "no violations", "no result"} :
     CASE e = "no pass"       -> \A i \in DOMAIN rules : rules[i].name # "pass"
       [] e = "no violations" -> Violations(rules) = {}
       [] e = "no result"     -> ~ReturnFieldsExist(rules)}

\* The list is made with as many empty entries as there are errors, to which the
\* errors are appended.
ErrorsList(errors) == [i \in DOMAIN errors |-> ""] \o errors

\* ValidatePolicy
Validate(source) ==
  CASE source.text = "empty" -> [code |-> "InvalidArgument", errors |-> <<>>, missing |-> {}]
    [] source.text = "unparsable" ->
         [code |-> "InvalidArgument", errors |-> <<"parse">>, missing |-> {}]
    [] source.text = "parsable" /\ source.errors # <<>> ->
         [code |-> "InvalidArgument", errors |-> ErrorsList(source.errors), missing |-> {}]
    [] OTHER ->
         [code |-> IF RodeErrors(source.rules) = {} THEN "OK" ELSE "InvalidArgument",
          errors |-> <<>>, missing |-> RodeErrors(source.rules)]
=============================================================================
