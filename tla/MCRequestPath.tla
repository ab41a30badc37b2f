---------------------------- MODULE MCRequestPath ----------------------------
(* A small instance of RequestPath for TLC. *)
EXTENDS RequestPath

\* No role, each role, and claims with more than one entry or with one that is no role.
MCClaims ==
  {{}} \cup {{r} : r \in Role}
  \cup {{"unknown"}, {"notString"}, {"Enforcer", "Collector"}, {"unknown", "Collector"},
        {"PolicyDeveloper", "notString"}}

\* Versions 1 and 2, 1 spelled otherwise, 0, one that wraps to 1, -1, one that is no int.
P(piece) == <<Word("p"), piece>>
MCIds ==
  {<<Word("p")>>, Segment("versions"), <<Empty>>, P(Word("counter")), P(Empty),
   P(Numeral(1, TRUE)), P(Numeral(2, TRUE)), P(Numeral(1, FALSE)), P(Numeral(0, TRUE)),
   P(Numeral(2 ^ Width + 1, TRUE)), P(Numeral(-1, TRUE)), P(Numeral(IntMax + 1, TRUE)),
   <<Word("p"), Numeral(1, TRUE), Word("counter")>>}

All == Object(Fields)
Bodies ==
  {<<>>,
   <<Expression("assign", Variable("result"), All)>>,
   <<Expression("eq", Variable("result"), Object(Fields \ {"id"}))>>,
   <<Expression("assign", Variable("other"), Object({})),
     Expression("assign", Variable("result"), All)>>,
   <<Expression("assign", Variable("result"), All),
     Expression("eq", Variable("result"), Object({"pass"}))>>,
   <<Expression("eq", Object({}), Variable("result"))>>}

Rule(name, key, body) == [name |-> name, key |-> key, body |-> body]
ViolationRules ==
  {Rule("violations", "result", body) : body \in Bodies} \cup {Rule("violations", "other", <<>>)}
PassRule == Rule("pass", "", <<>>)

Parsable(errors, rules) == [text |-> "parsable", errors |-> errors, rules |-> rules]
MCSources ==
  {[NoSource EXCEPT !.text = "unparsable"],
   Parsable(<<"e1">>, <<>>), Parsable(<<"e1", "e2">>, <<PassRule>>), Parsable(<<>>, <<>>)}
  \cup {Parsable(<<>>, <<PassRule>>), NoSource}
  \cup {Parsable(<<>>, <<r>>) : r \in ViolationRules}
  \cup {Parsable(<<>>, <<r, PassRule>>) : r \in ViolationRules}
  \cup {Parsable(<<>>, <<r, PassRule, s>>) : r, s \in ViolationRules}

\* The paths of the routes with every verb, their fields filled with ids of policies or
\* with words that are segments of routes; an update has an id in its body too.
Fill(path, id) == [i \in DOMAIN path |-> IF path[i] = Field THEN id ELSE path[i]]
MCHttpRequests ==
  {[verb |-> verb, path |-> Fill(r.path, id), suffix |-> r.suffix,
    bodyId |-> IF verb = "PATCH" THEN Segment("versions") ELSE <<>>] :
     verb \in {"GET", "POST", "PATCH", "DELETE"}, r \in Routes,
     id \in {P(Numeral(1, TRUE)), Segment("versions")}}
=============================================================================
