---------------------------- MODULE MCFrontEnds ----------------------------
(***************************************************************************)
(* Documents with a source "s" whose fields take every kind of value that  *)
(* some rule tells apart, and "t", a plain local source beside it; and     *)
(* documents that are wrong further up.                                    *)
(***************************************************************************)
EXTENDS FrontEnds

Without(m, field) == [f \in DOMAIN m \ {field} |-> m[f]]
With(m, field, value) == [f \in DOMAIN m \cup {field} |-> IF f = field THEN value ELSE m[f]]

Texts == {Quoted("word"), Quoted("5"), Quoted(""), Bare("5"), Bare("on"), Bare("word"), NullNode}
PlainCommand == [exec |-> Quoted("word"), extension |-> Quoted("word")]
Plain == [type |-> Quoted("local"), commands |-> MapNode([c |-> MapNode(PlainCommand)])]

Commands ==
  {PlainCommand, Without(PlainCommand, "extension")}
  \cup {With(PlainCommand, "exec", n) : n \in Texts}
  \cup {With(PlainCommand, "restart", n) :
          n \in {Bare("true"), Bare("false"), Quoted("true"), Quoted("off"), Quoted(""), Bare("5")}}
  \cup {With(PlainCommand, "parameters", MapNode([p |-> n])) : n \in {Quoted("word"), Quoted("5")}}

Parameters ==
  {MapNode(NoFields), Quoted("word")}
  \cup {MapNode([f \in {field} |-> n]) : field \in {"config", "port"}, n \in {Quoted("word"), Bare("5")}}
  \cup {MapNode([control |-> n]) : n \in {Quoted("word"), Quoted("5")}}

\* as<bool> reads more words than scalarToVariant, and those that are quoted.
Reconnects ==
  {Quoted(word) : word \in {"true", "on", "yes", "false", "off", "no", "word", "", "5"}}
  \cup {Bare("true"), Bare("yes"), Bare("5"), NullNode}

SourceFields ==
  {[type |-> type, commands |-> MapNode([c |-> MapNode(PlainCommand)]),
    parameters |-> parameters, host |-> host, reconnect |-> reconnect] :
     type \in {Quoted("local"), Quoted("ssh"), Quoted("ssh2"), Bare("5")},
     parameters \in Parameters,
     host \in {Quoted(""), Quoted("word"), Bare("5"), NullNode},
     reconnect \in {Bare("true"), Bare("false")}}
  \cup {With(Plain, "reconnect", n) : n \in Reconnects}
  \cup {With(Plain, "commands", MapNode([c |-> MapNode(m)])) : m \in Commands}
  \cup {With(Plain, "commands", n) : n \in {MapNode(NoFields), Quoted("word")}}
  \cup {Without(Plain, "type"), Without(Plain, "commands"), Plain}

Root(m) == MapNode([sources |-> MapNode(m)])

MCDocuments ==
  {Root([s |-> MapNode(fields), t |-> MapNode(Plain)]) : fields \in SourceFields}
  \cup {Root([s |-> Quoted("word")]), Root(NoFields), Root([t |-> MapNode(Plain)])}
  \cup {Root([id \in {""} |-> MapNode(With(Plain, "type", Quoted("ssh")))])}
  \cup {MapNode(NoFields), Quoted("word"), MapNode([sources |-> NullNode])}

below(N) == N \cup UNION {{n.at[k] : k \in DOMAIN n.at} : n \in {m \in N : m.kind = "map"}}

\* From the root down to the fields of a command and their parameters.
MCNodes == below(below(below(below(below(below(MCDocuments))))))
=============================================================================
