------------------------------ MODULE Sources ------------------------------
(***************************************************************************)
(* daggy::sources: what the convertors make of a document.  A document is  *)
(* a tree of nodes, as both parsers see it; a JSON text is also a YAML     *)
(* text, so one document can be given to either convertor.  The convertors *)
(* differ in what a scalar is: JSON goes by the quotes, the YAML side by   *)
(* the text alone.                                                         *)
(***************************************************************************)
EXTENDS Naturals

CONSTANTS
  IntegerTexts,   \* the texts that spell a number
  DocumentNodes   \* the nodes of the documents there are

\* A node is a map of nodes, a scalar or null.
Nodes == {n \in DocumentNodes : n.kind \in {"map", "scalar", "null"}}

ASSUME NodesAssumption ==
  \A n \in Nodes : n.kind = "map" => \A k \in DOMAIN n.at : n.at[k] \in Nodes

depth[n \in Nodes] ==
  IF n.kind = "map" /\ DOMAIN n.at # {}
  THEN LET D == {depth[n.at[k]] : k \in DOMAIN n.at}
       IN  1 + CHOOSE d \in D : \A e \in D : e <= d
  ELSE 0

\* A document is finite: its nodes are less deep the further down they are.
ASSUME DepthAssumption ==
  \A n \in Nodes :
    depth[n] \in Nat /\ (n.kind = "map" => \A k \in DOMAIN n.at : depth[n.at[k]] < depth[n])

\* The texts are what scalars spell.
MapNode(at) == [kind |-> "map", at |-> at]
Quoted(text) == [kind |-> "scalar", text |-> text, quoted |-> TRUE]
Bare(text) == [kind |-> "scalar", text |-> text, quoted |-> FALSE]
NullNode == [kind |-> "null"]

\* scalarToVariant knows two of each; YAML::Node::as<bool> knows more.
TrueTexts == {"true", "on"}
FalseTexts == {"false", "off"}
YesTexts == TrueTexts \cup {"yes", "y"}
NoTexts == FalseTexts \cup {"no", "n"}

\* What both look for spells no number.
ASSUME IntegerTextsAssumption == IntegerTexts \cap (YesTexts \cup NoTexts \cup {""}) = {}

\* QVariant: its metaType, with a text, or with the values of a map.
Value(type, text) == [type |-> type, text |-> text]

jsonScalar(n) ==
  Value(CASE n.quoted -> "QString"
          [] ~n.quoted /\ n.text \in {"true", "false"} -> "Bool"
          [] ~n.quoted /\ n.text \notin {"true", "false"} -> "LongLong",
        n.text)

\* Mutant of scalarToVariant: false is looked for first, and so is the empty text.
scalarFalseFirst(n) ==
  CASE n.text \in FalseTexts \cup {""} \cup TrueTexts -> Value("Bool", "false")
    [] n.text \in IntegerTexts -> Value("LongLong", n.text)
    [] n.text \notin TrueTexts \cup FalseTexts \cup IntegerTexts \cup {""} ->
         Value("QString", n.text)

\* The length of "no match" is 0: an empty text passes the first test.
scalarToVariant(n) ==
  CASE n.text \in TrueTexts \cup {""}  -> Value("Bool", "true")
    [] n.text \in FalseTexts           -> Value("Bool", "false")
    [] n.text \in IntegerTexts         -> Value("LongLong", n.text)
    [] n.text \notin TrueTexts \cup FalseTexts \cup IntegerTexts \cup {""} ->
         Value("QString", n.text)

toVariant(format, root) ==
  LET variant[n \in Nodes] ==
        CASE n.kind = "map"    -> [type |-> "QVariantMap",
                                   at   |-> [k \in DOMAIN n.at |-> variant[n.at[k]]]]
          [] n.kind = "scalar" -> IF format = "json" THEN jsonScalar(n) ELSE scalarToVariant(n)
          [] n.kind = "null"   -> Value("Null", "")
  IN variant[root]

NoFields == [f \in {} |-> NullNode]

has(m, field) == field \in DOMAIN m
isMap(v) == v.type = "QVariantMap"
toMap(m, field) == IF has(m, field) /\ isMap(m[field]) THEN m[field].at ELSE NoFields
toText(m, field) == IF has(m, field) /\ ~isMap(m[field]) THEN m[field].text ELSE ""

toBool(v) ==
  CASE v.type = "Bool"     -> v.text = "true"
    [] v.type = "LongLong" -> v.text # "0"
    [] v.type = "QString"  -> v.text \notin {"", "0", "false"}
    [] v.type \in {"QVariantMap", "Null"} -> FALSE

-----------------------------------------------------------------------------

commandAccepted(v) ==
  isMap(v) /\ \A field \in {"exec", "extension"} :
                 has(v.at, field) /\ v.at[field].type = "QString"

\* Mutant of commandsAccepted: no command is as good as any.
commandsAcceptedIfAny(m) == \A id \in DOMAIN m : commandAccepted(m[id])

commandsAccepted(m) == DOMAIN m # {} /\ \A id \in DOMAIN m : commandAccepted(m[id])

\* A restart that is not a Bool counts as absent.
getCommands(m) ==
  [id \in DOMAIN m |-> LET c == m[id].at IN
     [exec       |-> c["exec"].text,
      extension  |-> c["extension"].text,
      parameters |-> toMap(c, "parameters"),
      restart    |-> has(c, "restart") /\ c["restart"].type = "Bool" /\ toBool(c["restart"])]]

-----------------------------------------------------------------------------

\* What a JSON parser reads at all: bare texts are numbers, true and false.
isJson[n \in Nodes] ==
  /\ n.kind = "map" => \A k \in DOMAIN n.at : isJson[n.at[k]]
  /\ n.kind = "scalar" => n.quoted \/ n.text \in {"true", "false"} \cup IntegerTexts

jsonSourceAccepted(v) ==
  /\ isMap(v)
  /\ has(v.at, "type") /\ v.at["type"].type = "QString"
  /\ has(v.at, "commands") /\ isMap(v.at["commands"])
  /\ commandsAccepted(v.at["commands"].at)

jsonSource(m) ==
  [type       |-> m["type"].text,
   host       |-> toText(m, "host"),
   commands   |-> getCommands(m["commands"].at),
   reconnect  |-> has(m, "reconnect") /\ toBool(m["reconnect"]),
   parameters |-> toMap(m, "parameters")]

jsonAccepts(root) ==
  LET v == toVariant("json", root) IN
  /\ isJson[root]
  /\ isMap(v) /\ has(v.at, "sources") /\ isMap(v.at["sources"])
  /\ LET m == v.at["sources"].at IN \A id \in DOMAIN m : jsonSourceAccepted(m[id])

json(root) ==
  LET m == toVariant("json", root).at["sources"].at IN
  [id \in DOMAIN m |-> jsonSource(m[id].at)]

-----------------------------------------------------------------------------

\* Node::as<QString>, as<QVariantMap> and as<bool> throw on any other node.
isScalar(n) == n.kind = "scalar"
isBool(n) == isScalar(n) /\ n.text \in YesTexts \cup NoTexts
variants(n) == toVariant("yaml", n).at

yamlSourceAccepted(n) ==
  /\ n.kind = "map"
  /\ has(n.at, "host") => isScalar(n.at["host"])
  /\ has(n.at, "type") /\ isScalar(n.at["type"])
  /\ has(n.at, "reconnect") => isBool(n.at["reconnect"])
  /\ has(n.at, "parameters") => n.at["parameters"].kind = "map"
  /\ has(n.at, "commands") /\ n.at["commands"].kind = "map"
  /\ commandsAccepted(variants(n.at["commands"]))

yamlSource(m) ==
  [type       |-> m["type"].text,
   host       |-> IF has(m, "host") THEN m["host"].text ELSE "",
   commands   |-> getCommands(variants(m["commands"])),
   reconnect  |-> has(m, "reconnect") /\ m["reconnect"].text \in YesTexts,
   parameters |-> IF has(m, "parameters") THEN variants(m["parameters"]) ELSE NoFields]

yamlAccepts(root) ==
  /\ root.kind = "map" /\ has(root.at, "sources") /\ root.at["sources"].kind = "map"
  /\ LET m == root.at["sources"].at IN \A id \in DOMAIN m : yamlSourceAccepted(m[id])

yaml(root) ==
  LET m == root.at["sources"].at IN [id \in DOMAIN m |-> yamlSource(m[id].at)]

-----------------------------------------------------------------------------

accepts(format, root) == IF format = "json" THEN jsonAccepts(root) ELSE yamlAccepts(root)
convert(format, root) == IF format = "json" THEN json(root) ELSE yaml(root)
=============================================================================
