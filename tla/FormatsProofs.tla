---------------------------- MODULE FormatsProofs ----------------------------
(***************************************************************************)
(* Where the two convertors agree, for documents that are finite trees. The *)
(* operators of Sources and FrontEnds that go down a document are          *)
(* recursive functions; that each is what its equation says is proved      *)
(* first, then what they make of a document from the leaves up.            *)
(***************************************************************************)
EXTENDS FrontEndsProofs, WellFoundedInduction

\* A node with a map of which it is a part.
PartOf == {p \in Nodes \X Nodes :
             p[2].kind = "map" /\ \E k \in DOMAIN p[2].at : p[1] = p[2].at[k]}

\* Whoever goes down a document comes to a leaf.
LEMMA PartOfIsWellFounded == IsWellFoundedOn(PartOf, Nodes)
<1> SUFFICES ASSUME NEW T \in SUBSET Nodes, T # {}
             PROVE  \E n \in T : \A m \in T : <<m, n>> \notin PartOf
  BY MinWF
<1> DEFINE depths == {depth[n] : n \in T}
<1>1. PICK d \in depths : \A e \in depths : d <= e
  <2>1. depths \subseteq Nat /\ depths # {}
    BY DepthAssumption
  <2> DEFINE less == {ss \in Nat \X Nat : ss[1] < ss[2]}
  <2>2. IsWellFoundedOn(less, Nat)
    BY NatLessThanWellFounded DEF OpToRel
  <2> HIDE DEF depths, less
  <2>3. PICK d \in depths : \A e \in depths : <<e, d>> \notin less
    BY <2>1, <2>2, WFMin, Zenon
  <2>4. ASSUME NEW e \in depths PROVE d <= e
    <3>1. e \in Nat /\ d \in Nat /\ <<e, d>> \notin less
      BY <2>1, <2>3
    <3>2. ~(e < d)
      BY <3>1 DEF less
    <3> QED  BY <3>1, <3>2
  <2> QED  BY <2>4
<1>2. PICK n \in T : depth[n] = d
  OBVIOUS
<1>3. ASSUME NEW m \in T, <<m, n>> \in PartOf PROVE FALSE
  <2>1. depth[m] < depth[n] /\ depth[m] \in Nat /\ depth[n] \in Nat
    BY <1>3, DepthAssumption DEF PartOf
  <2>2. depth[m] \in depths
    OBVIOUS
  <2>3. d <= depth[m]
    BY <1>1, <2>2
  <2> QED  BY <1>2, <2>1, <2>3
<1> QED  BY <1>3

\* What a value is made of: of the values of the parts, or of a leaf as given.
MadeOf(f, leaf, n) ==
  IF n.kind = "map" THEN [type |-> "QVariantMap", at |-> [k \in DOMAIN n.at |-> f[n.at[k]]]]
                    ELSE leaf[n]

-----------------------------------------------------------------------------

\* Whatever is required of the leaves, there is a set of nodes that have only
\* such leaves: the largest set that goes on down.
LEMMA LeavesExists ==
  ASSUME NEW leaves
  PROVE  \E G \in SUBSET Nodes :
           \A n \in Nodes : n \in G <=> /\ n.kind = "map" => \A k \in DOMAIN n.at : n.at[k] \in G
                                        /\ n.kind # "map" => n \in leaves
<1> DEFINE Holds(S, n) == /\ n.kind = "map" => \A k \in DOMAIN n.at : n.at[k] \in S
                          /\ n.kind # "map" => n \in leaves
           Closed == {S \in SUBSET Nodes : \A n \in S : Holds(S, n)}
           G == UNION Closed
<1>1. G \in SUBSET Nodes
  OBVIOUS
<1>2. ASSUME NEW n \in Nodes, n \in G PROVE Holds(G, n)
  <2>1. PICK S \in Closed : n \in S
    BY <1>2
  <2>2. Holds(S, n)
    BY <2>1
  <2>3. S \subseteq G
    OBVIOUS
  <2> QED  BY <2>2, <2>3
<1>3. ASSUME NEW n \in Nodes, Holds(G, n) PROVE n \in G
  <2> DEFINE S == G \cup {n}
  <2>1. \A m \in S : Holds(G, m)
    BY <1>2, <1>3, <1>1
  <2>2. \A m \in S : Holds(S, m)
    BY <2>1
  <2>3. S \in Closed
    BY <2>2, <1>1
  <2>4. n \in S
    OBVIOUS
  <2> QED  BY <2>3, <2>4, Zenon
<1> QED  BY <1>1, <1>2, <1>3

\* What isJson says of a node.
LEMMA IsJsonEquation ==
  \A n \in Nodes :
    isJson[n] <=> /\ n.kind = "map" => \A k \in DOMAIN n.at : isJson[n.at[k]]
                  /\ n.kind = "scalar" => n.quoted \/ n.text \in {"true", "false"} \cup IntegerTexts
<1> DEFINE Leaf(n) == n.kind = "scalar" => n.quoted \/ n.text \in {"true", "false"} \cup IntegerTexts
           Down(f) == [n \in Nodes |->
                         /\ n.kind = "map" => \A k \in DOMAIN n.at : f[n.at[k]]
                         /\ Leaf(n)]
<1>1. PICK G \in SUBSET Nodes :
        \A n \in Nodes : n \in G <=> /\ n.kind = "map" => \A k \in DOMAIN n.at : n.at[k] \in G
                                     /\ n.kind # "map" => n \in {m \in Nodes : Leaf(m)}
  BY LeavesExists
<1> DEFINE f == [n \in Nodes |-> n \in G]
<1>2. ASSUME NEW n \in Nodes
      PROVE  f[n] = Down(f)[n]
  <2>1. n \in G <=> (n.kind = "map" => \A k \in DOMAIN n.at : n.at[k] \in G) /\ Leaf(n)
    BY <1>1
  <2>2. n.kind = "map" => \A k \in DOMAIN n.at : f[n.at[k]] = (n.at[k] \in G)
    BY NodesAssumption
  <2>3. n \in G <=> (n.kind = "map" => \A k \in DOMAIN n.at : f[n.at[k]]) /\ Leaf(n)
    BY <2>1, <2>2
  <2>4. f[n] = (n \in G)
    OBVIOUS
  <2> HIDE DEF f, Leaf
  <2>5. Down(f)[n] = ((n.kind = "map" => \A k \in DOMAIN n.at : f[n.at[k]]) /\ Leaf(n))
    BY Zenon
  <2>6. (n \in G) = ((n.kind = "map" => \A k \in DOMAIN n.at : f[n.at[k]]) /\ Leaf(n))
    BY <2>3
  <2> HIDE DEF Down
  <2> QED  BY <2>4, <2>5, <2>6
<1>3. f = Down(f)
  BY <1>2, Zenon
<1>4. isJson = Down(isJson)
  BY <1>3 DEF isJson
<1> QED  BY <1>4

\* What quotesWords says of a node.
LEMMA QuotesWordsEquation ==
  \A n \in Nodes :
    quotesWords[n] <=> /\ n.kind = "map" => \A k \in DOMAIN n.at : quotesWords[n.at[k]]
                       /\ n.kind = "scalar" /\ n.quoted
                            => n.text \notin TrueTexts \cup FalseTexts \cup IntegerTexts \cup {""}
<1> DEFINE Leaf(n) == n.kind = "scalar" /\ n.quoted
                        => n.text \notin TrueTexts \cup FalseTexts \cup IntegerTexts \cup {""}
           Down(f) == [n \in Nodes |->
                         /\ n.kind = "map" => \A k \in DOMAIN n.at : f[n.at[k]]
                         /\ Leaf(n)]
<1>1. PICK G \in SUBSET Nodes :
        \A n \in Nodes : n \in G <=> /\ n.kind = "map" => \A k \in DOMAIN n.at : n.at[k] \in G
                                     /\ n.kind # "map" => n \in {m \in Nodes : Leaf(m)}
  BY LeavesExists
<1> DEFINE f == [n \in Nodes |-> n \in G]
<1>2. ASSUME NEW n \in Nodes
      PROVE  f[n] = Down(f)[n]
  <2>1. n \in G <=> (n.kind = "map" => \A k \in DOMAIN n.at : n.at[k] \in G) /\ Leaf(n)
    BY <1>1
  <2>2. n.kind = "map" => \A k \in DOMAIN n.at : f[n.at[k]] = (n.at[k] \in G)
    BY NodesAssumption
  <2>3. n \in G <=> (n.kind = "map" => \A k \in DOMAIN n.at : f[n.at[k]]) /\ Leaf(n)
    BY <2>1, <2>2
  <2>4. f[n] = (n \in G)
    OBVIOUS
  <2> HIDE DEF f, Leaf
  <2>5. Down(f)[n] = ((n.kind = "map" => \A k \in DOMAIN n.at : f[n.at[k]]) /\ Leaf(n))
    BY Zenon
  <2>6. (n \in G) = ((n.kind = "map" => \A k \in DOMAIN n.at : f[n.at[k]]) /\ Leaf(n))
    BY <2>3
  <2> HIDE DEF Down
  <2> QED  BY <2>4, <2>5, <2>6
<1>3. f = Down(f)
  BY <1>2, Zenon
<1>4. quotesWords = Down(quotesWords)
  BY <1>3 DEF quotesWords
<1> QED  BY <1>4

-----------------------------------------------------------------------------

\* f is what the parts make it, on nodes that it has with their parts.
Makes(f, leaf) ==
  /\ DOMAIN f \in SUBSET Nodes
  /\ f = [n \in DOMAIN f |-> MadeOf(f, leaf, n)]
  /\ \A n \in DOMAIN f : n.kind = "map" => \A k \in DOMAIN n.at : n.at[k] \in DOMAIN f

\* What is made of a node is what is made of its parts.
LEMMA MadeOfParts ==
  \A f, g, leaf, n :
    (n.kind = "map" => \A k \in DOMAIN n.at : f[n.at[k]] = g[n.at[k]])
      => MadeOf(f, leaf, n) = MadeOf(g, leaf, n)
<1> SUFFICES ASSUME NEW f, NEW g, NEW leaf, NEW n,
                    n.kind = "map" => \A k \in DOMAIN n.at : f[n.at[k]] = g[n.at[k]]
             PROVE  MadeOf(f, leaf, n) = MadeOf(g, leaf, n)
  OBVIOUS
<1>1. CASE n.kind = "map"
  <2>1. [k \in DOMAIN n.at |-> f[n.at[k]]] = [k \in DOMAIN n.at |-> g[n.at[k]]]
    BY <1>1
  <2> QED  BY <2>1 DEF MadeOf
<1>2. CASE n.kind # "map"
  BY <1>2 DEF MadeOf
<1> QED  BY <1>1, <1>2

\* Two such functions agree where both are.
LEMMA MadeOnce ==
  ASSUME NEW leaf, NEW f, NEW g, Makes(f, leaf), Makes(g, leaf)
  PROVE  \A n \in DOMAIN f \cap DOMAIN g : f[n] = g[n]
<1> DEFINE T == {n \in DOMAIN f \cap DOMAIN g : f[n] # g[n]}
<1>1. SUFFICES ASSUME T # {} PROVE FALSE
  OBVIOUS
<1>2. T \subseteq Nodes
  BY DEF Makes
<1>3. PICK n \in T : \A m \in T : <<m, n>> \notin PartOf
  BY <1>1, <1>2, PartOfIsWellFounded, WFMin, Zenon
<1>4. ASSUME n.kind = "map", NEW k \in DOMAIN n.at
      PROVE  f[n.at[k]] = g[n.at[k]]
  <2>1. n.at[k] \in DOMAIN f \cap DOMAIN g
    BY <1>4 DEF Makes
  <2>2. <<n.at[k], n>> \in PartOf
    BY <1>4, <1>2, <2>1 DEF Makes, PartOf
  <2> QED  BY <1>3, <2>1, <2>2
<1>5. MadeOf(f, leaf, n) = MadeOf(g, leaf, n)
  BY <1>4, MadeOfParts
<1>6. f[n] = MadeOf(f, leaf, n) /\ g[n] = MadeOf(g, leaf, n)
  BY DEF Makes
<1> QED  BY <1>5, <1>6

\* There is such a function on all nodes.
LEMMA MadeOfAll ==
  ASSUME NEW leaf
  PROVE  \E f : f = [n \in Nodes |-> MadeOf(f, leaf, n)]
<1> DEFINE Has(f, n) == Makes(f, leaf) /\ n \in DOMAIN f
           D == {n \in Nodes : \E f : Has(f, n)}
           h == [n \in D |-> (CHOOSE f : Has(f, n))[n]]
<1>1. \A f, n : Has(f, n) => n \in D /\ h[n] = f[n]
  <2> SUFFICES ASSUME NEW f, NEW n, Has(f, n)
               PROVE  n \in D /\ h[n] = f[n]
    OBVIOUS
  <2>1. n \in D
    BY DEF Makes
  <2> DEFINE g == CHOOSE g : Has(g, n)
  <2>2. Has(g, n)
    OBVIOUS
  <2>3. g[n] = f[n]
    BY <2>2, MadeOnce
  <2> QED  BY <2>1, <2>3
<1>2. ASSUME NEW n \in D
      PROVE  /\ h[n] = MadeOf(h, leaf, n)
             /\ n.kind = "map" => \A k \in DOMAIN n.at : n.at[k] \in D
  <2>1. PICK f : Has(f, n)
    OBVIOUS
  <2>2. ASSUME n.kind = "map", NEW k \in DOMAIN n.at
        PROVE  Has(f, n.at[k])
    BY <2>1, <2>2 DEF Makes
  <2>3. ASSUME n.kind = "map", NEW k \in DOMAIN n.at
        PROVE  n.at[k] \in D /\ h[n.at[k]] = f[n.at[k]]
    <3> HIDE DEF Has, D, h
    <3> QED  BY <2>2, <2>3, <1>1
  <2>4. MadeOf(f, leaf, n) = MadeOf(h, leaf, n)
    <3> HIDE DEF Has, D, h
    <3>1. n.kind = "map" => \A k \in DOMAIN n.at : f[n.at[k]] = h[n.at[k]]
      BY <2>3, Zenon
    <3> QED  BY <3>1, MadeOfParts
  <2>5. h[n] = f[n]
    BY <1>1, <2>1
  <2>6. f[n] = MadeOf(f, leaf, n)
    BY <2>1 DEF Makes
  <2> QED  BY <2>3, <2>4, <2>5, <2>6
<1>3. D = Nodes
  <2>1. SUFFICES ASSUME Nodes \ D # {} PROVE FALSE
    OBVIOUS
  <2>2. PICK n \in Nodes \ D : \A m \in Nodes \ D : <<m, n>> \notin PartOf
    BY <2>1, PartOfIsWellFounded, WFMin, Zenon
  <2>3. n.kind = "map" => \A k \in DOMAIN n.at : n.at[k] \in D
    BY <2>2, NodesAssumption DEF PartOf
  <2> DEFINE g == [m \in D \cup {n} |-> IF m \in D THEN h[m] ELSE MadeOf(h, leaf, n)]
  <2>4. ASSUME NEW m \in D \cup {n}
        PROVE  /\ g[m] = MadeOf(h, leaf, m)
               /\ m.kind = "map" => \A k \in DOMAIN m.at : m.at[k] \in D
    BY <1>2, <2>3
  <2>5. ASSUME NEW m \in D \cup {n}
        PROVE  MadeOf(g, leaf, m) = MadeOf(h, leaf, m)
    <3>1. m.kind = "map" => \A k \in DOMAIN m.at : g[m.at[k]] = h[m.at[k]]
      BY <2>4
    <3> HIDE DEF g, h
    <3> QED  BY <3>1, MadeOfParts
  <2>6. Makes(g, leaf)
    <3>1. DOMAIN g = D \cup {n}
      OBVIOUS
    <3>2. g = [m \in D \cup {n} |-> MadeOf(g, leaf, m)]
      BY <2>4, <2>5, Zenon
    <3> QED  BY <3>1, <3>2, <2>4 DEF Makes
  <2>7. Has(g, n)
    BY <2>6
  <2> QED  BY <2>7, <2>2
<1>4. h = [n \in Nodes |-> MadeOf(h, leaf, n)]
  BY <1>2, <1>3
<1> QED  BY <1>4

-----------------------------------------------------------------------------

\* What a convertor makes of a scalar or of null.
leafVariant(kind, n) ==
  IF n.kind = "scalar" THEN IF kind = "json" THEN jsonScalar(n) ELSE scalarToVariant(n)
                       ELSE Value("Null", "")

\* What toVariant says of a node.
LEMMA ToVariantEquation ==
  ASSUME NEW kind
  PROVE  \A n \in Nodes :
           toVariant(kind, n) =
             IF n.kind = "map"
             THEN [type |-> "QVariantMap", at |-> [k \in DOMAIN n.at |-> toVariant(kind, n.at[k])]]
             ELSE leafVariant(kind, n)
<1> DEFINE Leaf == [n \in Nodes |-> leafVariant(kind, n)]
           Down(f) == [n \in Nodes |->
        CASE n.kind = "map"    -> [type |-> "QVariantMap",
                                   at   |-> [k \in DOMAIN n.at |-> f[n.at[k]]]]
          [] n.kind = "scalar" -> IF kind = "json" THEN jsonScalar(n) ELSE scalarToVariant(n)
          [] n.kind = "null"   -> Value("Null", "")]
           v == CHOOSE f : f = Down(f)
<1>1. \E f : f = Down(f)
  <2>1. PICK f : f = [n \in Nodes |-> MadeOf(f, Leaf, n)]
    BY MadeOfAll
  <2>2. ASSUME NEW n \in Nodes PROVE MadeOf(f, Leaf, n) = Down(f)[n]
    BY DEF MadeOf, Nodes, leafVariant
  <2>3. f = Down(f)
    BY <2>1, <2>2
  <2> QED  BY <2>3
<1>2. v = Down(v)
  BY <1>1
<1>3. ASSUME NEW n PROVE toVariant(kind, n) = v[n]
  BY DEF toVariant
<1>4. ASSUME NEW n \in Nodes
      PROVE  v[n] = IF n.kind = "map"
                    THEN [type |-> "QVariantMap", at |-> [k \in DOMAIN n.at |-> v[n.at[k]]]]
                    ELSE leafVariant(kind, n)
  <2> HIDE DEF v
  <2>1. v[n] = Down(v)[n]
    BY <1>2, Zenon
  <2>2. MadeOf(v, Leaf, n) = Down(v)[n]
    BY DEF MadeOf, Nodes, leafVariant
  <2> QED  BY <2>1, <2>2 DEF MadeOf
<1> HIDE DEF v
<1> QED  BY <1>3, <1>4
-----------------------------------------------------------------------------

\* The values of one document in both formats: they agree, if it quotes words only.
LEMMA ScalarsAgree ==
  ASSUME NEW n, n.kind = "scalar",
         n.quoted \/ n.text \in {"true", "false"} \cup IntegerTexts,
         n.quoted => n.text \notin TrueTexts \cup FalseTexts \cup IntegerTexts \cup {""}
  PROVE  jsonScalar(n) = scalarToVariant(n)
<1>1. CASE n.quoted
  <2>1. jsonScalar(n) = Value("QString", n.text)
    BY <1>1 DEF jsonScalar
  <2>2. scalarToVariant(n) = Value("QString", n.text)
    BY <1>1 DEF scalarToVariant, TrueTexts, FalseTexts
  <2> QED  BY <2>1, <2>2
<1>2. CASE ~n.quoted /\ n.text \in IntegerTexts
  <2>1. n.text \notin TrueTexts \cup FalseTexts \cup {""}
    BY <1>2, IntegerTextsAssumption DEF YesTexts, NoTexts
  <2>2. n.text \notin {"true", "false"}
    BY <2>1 DEF TrueTexts, FalseTexts
  <2>3. jsonScalar(n) = Value("LongLong", n.text)
    BY <1>2, <2>2 DEF jsonScalar
  <2>4. scalarToVariant(n) = Value("LongLong", n.text)
    BY <1>2, <2>1 DEF scalarToVariant
  <2> QED  BY <2>3, <2>4
<1>3. CASE ~n.quoted /\ n.text \in {"true", "false"}
  <2>1. n.text \notin IntegerTexts
    BY <1>3, IntegerTextsAssumption DEF TrueTexts, FalseTexts, YesTexts, NoTexts
  <2>2. jsonScalar(n) = Value("Bool", n.text)
    BY <1>3 DEF jsonScalar
  <2>3. scalarToVariant(n) = Value("Bool", n.text)
    <3>1. CASE n.text = "true"
      BY <3>1, <2>1 DEF scalarToVariant, TrueTexts, FalseTexts
    <3>2. CASE n.text = "false"
      BY <3>2, <2>1 DEF scalarToVariant, TrueTexts, FalseTexts
    <3> QED  BY <1>3, <3>1, <3>2
  <2> QED  BY <2>2, <2>3
<1> QED  BY <1>1, <1>2, <1>3

\* ... all the way up.
LEMMA VariantsAgree ==
  \A n \in Nodes :
    isJson[n] /\ quotesWords[n] => toVariant("json", n) = toVariant("yaml", n)
<1> DEFINE T == {n \in Nodes : /\ isJson[n] /\ quotesWords[n]
                               /\ toVariant("json", n) # toVariant("yaml", n)}
<1>1. SUFFICES ASSUME T # {} PROVE FALSE
  OBVIOUS
<1>2. PICK n \in T : \A m \in T : <<m, n>> \notin PartOf
  BY <1>1, PartOfIsWellFounded, WFMin, Zenon
<1>3. CASE n.kind = "map"
  <2>1. ASSUME NEW k \in DOMAIN n.at
        PROVE  toVariant("json", n.at[k]) = toVariant("yaml", n.at[k])
    <3>1. n.at[k] \in Nodes
      BY <1>3, NodesAssumption
    <3>2. <<n.at[k], n>> \in PartOf
      BY <1>3, <3>1 DEF PartOf
    <3>3. isJson[n.at[k]] /\ quotesWords[n.at[k]]
      BY <1>3, IsJsonEquation, QuotesWordsEquation
    <3> QED  BY <1>2, <3>1, <3>2, <3>3
  <2>2. toVariant("json", n) = [type |-> "QVariantMap",
                                at |-> [k \in DOMAIN n.at |-> toVariant("json", n.at[k])]]
    BY <1>3, ToVariantEquation
  <2>3. toVariant("yaml", n) = [type |-> "QVariantMap",
                                at |-> [k \in DOMAIN n.at |-> toVariant("yaml", n.at[k])]]
    BY <1>3, ToVariantEquation
  <2> QED  BY <2>1, <2>2, <2>3
<1>4. CASE n.kind = "scalar"
  <2>1. jsonScalar(n) = scalarToVariant(n)
    BY <1>4, IsJsonEquation, QuotesWordsEquation, ScalarsAgree
  <2>2. toVariant("json", n) = jsonScalar(n) /\ toVariant("yaml", n) = scalarToVariant(n)
    BY <1>4, ToVariantEquation DEF leafVariant
  <2> QED  BY <2>1, <2>2
<1>5. CASE n.kind = "null"
  BY <1>5, ToVariantEquation DEF leafVariant
<1> QED  BY <1>3, <1>4, <1>5 DEF Nodes
-----------------------------------------------------------------------------

\* What is not a map has the text it had, whatever the format.
LEMMA LeafText ==
  ASSUME NEW n \in Nodes, n.kind = "scalar"
  PROVE  toVariant("json", n).text = n.text /\ toVariant("json", n).type # "QVariantMap"
<1>1. toVariant("json", n) = jsonScalar(n)
  BY ToVariantEquation DEF leafVariant
<1>2. \E type \in {"QString", "Bool", "LongLong"} : jsonScalar(n) = Value(type, n.text)
  <2>1. CASE n.quoted
    BY <2>1 DEF jsonScalar
  <2>2. CASE ~n.quoted /\ n.text \in {"true", "false"}
    BY <2>2 DEF jsonScalar
  <2>3. CASE ~n.quoted /\ n.text \notin {"true", "false"}
    BY <2>3 DEF jsonScalar
  <2> QED  BY <2>1, <2>2, <2>3
<1> QED  BY <1>1, <1>2 DEF Value

\* A map becomes a map of what its values become.
LEMMA MapVariant ==
  ASSUME NEW kind, NEW n \in Nodes, n.kind = "map"
  PROVE  /\ toVariant(kind, n).type = "QVariantMap"
         /\ toVariant(kind, n).at = [k \in DOMAIN n.at |-> toVariant(kind, n.at[k])]
<1>1. toVariant(kind, n) =
        [type |-> "QVariantMap", at |-> [k \in DOMAIN n.at |-> toVariant(kind, n.at[k])]]
  BY ToVariantEquation
<1> QED  BY <1>1

\* What a text of a document can be to the YAML side.
LEMMA ScalarKinds ==
  ASSUME NEW n
  PROVE  /\ n.text \in TrueTexts \cup {""} => scalarToVariant(n) = Value("Bool", "true")
         /\ n.text \in FalseTexts => scalarToVariant(n) = Value("Bool", "false")
         /\ n.text \in IntegerTexts => scalarToVariant(n) = Value("LongLong", n.text)
         /\ n.text \notin TrueTexts \cup FalseTexts \cup IntegerTexts \cup {""}
              => scalarToVariant(n) = Value("QString", n.text)
<1>1. /\ n.text \in TrueTexts \cup {""} => n.text \notin FalseTexts \cup IntegerTexts
      /\ n.text \in FalseTexts => n.text \notin TrueTexts \cup {""} \cup IntegerTexts
      /\ n.text \in IntegerTexts => n.text \notin TrueTexts \cup {""} \cup FalseTexts
  BY IntegerTextsAssumption DEF TrueTexts, FalseTexts, YesTexts, NoTexts
<1>2. CASE n.text \in TrueTexts \cup {""}
  BY <1>1, <1>2 DEF scalarToVariant
<1>3. CASE n.text \in FalseTexts
  BY <1>1, <1>3 DEF scalarToVariant
<1>4. CASE n.text \in IntegerTexts
  BY <1>1, <1>4 DEF scalarToVariant
<1>5. CASE n.text \notin TrueTexts \cup FalseTexts \cup IntegerTexts \cup {""}
  BY <1>5 DEF scalarToVariant
<1> QED  BY <1>1, <1>2, <1>3, <1>4, <1>5

\* Only maps become maps.
LEMMA OnlyMapsAreMaps ==
  ASSUME NEW kind, NEW n \in Nodes, toVariant(kind, n).type = "QVariantMap"
  PROVE  n.kind = "map"
<1> SUFFICES ASSUME n.kind # "map" PROVE FALSE
  OBVIOUS
<1>1. toVariant(kind, n) = leafVariant(kind, n)
  BY ToVariantEquation
<1>2. /\ Value("QString", n.text).type = "QString"
      /\ Value("LongLong", n.text).type = "LongLong"
      /\ Value("Bool", n.text).type = "Bool"
      /\ Value("Bool", "true").type = "Bool"
      /\ Value("Bool", "false").type = "Bool"
      /\ Value("Null", "").type = "Null"
  BY DEF Value
<1>3. jsonScalar(n) \in {Value("QString", n.text), Value("Bool", n.text), Value("LongLong", n.text)}
  BY DEF jsonScalar
<1>4. scalarToVariant(n) \in {Value("QString", n.text), Value("Bool", "true"),
                              Value("Bool", "false"), Value("LongLong", n.text)}
  BY ScalarKinds
<1>5. n.kind = "scalar" => leafVariant(kind, n) \in {jsonScalar(n), scalarToVariant(n)}
  BY DEF leafVariant
<1>6. n.kind # "scalar" => leafVariant(kind, n) = Value("Null", "")
  BY DEF leafVariant
<1> QED  BY <1>1, <1>2, <1>3, <1>4, <1>5, <1>6

\* What both take for a text is the same text.
LEMMA WordsAgree ==
  ASSUME NEW n \in Nodes,
         toVariant("json", n).type = "QString", toVariant("yaml", n).type = "QString"
  PROVE  toVariant("json", n).text = toVariant("yaml", n).text
<1>1. n.kind = "scalar"
  <2>1. CASE n.kind = "map"
    <3>1. toVariant("json", n).type = "QVariantMap"
      BY <2>1, MapVariant
    <3> QED  BY <3>1
  <2>2. CASE n.kind = "null"
    <3>1. toVariant("json", n) = Value("Null", "")
      BY <2>2, ToVariantEquation DEF leafVariant
    <3>2. Value("Null", "").type = "Null"
      BY DEF Value
    <3> QED  BY <3>1, <3>2
  <2> QED  BY <2>1, <2>2 DEF Nodes
<1>2. toVariant("yaml", n) = scalarToVariant(n)
  BY <1>1, ToVariantEquation DEF leafVariant
<1>3. scalarToVariant(n) = Value("QString", n.text)
  <2>1. /\ Value("Bool", "true").type = "Bool"
        /\ Value("Bool", "false").type = "Bool"
        /\ Value("LongLong", n.text).type = "LongLong"
    BY DEF Value
  <2> QED  BY <1>2, <2>1, ScalarKinds
<1>4. Value("QString", n.text).text = n.text
  BY DEF Value
<1> QED  BY <1>1, <1>2, <1>3, <1>4, LeafText

\* A command is restarted if its restart has become this.
restarts(v) == v.type = "Bool" /\ toBool(v)

\* A restart differs exactly if it is a quoted text that YAML takes for true.
LEMMA RestartDiffers ==
  ASSUME NEW n \in Nodes, isJson[n]
  PROVE  restarts(toVariant("json", n)) # restarts(toVariant("yaml", n))
           <=> isScalar(n) /\ n.quoted /\ n.text \in TrueTexts \cup {""}
<1>1. /\ Value("QString", n.text).type = "QString"
      /\ Value("LongLong", n.text).type = "LongLong"
      /\ Value("Bool", "true").type = "Bool" /\ Value("Bool", "true").text = "true"
      /\ Value("Bool", "false").type = "Bool" /\ Value("Bool", "false").text = "false"
  BY DEF Value
<1>2. CASE n.kind = "scalar" /\ n.quoted
  <2>1. ~restarts(toVariant("json", n))
    <3>1. toVariant("json", n) = Value("QString", n.text)
      BY <1>2, ToVariantEquation DEF leafVariant, jsonScalar
    <3> QED  BY <3>1, <1>1 DEF restarts
  <2>2. restarts(toVariant("yaml", n)) <=> n.text \in TrueTexts \cup {""}
    <3>1. toVariant("yaml", n) = scalarToVariant(n)
      BY <1>2, ToVariantEquation DEF leafVariant
    <3>2. CASE n.text \in TrueTexts \cup {""}
      <4>1. toVariant("yaml", n) = Value("Bool", "true")
        BY <3>1, <3>2, ScalarKinds
      <4>2. toBool(Value("Bool", "true"))
        BY <1>1 DEF toBool
      <4> QED  BY <3>2, <4>1, <4>2, <1>1 DEF restarts
    <3>3. CASE n.text \in FalseTexts
      <4>1. toVariant("yaml", n) = Value("Bool", "false")
        BY <3>1, <3>3, ScalarKinds
      <4>2. ~toBool(Value("Bool", "false"))
        BY <1>1 DEF toBool
      <4>3. n.text \notin TrueTexts \cup {""}
        BY <3>3 DEF TrueTexts, FalseTexts
      <4> QED  BY <4>1, <4>2, <4>3 DEF restarts
    <3>4. CASE n.text \notin TrueTexts \cup {""} \cup FalseTexts
      <4>1. toVariant("yaml", n) \in {Value("LongLong", n.text), Value("QString", n.text)}
        BY <3>1, <3>4, ScalarKinds
      <4>2. toVariant("yaml", n).type # "Bool"
        BY <4>1, <1>1
      <4> QED  BY <3>4, <4>2 DEF restarts
    <3> QED  BY <3>2, <3>3, <3>4
  <2> QED  BY <1>2, <2>1, <2>2 DEF isScalar, restarts
<1>3. CASE ~(n.kind = "scalar" /\ n.quoted)
  <2>1. CASE n.kind = "scalar"
    <3>1. n.text \in {"true", "false"} \cup IntegerTexts
      BY <1>3, <2>1, IsJsonEquation
    <3>2. jsonScalar(n) = scalarToVariant(n)
      BY <1>3, <2>1, <3>1, ScalarsAgree
    <3>3. toVariant("json", n) = toVariant("yaml", n)
      BY <2>1, <3>2, ToVariantEquation DEF leafVariant
    <3>4. ~(isScalar(n) /\ n.quoted)
      BY <1>3 DEF isScalar
    <3>5. restarts(toVariant("json", n)) = restarts(toVariant("yaml", n))
      BY <3>3
    <3> QED  BY <3>4, <3>5
  <2>2. CASE n.kind = "map"
    <3>1. ~restarts(toVariant("json", n)) /\ ~restarts(toVariant("yaml", n))
      BY <2>2, MapVariant DEF restarts
    <3> QED  BY <2>2, <3>1 DEF isScalar, restarts
  <2>3. CASE n.kind = "null"
    <3>1. toVariant("json", n) = toVariant("yaml", n)
      BY <2>3, ToVariantEquation DEF leafVariant
    <3> QED  BY <2>3, <3>1 DEF isScalar
  <2> QED  BY <2>1, <2>2, <2>3 DEF Nodes
<1> QED  BY <1>2, <1>3

\* A reconnect that is a bool to YAML differs exactly if it is a quoted no.
LEMMA ReconnectDiffers ==
  ASSUME NEW n \in Nodes, isJson[n], isBool(n)
  PROVE  ~(toBool(toVariant("json", n)) <=> n.text \in YesTexts)
           <=> n.quoted /\ n.text \in NoTexts \ {"false"}
<1>1. n.kind = "scalar" /\ n.text \in YesTexts \cup NoTexts
  BY DEF isBool, isScalar
<1>2. toVariant("json", n) = jsonScalar(n)
  BY <1>1, ToVariantEquation DEF leafVariant
<1>3. /\ Value("QString", n.text).type = "QString" /\ Value("QString", n.text).text = n.text
      /\ Value("Bool", n.text).type = "Bool" /\ Value("Bool", n.text).text = n.text
  BY DEF Value
<1>4. CASE n.quoted
  <2>1. jsonScalar(n) = Value("QString", n.text)
    BY <1>4 DEF jsonScalar
  <2>2. toBool(Value("QString", n.text)) = (n.text \notin {"", "0", "false"})
    BY <1>3 DEF toBool
  <2>3. n.text \notin {"", "0", "false"} <=> n.text # "false"
    BY <1>1 DEF YesTexts, NoTexts, TrueTexts, FalseTexts
  <2>4. n.text \in YesTexts <=> n.text \notin NoTexts
    BY <1>1 DEF YesTexts, NoTexts, TrueTexts, FalseTexts
  <2>5. "false" \in NoTexts
    BY DEF NoTexts, FalseTexts
  <2>6. toBool(toVariant("json", n)) = (n.text # "false")
    BY <1>2, <2>1, <2>2, <2>3
  <2> QED  BY <1>4, <2>4, <2>5, <2>6
<1>5. CASE ~n.quoted
  <2>1. n.text \in {"true", "false"}
    BY <1>1, <1>5, IsJsonEquation, IntegerTextsAssumption
  <2>2. jsonScalar(n) = Value("Bool", n.text)
    BY <1>5, <2>1 DEF jsonScalar
  <2>3. toBool(Value("Bool", n.text)) = (n.text = "true")
    BY <1>3 DEF toBool
  <2>4. n.text \in YesTexts <=> n.text = "true"
    BY <2>1 DEF YesTexts, TrueTexts
  <2> QED  BY <1>2, <1>5, <2>2, <2>3, <2>4
<1> QED  BY <1>4, <1>5

-----------------------------------------------------------------------------

\* The maps j and y are what a map of nodes m has become as JSON and as YAML.
FieldsOf(m, j, y) ==
  /\ DOMAIN j = DOMAIN m /\ \A f \in DOMAIN m : j[f] = toVariant("json", m[f])
  /\ DOMAIN y = DOMAIN m /\ \A f \in DOMAIN m : y[f] = toVariant("yaml", m[f])

\* The parameters in them differ only if they quote what is not a word to YAML.
LEMMA ParametersAgree ==
  ASSUME NEW m, NEW j, NEW y, FieldsOf(m, j, y),
         has(m, "parameters") =>
           m["parameters"] \in Nodes /\ isJson[m["parameters"]] /\ quotesWords[m["parameters"]]
  PROVE  toMap(j, "parameters") = toMap(y, "parameters")
<1>1. CASE has(m, "parameters")
  <2>1. toVariant("json", m["parameters"]) = toVariant("yaml", m["parameters"])
    BY <1>1, VariantsAgree
  <2>2. "parameters" \in DOMAIN m
    BY <1>1 DEF has
  <2>3. j["parameters"] = y["parameters"] /\ "parameters" \in DOMAIN j /\ "parameters" \in DOMAIN y
    BY <2>1, <2>2 DEF FieldsOf
  <2> QED  BY <2>3 DEF toMap, has
<1>2. CASE ~has(m, "parameters")
  BY <1>2 DEF toMap, has, FieldsOf
<1> QED  BY <1>1, <1>2

\* What becomes of the restart among the fields of a command.
restarted(c) == has(c, "restart") /\ c["restart"].type = "Bool" /\ toBool(c["restart"])

\* One command, to both convertors.
commandOf(c) ==
  [exec       |-> c["exec"].text,
   extension  |-> c["extension"].text,
   parameters |-> toMap(c, "parameters"),
   restart    |-> has(c, "restart") /\ c["restart"].type = "Bool" /\ toBool(c["restart"])]

LEMMA CommandAgrees ==
  ASSUME NEW n \in Nodes, isJson[n],
         commandAccepted(toVariant("json", n)), commandAccepted(toVariant("yaml", n))
  PROVE  sameCommand(n.at, commandOf(toVariant("json", n).at), commandOf(toVariant("yaml", n).at))
<1> DEFINE m == n.at
           j == toVariant("json", n).at
           y == toVariant("yaml", n).at
<1>1. n.kind = "map"
  BY OnlyMapsAreMaps DEF commandAccepted, isMap
<1>2. j = [f \in DOMAIN m |-> toVariant("json", m[f])] /\ y = [f \in DOMAIN m |-> toVariant("yaml", m[f])]
  BY <1>1, MapVariant
<1>3. FieldsOf(m, j, y)
  BY <1>2 DEF FieldsOf
<1>4. \A f \in DOMAIN m : m[f] \in Nodes /\ isJson[m[f]]
  BY <1>1, NodesAssumption, IsJsonEquation
<1>5. \A f \in {"exec", "extension"} :
        f \in DOMAIN j /\ f \in DOMAIN y /\ j[f].type = "QString" /\ y[f].type = "QString"
  BY DEF commandAccepted, has
<1> HIDE DEF m, j, y
<1>6. ASSUME NEW f \in {"exec", "extension"}
      PROVE  j[f].text = y[f].text
  <2>1. f \in DOMAIN m /\ j[f] = toVariant("json", m[f]) /\ y[f] = toVariant("yaml", m[f])
    BY <1>3, <1>5 DEF FieldsOf
  <2> QED  BY <2>1, <1>4, <1>5, WordsAgree
<1>7. restarted(j) # restarted(y) <=> quotes(m, "restart", TrueTexts \cup {""})
  <2>1. CASE has(m, "restart")
    <3>1. /\ "restart" \in DOMAIN j /\ j["restart"] = toVariant("json", m["restart"])
          /\ "restart" \in DOMAIN y /\ y["restart"] = toVariant("yaml", m["restart"])
          /\ "restart" \in DOMAIN m
      BY <2>1, <1>3 DEF FieldsOf, has
    <3>2. restarts(j["restart"]) # restarts(y["restart"])
            <=> isScalar(m["restart"]) /\ m["restart"].quoted /\ m["restart"].text \in TrueTexts \cup {""}
      BY <3>1, <1>4, RestartDiffers
    <3>3. restarted(j) = restarts(j["restart"]) /\ restarted(y) = restarts(y["restart"])
      BY <3>1 DEF restarted, restarts, has
    <3> QED  BY <2>1, <3>2, <3>3 DEF quotes
  <2>2. CASE ~has(m, "restart")
    <3>1. ~has(j, "restart") /\ ~has(y, "restart")
      BY <2>2, <1>3 DEF has, FieldsOf
    <3> QED  BY <2>2, <3>1 DEF restarted, quotes
  <2> QED  BY <2>1, <2>2
<1>8. sameParameters(m, commandOf(j), commandOf(y))
  <2>1. commandOf(j).parameters = toMap(j, "parameters") /\ commandOf(y).parameters = toMap(y, "parameters")
    BY DEF commandOf
  <2>2. SUFFICES ASSUME has(m, "parameters") => quotesWords[m["parameters"]]
                 PROVE  toMap(j, "parameters") = toMap(y, "parameters")
    BY <2>1 DEF sameParameters
  <2>3. has(m, "parameters") =>
          m["parameters"] \in Nodes /\ isJson[m["parameters"]] /\ quotesWords[m["parameters"]]
    BY <2>2, <1>4 DEF has
  <2> QED  BY <2>3, <1>3, ParametersAgree
<1>9. /\ commandOf(j).exec = j["exec"].text /\ commandOf(y).exec = y["exec"].text
      /\ commandOf(j).extension = j["extension"].text /\ commandOf(y).extension = y["extension"].text
      /\ commandOf(j).restart = restarted(j) /\ commandOf(y).restart = restarted(y)
  BY DEF commandOf, restarted
<1>10. sameCommand(m, commandOf(j), commandOf(y))
  BY <1>6, <1>7, <1>8, <1>9 DEF sameCommand
<1> QED  BY <1>10 DEF m, j, y

\* The commands of a source, to both convertors.
LEMMA CommandsAgree ==
  ASSUME NEW n \in Nodes, isJson[n], n.kind = "map",
         commandsAccepted(toVariant("json", n).at), commandsAccepted(toVariant("yaml", n).at)
  PROVE  LET j == getCommands(toVariant("json", n).at)
             y == getCommands(toVariant("yaml", n).at)
         IN  /\ DOMAIN j = DOMAIN y
             /\ \A id \in DOMAIN y : sameCommand(n.at[id].at, j[id], y[id])
<1> DEFINE m == n.at
           j == toVariant("json", n).at
           y == toVariant("yaml", n).at
<1>1. j = [f \in DOMAIN m |-> toVariant("json", m[f])] /\ y = [f \in DOMAIN m |-> toVariant("yaml", m[f])]
  BY MapVariant
<1>2. FieldsOf(m, j, y)
  BY <1>1 DEF FieldsOf
<1>3. \A f \in DOMAIN m : m[f] \in Nodes /\ isJson[m[f]]
  BY NodesAssumption, IsJsonEquation
<1>4. \A id \in DOMAIN m : commandAccepted(j[id]) /\ commandAccepted(y[id])
  BY <1>2 DEF commandsAccepted, FieldsOf
<1> HIDE DEF m, j, y
<1>5. getCommands(j) = [id \in DOMAIN j |-> commandOf(j[id].at)]
  BY DEF getCommands, commandOf
<1>6. getCommands(y) = [id \in DOMAIN y |-> commandOf(y[id].at)]
  BY DEF getCommands, commandOf
<1>7. DOMAIN getCommands(j) = DOMAIN m /\ DOMAIN getCommands(y) = DOMAIN m
  BY <1>2, <1>5, <1>6 DEF FieldsOf
<1>8. ASSUME NEW id \in DOMAIN m
      PROVE  sameCommand(m[id].at, getCommands(j)[id], getCommands(y)[id])
  <2>1. j[id] = toVariant("json", m[id]) /\ y[id] = toVariant("yaml", m[id])
    BY <1>2 DEF FieldsOf
  <2>2. sameCommand(m[id].at, commandOf(toVariant("json", m[id]).at),
                              commandOf(toVariant("yaml", m[id]).at))
    BY <2>1, <1>3, <1>4, CommandAgrees
  <2>3. getCommands(j)[id] = commandOf(j[id].at) /\ getCommands(y)[id] = commandOf(y[id].at)
    BY <1>2, <1>5, <1>6 DEF FieldsOf
  <2> QED  BY <2>1, <2>2, <2>3
<1> QED  BY <1>7, <1>8 DEF m, j, y

\* One source, to both convertors.
LEMMA SourceAgrees ==
  ASSUME NEW n \in Nodes, isJson[n],
         jsonSourceAccepted(toVariant("json", n)), yamlSourceAccepted(n)
  PROVE  sameSource(n.at, jsonSource(toVariant("json", n).at), yamlSource(n.at))
<1> DEFINE m == n.at
           v == toVariant("json", n).at
           j == jsonSource(v)
           y == yamlSource(m)
<1>1. n.kind = "map"
  BY DEF yamlSourceAccepted
<1>2. v = [f \in DOMAIN m |-> toVariant("json", m[f])]
  BY <1>1, MapVariant
<1>3. DOMAIN v = DOMAIN m /\ \A f \in DOMAIN m : v[f] = toVariant("json", m[f])
  BY <1>2
<1>4. \A f \in DOMAIN m : m[f] \in Nodes /\ isJson[m[f]]
  BY <1>1, NodesAssumption, IsJsonEquation
<1>5. /\ has(m, "type") /\ isScalar(m["type"])
      /\ has(m, "host") => isScalar(m["host"])
      /\ has(m, "reconnect") => isBool(m["reconnect"])
      /\ has(m, "parameters") => m["parameters"].kind = "map"
      /\ has(m, "commands") /\ m["commands"].kind = "map"
      /\ commandsAccepted(variants(m["commands"])) /\ commandsAccepted(v["commands"].at)
  BY DEF yamlSourceAccepted, jsonSourceAccepted
<1> HIDE DEF m, v
<1>6. j.type = y.type
  <2>1. "type" \in DOMAIN m /\ m["type"].kind = "scalar"
    BY <1>5 DEF has, isScalar
  <2>2. v["type"].text = m["type"].text
    BY <2>1, <1>3, <1>4, LeafText
  <2> QED  BY <2>2 DEF jsonSource, yamlSource
<1>7. j.host = y.host
  <2>1. CASE has(m, "host")
    <3>1. "host" \in DOMAIN m /\ m["host"].kind = "scalar"
      BY <2>1, <1>5 DEF has, isScalar
    <3>2. v["host"].text = m["host"].text /\ v["host"].type # "QVariantMap"
      BY <3>1, <1>3, <1>4, LeafText
    <3>3. toText(v, "host") = m["host"].text
      BY <3>1, <3>2, <1>3 DEF toText, has, isMap
    <3> QED  BY <2>1, <3>3 DEF jsonSource, yamlSource
  <2>2. CASE ~has(m, "host")
    <3>1. toText(v, "host") = ""
      BY <2>2, <1>3 DEF toText, has
    <3> QED  BY <2>2, <3>1 DEF jsonSource, yamlSource
  <2> QED  BY <2>1, <2>2
<1>8. j.reconnect # y.reconnect <=> quotes(m, "reconnect", NoTexts \ {"false"})
  <2>1. /\ j.reconnect = (has(v, "reconnect") /\ toBool(v["reconnect"]))
        /\ y.reconnect = (has(m, "reconnect") /\ m["reconnect"].text \in YesTexts)
    BY DEF jsonSource, yamlSource
  <2>2. CASE has(m, "reconnect")
    <3>1. "reconnect" \in DOMAIN m /\ isBool(m["reconnect"]) /\ isScalar(m["reconnect"])
      BY <2>2, <1>5 DEF has, isBool
    <3>2. v["reconnect"] = toVariant("json", m["reconnect"]) /\ has(v, "reconnect")
      BY <3>1, <1>3 DEF has
    <3>3. ~(toBool(v["reconnect"]) <=> m["reconnect"].text \in YesTexts)
            <=> m["reconnect"].quoted /\ m["reconnect"].text \in NoTexts \ {"false"}
      BY <3>1, <3>2, <1>4, ReconnectDiffers
    <3>4. j.reconnect # y.reconnect
            <=> ~(toBool(v["reconnect"]) <=> m["reconnect"].text \in YesTexts)
      <4> HIDE DEF j, y
      <4> QED  BY <2>1, <2>2, <3>2
    <3> QED  BY <2>2, <3>1, <3>3, <3>4 DEF quotes
  <2>3. CASE ~has(m, "reconnect")
    <3>1. ~has(v, "reconnect")
      BY <2>3, <1>3 DEF has
    <3> QED  BY <2>1, <2>3, <3>1 DEF quotes
  <2> QED  BY <2>2, <2>3
<1>9. sameParameters(m, j, y)
  <2>1. SUFFICES ASSUME has(m, "parameters") => quotesWords[m["parameters"]]
                 PROVE  j.parameters = y.parameters
    BY DEF sameParameters
  <2>2. CASE has(m, "parameters")
    <3>1. "parameters" \in DOMAIN m /\ m["parameters"].kind = "map"
      BY <2>2, <1>5 DEF has
    <3>2. m["parameters"] \in Nodes /\ isJson[m["parameters"]] /\ quotesWords[m["parameters"]]
      BY <2>1, <2>2, <3>1, <1>4
    <3>3. v["parameters"] = toVariant("yaml", m["parameters"])
      BY <3>1, <3>2, <1>3, VariantsAgree
    <3>4. v["parameters"].type = "QVariantMap"
      <4>1. toVariant("yaml", m["parameters"]).type = "QVariantMap"
        BY <3>1, <3>2, MapVariant
      <4> QED  BY <3>3, <4>1
    <3>5. toMap(v, "parameters") = variants(m["parameters"])
      BY <3>1, <3>3, <3>4, <1>3 DEF toMap, has, isMap, variants
    <3> QED  BY <2>2, <3>5 DEF jsonSource, yamlSource
  <2>3. CASE ~has(m, "parameters")
    <3>1. toMap(v, "parameters") = NoFields
      BY <2>3, <1>3 DEF toMap, has
    <3> QED  BY <2>3, <3>1 DEF jsonSource, yamlSource
  <2> QED  BY <2>2, <2>3
<1>10. /\ DOMAIN j.commands = DOMAIN y.commands
       /\ \A id \in DOMAIN y.commands :
            sameCommand(m["commands"].at[id].at, j.commands[id], y.commands[id])
  <2>1. "commands" \in DOMAIN m /\ m["commands"] \in Nodes /\ isJson[m["commands"]]
    BY <1>4, <1>5 DEF has
  <2>2. v["commands"] = toVariant("json", m["commands"])
    BY <2>1, <1>3
  <2>3. /\ j.commands = getCommands(toVariant("json", m["commands"]).at)
        /\ y.commands = getCommands(toVariant("yaml", m["commands"]).at)
    BY <2>2 DEF jsonSource, yamlSource, variants
  <2>4. /\ commandsAccepted(toVariant("json", m["commands"]).at)
        /\ commandsAccepted(toVariant("yaml", m["commands"]).at)
    BY <2>2, <1>5 DEF variants
  <2> HIDE DEF j, y
  <2> QED  BY <2>1, <2>3, <2>4, <1>5, CommandsAgree
<1> HIDE DEF j, y
<1>11. sameSource(m, j, y)
  BY <1>6, <1>7, <1>8, <1>9, <1>10 DEF sameSource
<1> QED  BY <1>11 DEF m, v, j, y

\* One document, to both convertors.
LEMMA DocumentAgrees ==
  ASSUME NEW root \in Nodes, jsonAccepts(root), yamlAccepts(root)
  PROVE  LET m == root.at["sources"].at IN
         /\ DOMAIN json(root) = DOMAIN m /\ DOMAIN yaml(root) = DOMAIN m
         /\ \A id \in DOMAIN m : sameSource(m[id].at, json(root)[id], yaml(root)[id])
<1> DEFINE s == root.at["sources"]
           m == toVariant("json", root).at["sources"].at
<1>1. /\ root.kind = "map" /\ "sources" \in DOMAIN root.at /\ s.kind = "map"
      /\ \A id \in DOMAIN s.at : yamlSourceAccepted(s.at[id])
  BY DEF yamlAccepts, has
<1>2. isJson[root] /\ \A id \in DOMAIN m : jsonSourceAccepted(m[id])
  BY DEF jsonAccepts
<1>3. s \in Nodes /\ isJson[s]
  BY <1>1, <1>2, NodesAssumption, IsJsonEquation
<1>4. \A id \in DOMAIN s.at : s.at[id] \in Nodes /\ isJson[s.at[id]]
  BY <1>1, <1>3, NodesAssumption, IsJsonEquation
<1>5. toVariant("json", root).at["sources"] = toVariant("json", s)
  <2>1. toVariant("json", root).at = [k \in DOMAIN root.at |-> toVariant("json", root.at[k])]
    BY <1>1, MapVariant
  <2> QED  BY <2>1, <1>1
<1>6. m = [id \in DOMAIN s.at |-> toVariant("json", s.at[id])]
  BY <1>1, <1>3, <1>5, MapVariant
<1>7. DOMAIN m = DOMAIN s.at /\ \A id \in DOMAIN s.at : m[id] = toVariant("json", s.at[id])
  BY <1>6
<1>8. json(root) = [id \in DOMAIN m |-> jsonSource(m[id].at)]
  BY DEF json
<1>9. yaml(root) = [id \in DOMAIN s.at |-> yamlSource(s.at[id].at)]
  BY DEF yaml
<1> HIDE DEF m, s
<1>10. DOMAIN json(root) = DOMAIN s.at /\ DOMAIN yaml(root) = DOMAIN s.at
  BY <1>7, <1>8, <1>9
<1>11. ASSUME NEW id \in DOMAIN s.at
       PROVE  sameSource(s.at[id].at, json(root)[id], yaml(root)[id])
  <2>1. jsonSourceAccepted(toVariant("json", s.at[id])) /\ yamlSourceAccepted(s.at[id])
    BY <1>1, <1>2, <1>7
  <2>2. sameSource(s.at[id].at, jsonSource(toVariant("json", s.at[id]).at), yamlSource(s.at[id].at))
    BY <2>1, <1>4, SourceAgrees
  <2>3. json(root)[id] = jsonSource(toVariant("json", s.at[id]).at) /\ yaml(root)[id] = yamlSource(s.at[id].at)
    BY <1>7, <1>8, <1>9
  <2> QED  BY <2>2, <2>3
<1> QED  BY <1>10, <1>11 DEF s

\* A document that both convertors accept means the same to both, but for the quoted
\* texts that YAML does not take for texts, and those differ exactly as FormatsAgree
\* says (Sources.cpp: json against yaml): for documents that are finite trees,
\* whatever they hold and however deep they are.
THEOREM FormatsMeanTheSame == FrontSpec => []FormatsAgree
<1>1. ConsoleTypeOK => FormatsAgree
  <2> SUFFICES ASSUME text \in Documents, jsonAccepts(text), yamlAccepts(text)
               PROVE  LET m == text.at["sources"].at IN
                      /\ DOMAIN json(text) = DOMAIN m /\ DOMAIN yaml(text) = DOMAIN m
                      /\ \A id \in DOMAIN m : sameSource(m[id].at, json(text)[id], yaml(text)[id])
    BY DEF FormatsAgree, ConsoleTypeOK, TypeOK
  <2>1. text \in Nodes
    BY DocumentsAssumption
  <2> QED  BY <2>1, DocumentAgrees
<1> QED  BY <1>1, FrontTypeCorrect, PTL
=============================================================================
