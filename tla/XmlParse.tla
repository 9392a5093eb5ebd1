------------------------------ MODULE XmlParse ------------------------------
(***************************************************************************)
(* XmlParse (src/xml/xmlparse.cpp): finding a node by its tag and walking  *)
(* over its children with a functor of the caller's, which may change the  *)
(* very children that are walked over.  A node is a number, known to the   *)
(* caller; the children of a node are in document order.                   *)
(***************************************************************************)
EXTENDS Naturals, Filters, SequencesExt, FiniteSetsExt

CONSTANTS
    Tags,
    MaxChildren,   \* bound on the children of a node at first
    MaxNodes       \* bound on the nodes that are ever children

ASSUME MaxNodesAssumption == MaxNodes \in Nat /\ MaxChildren \in 0..MaxNodes

VARIABLES
    parent,    \* the nodes below parent: kind, tag, children
    tag,       \* of the node whose children are walked over, or NoTag
    child,     \* the child at hand, or 0
    nodes,     \* number of nodes there have been
    visited,   \* history: the children the functor was given
    changed,   \* history: the functor changed the children
    left       \* history: the functor removed the child it was given

parseVars == <<parent, tag, child, nodes, visited, changed, left>>

Kinds    == {"element", "comment", "text"}
NoTag    == "no tag"
Children == [id : 1..MaxNodes, kind : Kinds]

ElementNodes == {n \in Children : n.kind = "element"}

ParseTypeOK ==
    /\ parent \in Seq([kind : Kinds, tag : Tags, children : Seq(Children)])
    /\ tag \in Tags \union {NoTag}
    /\ child \in 0..MaxNodes /\ nodes \in 0..MaxNodes
    /\ visited \in Seq(1..MaxNodes)
    /\ changed \in BOOLEAN /\ left \in BOOLEAN
    /\ left => changed

NodeIds(nodeList) == [i \in DOMAIN nodeList |-> nodeList[i].id]
IsElement(n)  == n.kind = "element"

-----------------------------------------------------------------------------
(* The node of that tag: an element, the first of them; 0 if there is none. *)
FirstChildElement(t) ==
    LET found == {i \in DOMAIN parent : IsElement(parent[i]) /\ parent[i].tag = t}
    IN  IF found = {} THEN 0 ELSE Min(found)

\* The first and the next in the list; no node follows one that is not in it.
FirstChild(nodeList) == IF nodeList = <<>> THEN 0 ELSE nodeList[1].id

NextSibling(nodeList, id) ==
    LET next == {i \in DOMAIN nodeList : i > 1 /\ nodeList[i - 1].id = id}
    IN  IF next = {} THEN 0 ELSE nodeList[Min(next)].id

\* The default list for a node that is not there, or has no children at all.
ParseArray(t, defList) ==
    LET strArrNode == FirstChildElement(t)
    IN  IF strArrNode = 0 \/ parent[strArrNode].children = <<>> THEN defList
        ELSE NodeIds(Filter(parent[strArrNode].children, ElementNodes))

NotWalking ==
    /\ tag = NoTag
    /\ child = 0
    /\ nodes = MaxChildren
    /\ visited = <<>>
    /\ changed = FALSE /\ left = FALSE

ParseInit ==
    /\ NotWalking
    /\ \E n \in 0..MaxChildren, firstTag \in Tags, firstKind \in Kinds, secondTag \in Tags :
           \E kinds \in [1..n -> Kinds] :
               LET list == [i \in 1..n |-> [id |-> i, kind |-> kinds[i]]]
               IN  parent = <<[kind |-> firstKind, tag |-> firstTag, children |-> list],
                              [kind |-> "element", tag |-> secondTag, children |-> list]>>

\* Without a node of that tag there is no call.
ParseNode(t) ==
    /\ tag = NoTag
    /\ FirstChildElement(t) # 0
    /\ tag' = t
    /\ child' = FirstChild(parent[FirstChildElement(t)].children)
    /\ UNCHANGED <<parent, nodes, visited, changed, left>>

-----------------------------------------------------------------------------
(* One turn of callForEachChild: the functor is called for an element, and  *)
(* the next sibling is looked up after that.                                *)
Walked == parent[FirstChildElement(tag)].children

SetChildren(list) ==
    /\ parent' = [parent EXCEPT ![FirstChildElement(tag)].children = list]
    /\ changed' = TRUE

\* What the functor does with the children: nothing, add or remove one.
Keep ==
    /\ left' = FALSE
    /\ UNCHANGED <<parent, nodes, changed>>

AppendChild ==
    /\ nodes < MaxNodes
    /\ nodes' = nodes + 1
    /\ SetChildren(Append(Walked, [id |-> nodes + 1, kind |-> "element"]))
    /\ left' = FALSE

RemoveChild(n) ==
    /\ SetChildren(Filter(Walked, Children \ {n}))
    /\ left' = (n.id = child)
    /\ UNCHANGED nodes

VisitMutant(n) ==  \* goes on with the sibling of before the call
    /\ n.id = child /\ IsElement(n)
    /\ UNCHANGED tag
    /\ visited' = Append(visited, child)
    /\ Keep \/ AppendChild \/ \E m \in ToSet(Walked) : RemoveChild(m)
    /\ child' = NextSibling(Walked, child)

Visit(n) ==
    /\ n.id = child /\ IsElement(n)
    /\ UNCHANGED tag
    /\ visited' = Append(visited, child)
    /\ Keep \/ AppendChild \/ \E m \in ToSet(Walked) : RemoveChild(m)
    /\ child' = NextSibling(Walked', child)

Skip(n) ==
    /\ n.id = child /\ ~IsElement(n)
    /\ child' = NextSibling(Walked, child)
    /\ UNCHANGED <<parent, tag, nodes, visited, changed, left>>

ParseNext ==
    \/ \E t \in Tags : ParseNode(t)
    \/ tag # NoTag /\ \E n \in ToSet(Walked) : Visit(n) \/ Skip(n)

ParseSpec == ParseInit /\ [][ParseNext]_parseVars

-----------------------------------------------------------------------------
(* A walk that is over has been at every element that is still there, those *)
(* the functor added too, each once and in order, whatever the functor      *)
(* removed, unless the last thing it did was to remove the child it was     *)
(* given: that ends the walk.  Nothing is visited that parseArray does not  *)
(* list as well, as long as nothing was changed.                            *)
WalksComplete ==
    tag # NoTag /\ child = 0 =>
        LET still == Filter(visited, ToSet(NodeIds(Walked)))
            all   == NodeIds(Filter(Walked, ElementNodes))
        IN  /\ IF left THEN IsPrefix(still, all) ELSE still = all
            /\ ~changed => visited = ParseArray(tag, <<>>)
=============================================================================
