-------------------------------- MODULE Xml --------------------------------
(***************************************************************************)
(* XmlAttr (src/xml/xmlattr.cpp) on the document XmlBase parsed from the   *)
(* caller's bytes: new values for the parameters inside an attribute, such *)
(* as the colours in the style of an SVG path, and for whole attributes.   *)
(* A text is a sequence of characters, for the code looks for names and    *)
(* values anywhere in it.                                                  *)
(*                                                                         *)
(* The document is its elements in document order; 0 is its root.  The     *)
(* caller gives as many new values as attributes, and at least one, as     *)
(* the code asserts.                                                       *)
(***************************************************************************)
EXTENDS Naturals, Sequences
LOCAL INSTANCE SequencesExt
LOCAL INSTANCE FiniteSetsExt

CONSTANTS
    ParameterNames,    \* of the parameters in a style
    ParameterValues,   \* their values
    NewValues,         \* what calls give them
    MaxParameters      \* bound on the parameters of a style

VARIABLE document   \* the caller's bytes, parsed

xmlVars == document

ElementNames   == {"path", "g"}
AttributeNames == {"style", "d"}

Places(text, string) ==
    {i \in 1..(Len(string) - Len(text) + 1) : SubSeq(string, i, i + Len(text) - 1) = text}

-----------------------------------------------------------------------------
(* Parameters in a text. *)

\* From place i to the end of the value that begins there.
ValueAt(string, i) ==
    LET end   == Len(string) + 1
        start == Min({j \in i..end : j = end \/ string[j] # " "})
        stop  == Min({j \in start..end : j = end \/ string[j] \in {";", "\""}})
    IN  SubSeq(string, start, stop - 1)

\* The value of a parameter, and what is left of the string, which loses
\* its front up to a name that only begins with attrname.
GetAttrValue(string, attrname) ==
    LET size == Len(string)
        sliced[from \in 0..size] ==
            LET found == {i \in Places(attrname, string) : i > from}
                index == Min(found) + Len(attrname)
                rest  == SubSeq(string, from + 1, size)
            IN  IF found = {} \/ index > size THEN [value |-> <<>>, string |-> rest]
                ELSE IF string[index] = ":"
                     THEN [value |-> ValueAt(string, index + 1), string |-> rest]
                     ELSE sliced[index]
    IN  sliced[0]

\* QString::replace()
ReplaceText(string, old, new) ==
    LET from[i \in 1..(Len(string) + 1)] ==
            IF i > Len(string) THEN <<>>
            ELSE IF i \in Places(old, string) THEN new \o from[i + Len(old)]
                 ELSE <<string[i]>> \o from[i + 1]
    IN  from[1]

\* The loop over the parameters, which ends at the first that has no value.
\* The first value is that of ParameterName, whatever the first of attrs is.
NewTextMutant(first, attrs, newvalues) ==  \* a value is replaced by the next new one
    LET tmps[count \in 0..Len(attrs)] ==
            IF count = 0 THEN first
            ELSE LET last == tmps[count - 1]
                     text == ReplaceText(last.string, last.value, newvalues[Len(attrs)])
                 IN  IF last.value = <<>> THEN last
                     ELSE IF count < Len(attrs) THEN GetAttrValue(text, attrs[count + 1])
                          ELSE [value |-> <<>>, string |-> text]
    IN  tmps[Len(attrs)].string

NewText(first, attrs, newvalues) ==
    LET tmps[count \in 0..Len(attrs)] ==
            IF count = 0 THEN first
            ELSE LET last == tmps[count - 1]
                     text == ReplaceText(last.string, last.value, newvalues[count])
                 IN  IF last.value = <<>> THEN last
                     ELSE IF count < Len(attrs) THEN GetAttrValue(text, attrs[count + 1])
                          ELSE [value |-> <<>>, string |-> text]
    IN  tmps[Len(attrs)].string

-----------------------------------------------------------------------------
(* The document. *)

\* QDomElement::attribute() and setAttribute()
Attribute(element, name) ==
    IF name \in DOMAIN element.attributes THEN element.attributes[name] ELSE <<>>

SetAttribute(element, name, text) ==
    [element EXCEPT !.attributes =
        [a \in DOMAIN @ \union {name} |-> IF a = name THEN text ELSE @[a]]]

\* The elements above i, i included.
Lineage(doc, i) ==
    LET up[k \in 0..Len(doc)] == IF k = 0 THEN {} ELSE {k} \union up[doc[k].parent]
    IN  up[i]

\* The recursion goes on below an element unless it is one to edit.
Visited(doc, name) ==
    {i \in DOMAIN doc : {k \in Lineage(doc, i) : doc[k].name = name} = {i}}

\* findInfo is the element's name, the attribute, the parameter's name and value.
ReplaceDom(doc, findInfo, attrs, newvalues) ==
    [i \in DOMAIN doc |->
        LET first == GetAttrValue(Attribute(doc[i], findInfo.attr), findInfo.parameter)
        IN  IF i \in Visited(doc, findInfo.element) /\ first.value = findInfo.value
            THEN SetAttribute(doc[i], findInfo.attr, NewText(first, attrs, newvalues))
            ELSE doc[i]]

\* The first child of that name uses up the lists.
ReplaceFirst(doc, elementName, attrs, newvalues) ==
    LET children == {i \in DOMAIN doc : doc[i].parent = 0 /\ doc[i].name = elementName}
        set(element, i) == IF attrs[i] \in DOMAIN element.attributes
                           THEN SetAttribute(element, attrs[i], newvalues[i]) ELSE element
    IN  [i \in DOMAIN doc |->
            IF children # {} /\ i = Min(children)
            THEN FoldLeft(set, doc[i], [k \in DOMAIN attrs |-> k])
            ELSE doc[i]]

-----------------------------------------------------------------------------
(* What callers ask for. *)

Declaration  == [name : ParameterNames, value : ParameterValues]
Declarations == UNION {[1..n -> Declaration] : n \in 0..MaxParameters}
Gaps         == {<<>>, <<" ">>}

StyleText(ds, gap) ==
    FlattenSeq([i \in DOMAIN ds |->
        (IF i = 1 THEN <<>> ELSE <<";">>) \o ds[i].name \o <<":">> \o gap \o ds[i].value])

Styles == [d \in Declarations \X Gaps |-> StyleText(d[1], d[2])]

Searches ==
    [element : {"path"}, attr : {"style"}, parameter : ParameterNames,
     value : ParameterValues \union {<<>>}]

\* One list, or two of the same length, with the same name once only.
Lists(S) == UNION {{s \in [1..n -> S] : IsInjective(s)} : n \in 1..2}
Edits(S) == UNION {[attrs : {s}, newvalues : [DOMAIN s -> NewValues]] : s \in Lists(S)}

ParameterEdits == Edits(ParameterNames)
AttributeEdits == Edits(AttributeNames)

-----------------------------------------------------------------------------
(* A document begins with one or two elements; the first one has any style, *)
(* the second one a plain one or none.                                      *)
Plain == CHOOSE d \in DOMAIN Styles : Len(d[1]) = 1 /\ d[2] = <<>>

First ==
    [name : ElementNames, parent : {0},
     attributes : {[a \in {"style"} |-> t] : t \in Range(Styles)}]

Second ==
    [name : ElementNames, parent : {0, 1},
     attributes : {<<>>, [a \in AttributeNames |-> Styles[Plain]]}]

XmlInit ==
    \E first \in First, second \in Second : document \in {<<first>>, <<first, second>>}

ReplaceComplicatedAttrRecursively ==
    \E findInfo \in Searches, e \in ParameterEdits :
        document' = ReplaceDom(document, findInfo, e.attrs, e.newvalues)

ReplaceSimpleAttr ==
    \E name \in ElementNames, e \in AttributeEdits :
        document' = ReplaceFirst(document, name, e.attrs, e.newvalues)

XmlNext == ReplaceComplicatedAttrRecursively \/ ReplaceSimpleAttr

XmlSpec == XmlInit /\ [][XmlNext]_xmlVars

-----------------------------------------------------------------------------
XmlTypeOK ==
    \A i \in DOMAIN document :
        LET e == document[i]
        IN  /\ e.name \in ElementNames /\ e.parent \in 0..(i - 1)
            /\ DOMAIN e.attributes \subseteq AttributeNames

Inside(text, string) == Places(text, string) # {}

\* A style in which every parameter asked for has a name that no other name
\* contains, and a value that no other value contains, old or new.
Clear(ds, names, newvalues) ==
    LET asked == {i \in DOMAIN ds : ds[i].name \in ToSet(names)}
    IN  /\ \A i \in DOMAIN ds, n \in ToSet(names) : Inside(n, ds[i].name) => ds[i].name = n
        /\ \A i, j \in DOMAIN ds : i # j /\ i \in asked => ds[i].name # ds[j].name
        /\ \A i \in asked :
               /\ \A j \in DOMAIN ds \ {i} : ~Inside(ds[i].value, ds[j].value)
               /\ \A k \in DOMAIN newvalues : ~Inside(ds[i].value, newvalues[k])

\* The names that have a value, up to the first that has none.
Reached(ds, names) ==
    {names[k] : k \in {k \in DOMAIN names :
        \A l \in 1..k : \E i \in DOMAIN ds : ds[i].name = names[l]}}

Renewed(ds, names, newvalues) ==
    [i \in DOMAIN ds |->
        IF ds[i].name \in Reached(ds, names)
        THEN [ds[i] EXCEPT !.value = newvalues[CHOOSE k \in DOMAIN names : names[k] = ds[i].name]]
        ELSE ds[i]]

Distinct(ds) == \A i, j \in DOMAIN ds : i # j => ds[i].name # ds[j].name

\* The declarations a style is the text of.
Declared(element) == {d \in DOMAIN Styles : Styles[d] = Attribute(element, "style")}

\* The first of the parameters to change is the one searched for, and the style
\* has it with the value searched for.
Found(d, findInfo, e) ==
    /\ findInfo.parameter = e.attrs[1]
    /\ [name |-> findInfo.parameter, value |-> findInfo.value] \in ToSet(d[1])

\* The style lacks the parameter with that value, and no longer name ends with that
\* of the parameter.
Missed(d, findInfo) ==
    /\ findInfo.value # <<>>
    /\ [name |-> findInfo.parameter, value |-> findInfo.value] \notin ToSet(d[1])
    /\ \A k \in DOMAIN d[1] :
           IsSuffix(findInfo.parameter, d[1][k].name) => d[1][k].name = findInfo.parameter

\* Exactly the parameters asked for get their new values in element i.
RightlyReplaced(i, d, findInfo, e) ==
    Attribute(ReplaceDom(document, findInfo, e.attrs, e.newvalues)[i], "style") =
        StyleText(Renewed(d[1], e.attrs, e.newvalues), d[2])

(* In a clear style that has the first parameter with the value searched    *)
(* for, exactly the parameters asked for get their new values.  A style     *)
(* without it is left alone, also one with names that begin with that of    *)
(* the parameter, and so is every element inside one that may be edited.    *)
(* replaceSimpleAttr changes attributes that are there, and those of one    *)
(* element only.                                                            *)
StylesReplaced ==
    \A i \in DOMAIN document :
        /\ i \notin Visited(document, "path") =>
               \A findInfo \in Searches, e \in ParameterEdits :
                   ReplaceDom(document, findInfo, e.attrs, e.newvalues)[i] = document[i]
        /\ \A d \in Declared(document[i]), findInfo \in Searches :
               /\ Missed(d, findInfo) =>
                      \A e \in ParameterEdits :
                          ReplaceDom(document, findInfo, e.attrs, e.newvalues)[i] = document[i]
               /\ \A e \in ParameterEdits :
                      /\ Found(d, findInfo, e)
                      /\ Clear(d[1], e.attrs, e.newvalues)
                      /\ i \in Visited(document, "path")
                      => RightlyReplaced(i, d, findInfo, e)
        /\ \A name \in ElementNames, e \in AttributeEdits :
               LET new == ReplaceFirst(document, name, e.attrs, e.newvalues)
               IN  new[i] # document[i] =>
                       /\ DOMAIN new[i].attributes = DOMAIN document[i].attributes
                       /\ \A j \in DOMAIN document \ {i} : new[j] = document[j]

(* In any style with different names exactly the parameters asked for get   *)
(* their new values, as the header says; the code also replaces the value   *)
(* where it stands in another parameter's, and loses the text in front of a *)
(* name that begins with one asked for.                                     *)
OnlyAskedChange ==
    \A i \in Visited(document, "path") :
        \A d \in Declared(document[i]), findInfo \in Searches, e \in ParameterEdits :
            Distinct(d[1]) /\ Found(d, findInfo, e) => RightlyReplaced(i, d, findInfo, e)
=============================================================================
