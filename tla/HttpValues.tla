----------------------------- MODULE HttpValues -----------------------------
(***************************************************************************)
(* The values of a request (execute/http_executor.py), in JSON and in the  *)
(* styles of parameters.  The JSON side: reading a value at a path,        *)
(* asking whether a required path is there, and putting the arguments of a *)
(* call together to a request body or to the parts of a multipart form.    *)
(*                                                                         *)
(* A path is the sequence of its tokens: names, "[*]" for the items of an  *)
(* array and "*" for the values of a map; "$" is the empty sequence.       *)
(***************************************************************************)
EXTENDS Integers, FiniteSets, Sequences, SequencesExt

Leaf(x) == [leaf |-> x]
Obj(f)  == [fields |-> f]
Arr(s)  == [items |-> s]
Null    == [null |-> TRUE]

IsObj(v) == DOMAIN v = {"fields"}
IsArr(v) == DOMAIN v = {"items"}
EmptyObj == Obj([k \in {} |-> Null])

Has(v, k) == IsObj(v) /\ k \in DOMAIN v.fields
With(v, k, x) == Obj([j \in DOMAIN v.fields \cup {k} |-> IF j = k THEN x ELSE v.fields[j]])
Items(v) == IF IsArr(v) THEN v.items ELSE <<v>>
Plain(path) == \A i \in DOMAIN path : path[i] \notin {"[*]", "*"}
Drop1(path, n) == SubSeq(path, n + 1, Len(path))
IsUnder(path, parent) == Len(parent) < Len(path) /\ IsPrefix(parent, path)
SelectsMany(path) == ~Plain(path)
----------------------------------------------------------------------------
(* _json_path_values: one token after another leads from the values found  *)
(* so far to the next; values of another kind are passed over.             *)
Members(v) == FoldLeft(LAMBDA s, k : Append(s, v.fields[k]), <<>>, SetToSeq(DOMAIN v.fields))

NextValues(v, token) ==
  CASE token = "[*]" -> IF IsArr(v) THEN v.items ELSE <<>>
    [] token = "*"   -> IF IsObj(v) THEN Members(v) ELSE <<>>
    [] OTHER         -> IF Has(v, token) THEN <<v.fields[token]>> ELSE <<>>

PathValues(v, path) ==
  FoldLeft(LAMBDA vs, token : FlattenSeq([i \in DOMAIN vs |-> NextValues(vs[i], token)]),
           <<v>>, path)

(* Values on the way: those the tokens before token i lead to.             *)
OnTheWay(v, path, i) == ToSet(PathValues(v, SubSeq(path, 1, i - 1)))

(* _json_path_required_present: every object on the way has the next name; *)
(* what is not an object or array where one is expected asks for nothing.  *)
RequiredPresent(v, path) ==
  \A i \in DOMAIN path :
    path[i] \notin {"[*]", "*"} =>
      \A w \in OnTheWay(v, path, i) : IsObj(w) => Has(w, path[i])

(* _json_path_exists: the kinds have to fit as well.                       *)
PathExists(v, path) ==
  \A i \in DOMAIN path : \A w \in OnTheWay(v, path, i) :
    CASE path[i] = "[*]" -> IsArr(w)
      [] path[i] = "*"   -> IsObj(w)
      [] OTHER           -> Has(w, path[i])
----------------------------------------------------------------------------
(* _assign_json_path_parts: objects on the way are made, and whatever else *)
(* is there is replaced by one.                                            *)
Assign(body, path, x) ==
  LET Sub[i \in 0..Len(path)] ==
        IF i = 0 THEN body
        ELSE IF Has(Sub[i - 1], path[i]) /\ IsObj(Sub[i - 1].fields[path[i]])
             THEN Sub[i - 1].fields[path[i]] ELSE EmptyObj
      Up[i \in 1..(Len(path) + 1)] ==
        IF i > Len(path) THEN x ELSE With(Sub[i - 1], path[i], Up[i + 1])
  IN  Up[1]

(* Mutant of AssignItems: the items that are there are replaced.           *)
AssignItemsAnew(items, tail, x) ==
  [i \in DOMAIN Items(x) |-> IF tail = <<>> THEN Items(x)[i] ELSE Assign(EmptyObj, tail, Items(x)[i])]

(* _assign_json_array_item_values: value i goes to item i.                 *)
AssignItems(items, tail, x) ==
  LET given == Items(x)
      old(i) == IF i \in DOMAIN items /\ IsObj(items[i]) THEN items[i] ELSE EmptyObj
  IN  [i \in (DOMAIN items) \cup (DOMAIN given) |->
         IF i \notin DOMAIN given THEN items[i]
         ELSE IF tail = <<>> THEN given[i] ELSE Assign(old(i), tail, given[i])]

(* _assign_json_body_value: a path of names, or one with a single array    *)
(* that has a name.                                                        *)
ArrayAt(path) == SelectInSeq(path, LAMBDA token : token = "[*]")
OneArray(path) == /\ ArrayAt(path) > 1
                  /\ \A i \in DOMAIN path : i # ArrayAt(path) => path[i] \notin {"[*]", "*"}
Assignable(path) == path # <<>> /\ (Plain(path) \/ OneArray(path))

AssignArray(body, path, x) ==
  LET to == SubSeq(path, 1, ArrayAt(path) - 1)
      tail == Drop1(path, ArrayAt(path))
      there == PathValues(body, to)
      items == IF there # <<>> /\ IsArr(there[1]) THEN there[1].items ELSE <<>>
  IN  Assign(body, to, Arr(IF tail = <<>> THEN Items(x) ELSE AssignItems(items, tail, x)))

AssignValue(body, path, x) ==
  IF Plain(path) THEN Assign(body, path, x) ELSE AssignArray(body, path, x)

(* _build_root_array_json_body, where every path leads into the items of   *)
(* an array; NoBody when one does not.                                     *)
NoBody == [none |-> TRUE]

InItems(path) == path # <<>> /\ path[1] = "[*]" /\ Plain(Drop1(path, 1))

RootArray(names, args, paths) ==
  LET first == SelectInSeq(names, LAMBDA n : paths[n] = <<"[*]">> \/ ~InItems(paths[n]))
      all == FoldLeft(LAMBDA items, n : AssignItems(items, Drop1(paths[n], 1), args[n]), <<>>, names)
  IN  IF first = 0 THEN IF all = <<>> THEN NoBody ELSE Arr(all)
      ELSE IF InItems(paths[names[first]]) THEN Arr(Items(args[names[first]])) ELSE NoBody

(* _build_json_body from the arguments, in their order.  An argument whose *)
(* path is "$" is the body; one that cannot be placed goes under its name. *)
Unplaced == <<"[*]", "[*]">>

BuildBody(names, args, paths, schemaType) ==
  LET raw == SelectInSeq(names, LAMBDA n : paths[n] = <<>>)
      array == RootArray(names, args, paths)
      Place(body, n) == IF Assignable(paths[n]) THEN AssignValue(body, paths[n], args[n])
                        ELSE With(body, n, args[n])
  IN  IF raw # 0 THEN args[names[raw]]
      ELSE IF schemaType = "array" /\ array # NoBody THEN array
      ELSE FoldLeft(Place, EmptyObj, names)
----------------------------------------------------------------------------
(* _prepare_multipart_body_parts: an argument inside a declared part is    *)
(* gathered in that part, unless the part is itself an argument.           *)
Parents(path, parts) ==
  IF \E p \in parts : p.path = path THEN {}
  ELSE {p \in parts : p.kind \in {"object", "array"} /\ IsUnder(path, p.path)}

(* _assign_multipart_group_value: into the object, or into the first item  *)
(* of the array.                                                           *)
Gathered(old, part, path, x) ==
  LET rest == Drop1(path, Len(part.path))
      body == IF IsObj(old) THEN old ELSE EmptyObj
      item == IF IsArr(old) /\ old.items # <<>> /\ IsObj(old.items[1])
              THEN old.items[1] ELSE EmptyObj
      Place(into, p) == IF Assignable(p) THEN AssignValue(into, p, x)
                        ELSE With(into, Last(path), x)
  IN  IF part.kind = "object" THEN Place(body, rest)
      ELSE IF rest = <<"[*]">> THEN Arr(Items(x))
      ELSE Arr(<<Place(item, Drop1(rest, 1))>> \o
               (IF IsArr(old) THEN Drop1(old.items, 1) ELSE <<>>))

(* The parts by name; a file is always a part of its own.                  *)
Multipart(names, args, paths, parts, files) ==
  LET Under(n) == IF n \in files THEN {}
                  ELSE {p \in Parents(paths[n], parts) : p.name \notin ToSet(names)}
      Put1(d, k, x) == [j \in DOMAIN d \cup {k} |-> IF j = k THEN x ELSE d[j]]
      Add(d, n) == IF Under(n) = {} THEN Put1(d, n, args[n])
                   ELSE LET p == CHOOSE q \in Under(n) : TRUE
                            old == IF p.name \in DOMAIN d THEN d[p.name] ELSE Null
                        IN  Put1(d, p.name, Gathered(old, p, paths[n], args[n]))
  IN  FoldLeft(Add, [k \in {} |-> Null], names)
-----------------------------------------------------------------------------
(* How execute/http_executor.py writes a parameter value: the OpenAPI      *)
(* styles of path, query, header and cookie parameters and of the fields   *)
(* of a form.  What is written is a sequence of pairs: a key (the name,    *)
(* then what stands in brackets after it) and the texts joined in the      *)
(* value.  Quoting is left out; a text is the value or name it shows.      *)
CONSTANT NoStyle

Name(k) == [name |-> k]
Pair(key, texts) == [key |-> key, texts |-> texts]

(* _explode: given, or else only style form explodes.                      *)
Style(p, default) == IF p.style = NoStyle THEN default ELSE p.style
Explodes(p, style) == IF p.explode = NoStyle THEN style = "form" ELSE p.explode

NotNull(s) == SelectSeq(s, LAMBDA v : v # Null)
KeysOf(v) == SetToSeq(DOMAIN v.fields)
Fields(v) == SelectSeq(KeysOf(v), LAMBDA k : v.fields[k] # Null)

(* _object_items: names and values alternate; a null leaves with its name. *)
ObjectItems(v) ==
  FoldLeft(LAMBDA s, k : s \o <<Name(k), v.fields[k]>>, <<>>, Fields(v))

(* _append_deep_object_query_segments, three levels down: a list of plain  *)
(* values repeats its key, any other list numbers its items.               *)
Inner(v) ==
  IF IsObj(v) THEN [i \in DOMAIN Fields(v) |-> <<<<Name(Fields(v)[i])>>, v.fields[Fields(v)[i]]>>]
  ELSE IF IsArr(v)
  THEN LET plain == \A i \in DOMAIN v.items : ~IsObj(v.items[i]) /\ ~IsArr(v.items[i])
           kept == SelectSeq([i \in DOMAIN v.items |-> i], LAMBDA i : v.items[i] # Null)
       IN  [i \in DOMAIN kept |-> <<IF plain THEN <<>> ELSE <<kept[i]>>, v.items[kept[i]]>>]
  ELSE <<<<<<>>, v>>>>

Deeper(entries) ==
  FlattenSeq([i \in DOMAIN entries |->
    LET inner == Inner(entries[i][2])
    IN  [j \in DOMAIN inner |-> <<entries[i][1] \o inner[j][1], inner[j][2]>>]])

DeepObject(name, v) ==
  LET leaves == Deeper(Deeper(Deeper(<<<<<<Name(name)>>, v>>>>)))
  IN  [i \in DOMAIN leaves |-> Pair(leaves[i][1], <<leaves[i][2]>>)]

(* Mutant of Query: the fields of an exploded object lose their names.     *)
QueryWithoutNames(name, v, p) ==
  LET style == Style(p, "form")
  IN  IF style = "deepObject" /\ IsObj(v) THEN DeepObject(name, v)
      ELSE IF IsObj(v) /\ Explodes(p, style)
      THEN [i \in DOMAIN Fields(v) |-> Pair(<<Name(name)>>, <<v.fields[Fields(v)[i]]>>)]
      ELSE IF IsObj(v) THEN <<Pair(<<Name(name)>>, ObjectItems(v))>>
      ELSE IF IsArr(v) /\ Explodes(p, style)
      THEN [i \in DOMAIN NotNull(v.items) |-> Pair(<<Name(name)>>, <<NotNull(v.items)[i]>>)]
      ELSE <<Pair(<<Name(name)>>, Items(v))>>

(* _serialize_query_parameter; a form field is written the same way.  A    *)
(* list that is not exploded writes every item, a null as well.            *)
Query(name, v, p) ==
  LET style == Style(p, "form")
      whole(texts) == <<Pair(<<Name(name)>>, texts)>>
      each(s) == [i \in DOMAIN s |-> Pair(<<Name(name)>>, <<s[i]>>)]
  IN  IF p.json /\ (IsObj(v) \/ IsArr(v)) THEN whole(<<v>>)
      ELSE IF style = "deepObject" /\ IsObj(v) THEN DeepObject(name, v)
      ELSE IF style \in {"spaceDelimited", "pipeDelimited"} /\ IsArr(v) THEN whole(v.items)
      ELSE IF IsObj(v)
      THEN IF Explodes(p, style)
           THEN [i \in DOMAIN Fields(v) |-> Pair(<<Name(Fields(v)[i])>>, <<v.fields[Fields(v)[i]]>>)]
           ELSE whole(ObjectItems(v))
      ELSE IF IsArr(v) /\ Explodes(p, style) THEN each(NotNull(v.items))
      ELSE whole(Items(v))

(* _serialize_simple_path_value, _serialize_simple_text: an exploded object*)
(* writes key=value for every key.                                         *)
Simple(name, v, p) ==
  IF p.json /\ (IsObj(v) \/ IsArr(v)) THEN <<Pair(<<>>, <<v>>)>>
  ELSE IF IsObj(v)
  THEN IF Explodes(p, "simple")
       THEN [i \in DOMAIN KeysOf(v) |-> Pair(<<Name(KeysOf(v)[i])>>, <<v.fields[KeysOf(v)[i]]>>)]
       ELSE <<Pair(<<>>, ObjectItems(v))>>
  ELSE <<Pair(<<>>, Items(v))>>

(* _serialize_label_path_value, _serialize_matrix_path_value               *)
Label(name, v, p) == Simple(name, v, [p EXCEPT !.explode = Explodes(p, "label")])

Matrix(name, v, p) ==
  LET explode == Explodes(p, "matrix")
  IN  IF IsArr(v) /\ explode
      THEN [i \in DOMAIN v.items |-> Pair(<<Name(name)>>, <<v.items[i]>>)]
      ELSE IF IsObj(v) /\ explode THEN Simple(name, v, [p EXCEPT !.explode = TRUE])
      ELSE IF IsObj(v) THEN <<Pair(<<Name(name)>>, ObjectItems(v))>>
      ELSE <<Pair(<<Name(name)>>, Items(v))>>

Path(name, v, p) ==
  IF p.json /\ (IsObj(v) \/ IsArr(v)) THEN <<Pair(<<>>, <<v>>)>>
  ELSE IF Style(p, "simple") = "label" THEN Label(name, v, p)
  ELSE IF Style(p, "simple") = "matrix" THEN Matrix(name, v, p) ELSE Simple(name, v, p)

(* _cookie_segments                                                        *)
Cookie(name, v, p) ==
  IF p.json \/ (Style(p, "form") = "form" /\ Explodes(p, Style(p, "form"))) THEN Query(name, v, p)
  ELSE Query(name, v, [p EXCEPT !.style = "form", !.explode = FALSE])

Written(location, name, v, p) ==
  CASE location = "query"  -> Query(name, v, p)
    [] location = "path"   -> Path(name, v, p)
    [] location = "header" -> Simple(name, v, p)
    [] location = "cookie" -> Cookie(name, v, p)
----------------------------------------------------------------------------
Texts(pairs) == UNION {ToSet(pairs[i].texts) : i \in DOMAIN pairs}

Members1(S) == UNION {IF IsObj(v) THEN ToSet(Members(v)) ELSE IF IsArr(v) THEN ToSet(v.items) ELSE {} :
                       v \in S}

(* The plain values in an object, three levels down.                       *)
LeavesIn(v) ==
  LET upper == Members1({v})  middle == Members1(upper)  lower == Members1(middle)
  IN  {x \in upper \cup middle \cup lower : x # Null /\ ~IsObj(x) /\ ~IsArr(x)}

Deep(location, v, p) == location = "query" /\ p.style = "deepObject" /\ IsObj(v)

(* Nothing of a value is lost in writing it: it is written as it is, or    *)
(* each of its members that is not null is written, and with an object's   *)
(* members their names.                                                    *)
WritesAll(location, name, v, p) ==
  LET pairs == Written(location, name, v, p)
      named(k) == \/ \E i \in DOMAIN pairs : Name(k) \in ToSet(pairs[i].key)
                  \/ Name(k) \in Texts(pairs)
      parts == IF Deep(location, v, p) THEN LeavesIn(v)
               ELSE Members1({v}) \ {Null}
  IN  \/ v \in Texts(pairs)
      \/ /\ IsObj(v) \/ IsArr(v)
         /\ parts \subseteq Texts(pairs)
         /\ IsObj(v) => \A k \in DOMAIN v.fields : v.fields[k] # Null => named(k)
=============================================================================
