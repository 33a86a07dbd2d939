------------------------- MODULE HttpRequestProofs -------------------------
(***************************************************************************)
(* Proofs about HttpRequest, for every description of an operation, every  *)
(* arguments and every session.  The check and the building of a request   *)
(* sort the arguments by operators of their own: PlacedAsUsed says that    *)
(* these agree, and Stages what each stage of a call leaves to the next.   *)
(***************************************************************************)
EXTENDS HttpRequest, OrderingLemmas

(* What the executor takes for the arguments of the call.                  *)
Effective == IF call.defaults THEN WithDefaults(op, call.given) ELSE call.given

Checked == {"sorting", "locating", "failed", "encoding", "sending", "showing", "shown", "answered", "raised"}
Split   == Checked \ {"sorting"}
Located == Split \ {"locating"}
Sent    == Located \ {"failed", "encoding"}

(* What the stages have done by now.                                       *)
ArgsFilled == args = IF pc = "called" THEN call.given ELSE Effective
CheckPassed ==
  call.validate /\ pc \in Checked =>
    diagnosis = DiagnosisOf(op, call.session, args) /\ ~Blocks(diagnosis)
PartsSplit ==
  pc \in Split => parts = [l \in Locations |-> {n \in ToSet(Known(op)) : Placed(n) = l}]
PathLocated ==
  pc = "failed" => ToSet(op.placeholders) \ parts["path"] # {}
BodyEncoded ==
  pc \in Sent => body = IF parts["body"] # {} /\ Bodied(op) THEN Encoded ELSE NoBody
Stages ==
  /\ call \in Calls /\ pc \in {"called", "checking", "refused"} \cup Checked
  /\ DOMAIN parts = Locations
  /\ pc = "checking" => call.validate
  /\ ArgsFilled /\ CheckPassed /\ PartsSplit /\ PathLocated /\ BodyEncoded

(* What the body is encoded to depends on the operation, the arguments and *)
(* their parts.                                                            *)
LEMMA EncodedKept ==
  ASSUME op' = op, args' = args, parts' = parts
  PROVE  Encoded' = Encoded
<1>1. \A rows, n : FieldPath(rows, n)' = FieldPath(rows, n)
  BY DEF FieldPath
<1>2. BodyNames' = BodyNames
  BY DEF BodyNames
<1>3. \A ct, rows, paths : EncodedAt(ct, rows, paths)' = EncodedAt(ct, rows, paths)
  BY <1>2 DEF EncodedAt
<1>4. \A rows : [n \in parts["body"] |-> FieldPath(rows, n)]' = [n \in parts["body"] |-> FieldPath(rows, n)]
  BY <1>1
<1>5. \A ct, rows : EncodedIn(ct, rows)' = EncodedIn(ct, rows)
  BY <1>3, <1>4 DEF EncodedIn
<1>6. \A ct : EncodedAs(ct)' = EncodedAs(ct)
  BY <1>5 DEF EncodedAs
<1>7. [n \in parts["body"] |-> args[n]]' = [n \in parts["body"] |-> args[n]]
  OBVIOUS
<1> QED BY <1>6, <1>7 DEF Encoded

(* Each stage leaves to the next what that takes for granted.              *)
LEMMA StagesKept == Init /\ [][Next]_vars => []Stages
<1>1. Init => Stages
  BY DEF Init, Stages, ArgsFilled, CheckPassed, PartsSplit, PathLocated, BodyEncoded,
         Checked, Split, Located, Sent, NoParts
<1>2. Stages /\ [Next]_vars => Stages'
  <2> SUFFICES ASSUME Stages, [Next]_vars PROVE Stages'
    OBVIOUS
  <2>1. CASE FillDefaults
    <3>1. call' = call /\ op' = op
      BY <2>1 DEF FillDefaults, op
    <3>2. args = call.given /\ args' = Effective /\ Effective' = Effective
      BY <2>1, <3>1 DEF FillDefaults, Stages, ArgsFilled, Effective
    <3>3. CASE call.validate
      BY <2>1, <3>1, <3>2, <3>3 DEF FillDefaults, Stages, ArgsFilled, CheckPassed, PartsSplit,
         PathLocated, BodyEncoded, Checked, Split, Located, Sent
    <3>4. CASE ~call.validate
      BY <2>1, <3>1, <3>2, <3>4 DEF FillDefaults, Stages, ArgsFilled, CheckPassed, PartsSplit,
         PathLocated, BodyEncoded, Checked, Split, Located, Sent
    <3> QED BY <3>3, <3>4
  <2>2. CASE Check
    <3>1. call' = call /\ op' = op /\ args' = args /\ Effective' = Effective
      BY <2>2 DEF Check, op, Effective
    <3>2. args = Effective
      BY <2>2 DEF Check, Stages, ArgsFilled
    <3>3. diagnosis' = DiagnosisOf(op, call.session, args)
      BY <2>2, <3>2 DEF Check, Diagnosis, Effective
    <3>4. Blocks(diagnosis') = Blocks(diagnosis)'
      BY <3>1 DEF Blocks
    <3>5. DiagnosisOf(op, call.session, args)' = DiagnosisOf(op, call.session, args)
      BY <3>1
    <3>6. pc' = IF Blocks(diagnosis') THEN "refused" ELSE "sorting"
      BY <2>2 DEF Check
    <3> HIDE DEF op
    <3> QED BY <2>2, <3>1, <3>2, <3>3, <3>4, <3>5, <3>6 DEF Check, Stages, ArgsFilled, CheckPassed,
         PartsSplit, PathLocated, BodyEncoded, Checked, Split, Located, Sent
  <2>3. CASE Sort
    <3>1. call' = call /\ op' = op /\ args' = args /\ Effective' = Effective /\ diagnosis' = diagnosis
      BY <2>3 DEF Sort, op, Effective
    <3>2. parts' = [l \in Locations |-> {n \in ToSet(Known(op)) : Placed(n) = l}]
      BY <2>3 DEF Sort, Stages
    <3>3. \A n : Placed(n)' = Placed(n)
      BY <3>1 DEF Placed
    <3>4. parts' = [l \in Locations |-> {n \in ToSet(Known(op)) : Placed(n) = l}]'
      BY <3>1, <3>2, <3>3
    <3>5. Blocks(diagnosis)' = Blocks(diagnosis)
      BY <3>1 DEF Blocks
    <3>6. pc' = "locating" /\ pc = "sorting"
      BY <2>3 DEF Sort
    <3> QED BY <3>1, <3>4, <3>5, <3>6 DEF Stages, ArgsFilled, CheckPassed, PartsSplit,
         PathLocated, BodyEncoded, Checked, Split, Located, Sent
  <2>4. ASSUME UNCHANGED <<call, args, diagnosis, parts>>, pc \in Split, pc' \in Split,
               pc' = "failed" => ToSet(op.placeholders) \ parts["path"] # {},
               pc' \in Sent => body' = IF parts["body"] # {} /\ Bodied(op) THEN Encoded ELSE NoBody
        PROVE  Stages'
    <3>1. op' = op /\ Effective' = Effective
      BY <2>4 DEF op, Effective
    <3>2. \A n : Placed(n)' = Placed(n)
      BY <2>4, <3>1 DEF Placed
    <3>3. [l \in Locations |-> {n \in ToSet(Known(op)) : Placed(n) = l}]'
          = [l \in Locations |-> {n \in ToSet(Known(op)) : Placed(n) = l}]
      BY <3>1, <3>2
    <3>4. Blocks(diagnosis)' = Blocks(diagnosis)
      BY <2>4 DEF Blocks
    <3>5. Encoded' = Encoded
      BY <2>4, <3>1, EncodedKept
    <3> QED BY <2>4, <3>1, <3>3, <3>4, <3>5 DEF Stages, ArgsFilled, CheckPassed, PartsSplit,
         PathLocated, BodyEncoded, Checked, Split, Located, Sent
  <2>5. CASE Locate
    BY <2>4, <2>5 DEF Locate, Checked, Split, Located, Sent
  <2>6. CASE Encode
    BY <2>4, <2>6 DEF Encode, Checked, Split, Located, Sent
  <2>7. CASE Show
    <3>1. call' = call /\ op' = op /\ args' = args /\ parts' = parts /\ body' = body
      BY <2>7 DEF Show, op
    <3>2. Effective' = Effective /\ args = Effective
      BY <2>7, <3>1 DEF Show, Effective, Stages, ArgsFilled
    <3>3. diagnosis' = DiagnosisOf(op, call.session, args)
      BY <2>7, <3>2 DEF Show, Diagnosis, Effective
    <3>4. call.validate => diagnosis' = diagnosis
      BY <2>7, <3>3 DEF Show, Stages, CheckPassed, Checked
    <3>5. CASE call.validate
      BY <2>4, <2>7, <3>1, <3>4, <3>5 DEF Show, Stages, BodyEncoded, Checked, Split, Located, Sent
    <3>6. CASE ~call.validate
      <4>1. \A n : Placed(n)' = Placed(n)
        BY <3>1 DEF Placed
      <4>2. [l \in Locations |-> {n \in ToSet(Known(op)) : Placed(n) = l}]'
            = [l \in Locations |-> {n \in ToSet(Known(op)) : Placed(n) = l}]
        BY <3>1, <4>1
      <4>3. Encoded' = Encoded
        BY <3>1, EncodedKept
      <4> QED BY <2>7, <3>1, <3>2, <3>6, <4>2, <4>3 DEF Show, Stages, ArgsFilled, CheckPassed, PartsSplit,
           PathLocated, BodyEncoded, Checked, Split, Located, Sent
    <3> QED BY <3>5, <3>6
  <2>8. CASE Answer
    BY <2>4, <2>8 DEF Answer, Stages, BodyEncoded, Checked, Split, Located, Sent
  <2>9. CASE NoAnswer
    BY <2>4, <2>9 DEF NoAnswer, Stages, BodyEncoded, Checked, Split, Located, Sent
  <2>10. CASE UNCHANGED vars
    <3>1. CASE pc \in Split
      BY <2>4, <2>10, <3>1 DEF vars, Stages, PathLocated, BodyEncoded
    <3>2. CASE pc \notin Split
      <4>1. UNCHANGED <<call, pc, args, diagnosis, parts, body>> /\ op' = op /\ Effective' = Effective
        BY <2>10 DEF vars, op, Effective
      <4>2. Blocks(diagnosis)' = Blocks(diagnosis)
        BY <4>1 DEF Blocks
      <4> QED BY <3>2, <4>1, <4>2 DEF Stages, ArgsFilled, CheckPassed, PartsSplit,
           PathLocated, BodyEncoded, Checked, Split, Located, Sent
    <3> QED BY <3>1, <3>2
  <2> QED BY <2>1, <2>2, <2>3, <2>5, <2>6, <2>7, <2>8, <2>9, <2>10 DEF Next
<1> QED BY <1>1, <1>2, PTL

-----------------------------------------------------------------------------
(* The check and the building put an argument in the same place.           *)
LEMMA PlacedAsUsed ==
  ASSUME NEW n
  PROVE  Placed(n) = UsedAt(op, args, n)
<1>1. PICK at : at = LocationOf(op, n)
  OBVIOUS
<1>2. Placed(n) = UsedWhere(op, args, n, at)
  BY <1>1 DEF Placed, UsedWhere, Set, Locations
<1> QED BY <1>1, <1>2 DEF UsedAt

(* What the check reported is what was sent.                               *)
LEMMA SentAsReported == Stages => UsedAsReported
<1> SUFFICES ASSUME Stages, Built, call.validate PROVE UsedAsReported
  BY DEF UsedAsReported
<1>1. pc \in Sent /\ pc \in Split /\ pc \in Checked
  BY DEF Built, Sent, Located, Split, Checked
<1>2. parts = [l \in Locations |-> {n \in ToSet(Known(op)) : Placed(n) = l}]
  BY <1>1 DEF Stages, PartsSplit
<1>3. \A l \in Locations : parts[l] = Used(op, args, l)
  BY <1>2, PlacedAsUsed DEF Used
<1>4. /\ diagnosis.used = [l \in Locations |-> Used(op, args, l)]
      /\ diagnosis.type = TypeFor(op, args)
  BY <1>1 DEF Stages, CheckPassed, DiagnosisOf, DiagnosisAs, Findings
<1>5. ASSUME body # NoBody PROVE body.as = diagnosis.type
  <2>1. body = Encoded /\ Bodied(op)
    BY <1>1, <1>5 DEF Stages, BodyEncoded
  <2>2. \A ct, rows, paths : EncodedAt(ct, rows, paths).as = ct
    BY DEF EncodedAt
  <2>3. Encoded.as = ContentType(op, [n \in parts["body"] |-> args[n]])
    BY <2>2 DEF Encoded, EncodedAs, EncodedIn
  <2>4. parts["body"] = Used(op, args, "body")
    BY <1>3 DEF Locations
  <2> QED BY <2>1, <2>3, <2>4, <1>4 DEF TypeFor
<1> QED BY <1>3, <1>4, <1>5 DEF UsedAsReported, Stages

(* Whatever an operation declares and a caller gives, a request is built   *)
(* of the arguments the check of it reported, at the places it reported    *)
(* and in the content type it reported.                                    *)
THEOREM AlwaysUsedAsReported == Spec => []UsedAsReported
<1> QED BY StagesKept, SentAsReported, PTL DEF Spec

-----------------------------------------------------------------------------
(* The names of a list, each once.                                         *)
AddOnce(c, s, n) == IF n \in ToSet(s) THEN s ELSE Append(s, n)
AddedOnce(c, k, s) == IsList(s) /\ ToSet(s) = {c[j] : j \in 1 .. k}
Adding == INSTANCE FoldInduction WITH Op <- AddOnce, Good <- AddedOnce

LEMMA OnceLosesNothing ==
  ASSUME NEW names, IsList(names)
  PROVE  ToSet(Once(names)) = ToSet(names)
<1>1. Once(names) = Adding!Result(names, <<>>, names)
  BY DEF Once, AddOnce, FoldLeft, MapThenFoldSet, Max, Adding!Result, Adding!MapThenFoldSet, Adding!Largest
<1>2. DOMAIN names = 1 .. Len(names) /\ Len(names) \in Nat
  BY ListDomain
<1>3. AddedOnce(names, 0, <<>>)
  BY DEF AddedOnce, IsList, ToSet
<1>4. ASSUME NEW k \in 0 .. Len(names) - 1, NEW s, AddedOnce(names, k, s)
      PROVE  AddedOnce(names, k + 1, AddOnce(names, s, names[k + 1]))
  <2>1. {names[j] : j \in 1 .. k + 1} = {names[j] : j \in 1 .. k} \cup {names[k + 1]}
    <3>1. 1 .. k + 1 = (1 .. k) \cup {k + 1}
      BY <1>2
    <3> QED BY <3>1
  <2>2. CASE names[k + 1] \in ToSet(s)
    BY <1>4, <2>1, <2>2 DEF AddedOnce, AddOnce
  <2>3. CASE names[k + 1] \notin ToSet(s)
    <3>1. IsList(Append(s, names[k + 1])) /\ ToSet(Append(s, names[k + 1])) = ToSet(s) \cup {names[k + 1]}
      BY <1>4, OneAppended DEF AddedOnce
    <3> QED BY <1>4, <2>1, <2>3, <3>1 DEF AddedOnce, AddOnce
  <2> QED BY <2>2, <2>3
<1>5. AddedOnce(names, Len(names), Adding!Result(names, <<>>, names))
  BY <1>2, <1>3, <1>4, Adding!FoldInduction
<1> QED BY <1>1, <1>2, <1>5 DEF AddedOnce, ToSet

(* The rows of all content types are put together.                         *)
AddRows(c, s, t) == s \o t.rows
RowsListed(c, k, s) == IsList(s)
Collecting == INSTANCE FoldInduction WITH Op <- AddRows, Good <- RowsListed

(* The rows of an operation's body are a list.                             *)
LEMMA AllRowsListed ==
  ASSUME NEW d, IsList(d.rows), IsList(d.types), \A i \in DOMAIN d.types : IsList(d.types[i].rows)
  PROVE  IsList(AllRows(d))
<1>1. PICK types : types = d.types
  OBVIOUS
<1>2. PICK rows : rows = d.rows
  OBVIOUS
<1>3. DOMAIN types = 1 .. Len(types) /\ Len(types) \in Nat
  BY <1>1, ListDomain
<1>4. FoldLeft(LAMBDA s, t : s \o t.rows, rows, types) = Collecting!Result(types, rows, types)
  BY DEF AddRows, FoldLeft, MapThenFoldSet, Max, Collecting!Result, Collecting!MapThenFoldSet, Collecting!Largest
<1>5. ASSUME NEW i \in 1 .. Len(types), NEW s, RowsListed(types, i - 1, s)
      PROVE  RowsListed(types, i, AddRows(types, s, types[i]))
  <2>1. IsList(types[i].rows)
    BY <1>1, <1>3
  <2>2. IsList(s \o types[i].rows)
    BY <1>5, <2>1, Joined DEF RowsListed
  <2> QED BY <2>2 DEF RowsListed, AddRows
<1>6. RowsListed(types, 0, rows)
  BY <1>2 DEF RowsListed
<1>7. RowsListed(types, Len(types), Collecting!Result(types, rows, types))
  BY <1>3, <1>5, <1>6, Collecting!FoldInduction
<1>8. IsList(<<>>)
  BY DEF IsList, ToSet
<1> QED BY <1>1, <1>2, <1>4, <1>7, <1>8 DEF AllRows, RowsListed

(* The names of a list of rows are one, too.                               *)
LEMMA NamesListed ==
  ASSUME NEW rows, IsList(rows)
  PROVE  IsList(NamesOf(rows)) /\ \A row \in ToSet(rows) : row.name \in ToSet(NamesOf(rows))
<1>1. Len(rows) \in Nat /\ DOMAIN rows = 1 .. Len(rows)
  BY ListDomain
<1>2. NamesOf(rows) = [i \in 1 .. Len(rows) |-> NamesOf(rows)[i]]
  BY <1>1 DEF NamesOf
<1>3. IsList(NamesOf(rows))
  BY <1>1, <1>2, ListOf
<1>4. \A i \in DOMAIN rows : i \in DOMAIN NamesOf(rows) /\ NamesOf(rows)[i] = rows[i].name
  BY DEF NamesOf
<1> QED BY <1>3, <1>4 DEF ToSet

(* Whatever the executor asks for by name it knows: the placeholders of    *)
(* the path, the parameters and the keys of the security schemes.          *)
LEMMA EveryNameIsKnown ==
  ASSUME NEW o \in DOMAIN Operations
  PROVE  /\ ToSet(Operations[o].placeholders) \subseteq ToSet(Known(Operations[o]))
         /\ \A p \in ToSet(Operations[o].params) : p.name \in ToSet(Known(Operations[o]))
         /\ DOMAIN KeyLocations(Operations[o]) \subseteq ToSet(Known(Operations[o]))
<1>1. PICK d : d = Operations[o]
  OBVIOUS
<1>2. /\ IsList(d.placeholders) /\ IsList(d.tool) /\ IsList(d.params)
      /\ IsList(d.rows) /\ IsList(d.types) /\ (\A i \in DOMAIN d.types : IsList(d.types[i].rows))
      /\ IsFiniteSet(d.schemes)
  BY <1>1, OperationsAssumption
<1>3. IsList(AllRows(d))
  BY <1>2, AllRowsListed
<1>4. PICK whole : whole = (IF RawSupported(d, AllRows(d)) THEN <<"body">> ELSE <<>>)
  OBVIOUS
<1>5. IsList(whole)
  <2>1. IsList(<<>>)
    BY DEF IsList, ToSet
  <2>2. <<"body">> \in Seq({"body"})
    OBVIOUS
  <2> QED BY <1>4, <2>1, <2>2, ListFrom
<1>6. PICK keys : keys = SetToSeq(DOMAIN KeyLocations(d))
  OBVIOUS
<1>7. IsList(keys) /\ ToSet(keys) = DOMAIN KeyLocations(d)
  <2>1. IsFiniteSet(KeySchemes(d))
    BY <1>2, FS_Subset DEF KeySchemes
  <2>2. PICK f : f = [s \in KeySchemes(d) |-> s.key]
    OBVIOUS
  <2>3. IsFiniteSet({f[s] : s \in KeySchemes(d)})
    BY <2>1, FiniteImage
  <2>4. {f[s] : s \in KeySchemes(d)} = DOMAIN KeyLocations(d)
    BY <2>2 DEF KeyLocations
  <2> QED BY <1>6, <2>3, <2>4, ListOfSet
<1>8. PICK tool, params, fields :
        tool = NamesOf(d.tool) /\ params = NamesOf(d.params) /\ fields = NamesOf(AllRows(d))
  OBVIOUS
<1>9. IsList(tool) /\ IsList(params) /\ IsList(fields) /\ \A p \in ToSet(d.params) : p.name \in ToSet(params)
  BY <1>2, <1>3, <1>8, NamesListed
<1>10. PICK two : two = d.placeholders \o tool
  OBVIOUS
<1>11. IsList(two) /\ ToSet(two) = ToSet(d.placeholders) \cup ToSet(tool)
  BY <1>2, <1>9, <1>10, Joined
<1>12. PICK three : three = two \o params
  OBVIOUS
<1>13. IsList(three) /\ ToSet(three) = ToSet(two) \cup ToSet(params)
  BY <1>9, <1>11, <1>12, Joined
<1>14. PICK four : four = three \o fields
  OBVIOUS
<1>15. IsList(four) /\ ToSet(four) = ToSet(three) \cup ToSet(fields)
  BY <1>9, <1>13, <1>14, Joined
<1>16. PICK five : five = four \o whole
  OBVIOUS
<1>17. IsList(five) /\ ToSet(five) = ToSet(four) \cup ToSet(whole)
  BY <1>5, <1>15, <1>16, Joined
<1>18. PICK all : all = five \o keys
  OBVIOUS
<1>19. IsList(all) /\ ToSet(all) = ToSet(five) \cup ToSet(keys)
  BY <1>7, <1>17, <1>18, Joined
<1>20. Known(d) = Once(all)
  BY <1>4, <1>6, <1>8, <1>10, <1>12, <1>14, <1>16, <1>18 DEF Known
<1>21. ToSet(Known(d)) = ToSet(all)
  BY <1>19, <1>20, OnceLosesNothing
<1> QED BY <1>1, <1>7, <1>9, <1>11, <1>13, <1>15, <1>17, <1>19, <1>21

-----------------------------------------------------------------------------
(* A known argument that has a value, and a location that is not taken for *)
(* another, is at that location.                                           *)
LEMMA PlacedUnlessShadowed ==
  ASSUME Stages, pc \in Split, NEW n \in ToSet(Known(op)), NEW location, ~Shadowed(n, location),
         Set(args, n) \/ (location = "body" /\ Given(args, n))
  PROVE  location \in Locations /\ n \in parts[location]
<1>1. /\ location \in Locations /\ location = LocationOf(op, n)
      /\ n \in ToSet(op.placeholders) => location = "path"
  BY DEF Shadowed
<1>2. UsedWhere(op, args, n, location) = location
  BY <1>1 DEF UsedWhere, Set
<1>3. Placed(n) = location
  BY <1>1, <1>2, PlacedAsUsed DEF UsedAt
<1>4. parts = [l \in Locations |-> {m \in ToSet(Known(op)) : Placed(m) = l}]
  BY DEF Stages, PartsSplit
<1> QED BY <1>1, <1>3, <1>4

(* A call that was checked has nothing missing.                            *)
LEMMA NothingMissing ==
  ASSUME Stages, call.validate, pc \in Checked
  PROVE  /\ \A n \in ToSet(op.placeholders) : Set(args, n)
         /\ \A p \in ToSet(op.params) : p.required => Provided(call.session, args, p.name, p.in)
         /\ SecurityMet(op, call.session, args)
<1>1. diagnosis = DiagnosisOf(op, call.session, args) /\ ~Blocks(diagnosis)
  BY DEF Stages, CheckPassed
<1>2. PICK rows, whole :
        /\ diagnosis.missing = MissingRequired(op, call.session, args, rows, whole)
        /\ diagnosis.secured = SecurityMet(op, call.session, args)
  BY <1>1 DEF DiagnosisOf, DiagnosisAs, Findings
<1>3. diagnosis.missing = {} /\ diagnosis.secured
  BY <1>1 DEF Blocks
<1>4. ASSUME NEW n \in ToSet(op.placeholders) PROVE Set(args, n)
  <2>1. Present(call.session, args, n, "path")
    BY <1>2, <1>3 DEF MissingRequired
  <2> QED BY <2>1 DEF Present
<1>5. ASSUME NEW p \in ToSet(op.params), p.required PROVE Provided(call.session, args, p.name, p.in)
  BY <1>2, <1>3, <1>5 DEF MissingRequired
<1> QED BY <1>2, <1>3, <1>4, <1>5

(* What passed the check is complete when it is built.                     *)
LEMMA CompleteWhenChecked == Stages => RequestIsComplete
<1> SUFFICES ASSUME Stages PROVE RequestIsComplete
  OBVIOUS
<1>1. /\ ToSet(op.placeholders) \subseteq ToSet(Known(op))
      /\ \A p \in ToSet(op.params) : p.name \in ToSet(Known(op))
      /\ DOMAIN KeyLocations(op) \subseteq ToSet(Known(op))
  <2>1. call.op \in DOMAIN Operations
    BY OperationsAssumption DEF Stages
  <2> QED BY <2>1, EveryNameIsKnown DEF op
<1>2. CheckCoversPath
  <2> SUFFICES ASSUME pc = "failed", call.validate PROVE FALSE
    BY DEF CheckCoversPath
  <2>1. pc \in Checked /\ pc \in Split
    BY DEF Checked, Split
  <2>2. PICK n \in ToSet(op.placeholders) : n \notin parts["path"]
    BY DEF Stages, PathLocated
  <2>3. Set(args, n)
    BY <2>1, NothingMissing
  <2>4. Placed(n) = "path"
    BY <2>3, PlacedAsUsed DEF UsedAt, UsedWhere
  <2>5. parts = [l \in Locations |-> {m \in ToSet(Known(op)) : Placed(m) = l}]
    BY <2>1 DEF Stages, PartsSplit
  <2>6. n \in ToSet(Known(op)) /\ "path" \in Locations
    BY <1>1 DEF Locations
  <2> QED BY <2>2, <2>4, <2>5, <2>6
<1>3. ASSUME Built PROVE pc \in Checked /\ pc \in Split
  BY <1>3 DEF Built, Checked, Split
<1>4. ParametersAreSent
  <2> SUFFICES ASSUME Built, call.validate, NEW p \in ToSet(op.params), p.required, ~Shadowed(p.name, p.in)
               PROVE  SentParameter(p)
    BY DEF ParametersAreSent
  <2>1. Provided(call.session, args, p.name, p.in)
    BY <1>3, NothingMissing
  <2>2. CASE Set(args, p.name) \/ (p.in = "body" /\ Given(args, p.name))
    BY <1>1, <1>3, <2>2, PlacedUnlessShadowed DEF SentParameter
  <2>3. CASE ~(Set(args, p.name) \/ (p.in = "body" /\ Given(args, p.name)))
    BY <2>1, <2>3 DEF Provided, Present, SentParameter
  <2> QED BY <2>2, <2>3
<1>5. KeysAreSent
  <2> SUFFICES ASSUME Built, call.validate, op.requirements # <<>>
               PROVE  \E i \in DOMAIN op.requirements : \A name \in op.requirements[i] :
                        \E s \in op.schemes :
                          /\ s.name = name
                          /\ s.type = "apikey" => \/ SentParameter([name |-> s.key, in |-> s.in])
                                                  \/ Shadowed(s.key, s.in)
    BY DEF KeysAreSent
  <2>1. SecurityMet(op, call.session, args)
    BY <1>3, NothingMissing
  <2>2. PICK i \in DOMAIN op.requirements : \A name \in op.requirements[i] :
          \E s \in op.schemes : s.name = name /\ SchemeMet(s, call.session, args)
    BY <2>1 DEF SecurityMet
  <2>3. ASSUME NEW s \in op.schemes, SchemeMet(s, call.session, args), s.type = "apikey",
               ~Shadowed(s.key, s.in)
        PROVE  SentParameter([name |-> s.key, in |-> s.in])
    <3>1. s.in \in KeyPlaces /\ Present(call.session, args, s.key, s.in)
      BY <2>3 DEF SchemeMet
    <3>2. s.key \in DOMAIN KeyLocations(op)
      BY <2>3, <3>1 DEF KeyLocations, KeySchemes
    <3>3. CASE Set(args, s.key)
      <4>1. s.in \in Locations /\ s.key \in parts[s.in]
        BY <1>1, <1>3, <2>3, <3>2, <3>3, PlacedUnlessShadowed
      <4> QED BY <4>1 DEF SentParameter
    <3>4. CASE ~Set(args, s.key)
      BY <3>1, <3>4 DEF Present, SentParameter
    <3> QED BY <3>3, <3>4
  <2> QED BY <2>2, <2>3
<1> QED BY <1>2, <1>4, <1>5 DEF RequestIsComplete

(* Whatever an operation declares and a caller gives, a call that passed   *)
(* the check can be built, and its path, query, headers and cookies hold   *)
(* the parameters and the keys that the operation requires.                *)
THEOREM ChecksAlwaysComplete == Spec => []RequestIsComplete
<1> QED BY StagesKept, CompleteWhenChecked, PTL DEF Spec
=============================================================================
