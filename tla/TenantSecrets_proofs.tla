------------------------ MODULE TenantSecrets_proofs ------------------------
(***************************************************************************)
(* Theorems about TenantSecrets, for any rows, rotators and editors, and   *)
(* any number of keys and tokens.                                          *)
(***************************************************************************)
EXTENDS TenantSecrets, TLAPS

(***************************************************************************)
(* Type correctness, with what every copy of a row has in common with one. *)
(***************************************************************************)
\* Only a credential has a refresh column, and a row that is not there has nothing.
Plain(r, x) ==
  /\ r \notin Credentials => x.refresh = Empty
  /\ ~x.there => x.access = Empty /\ x.refresh = Empty
CopiesInOrder ==
  /\ \A r \in Rows : Plain(r, row[r])
  /\ \A e \in Editors : Plain(edit[e].on, edit[e].copy)
  /\ \A w \in Rotators, r \in Rows : Plain(r, rotation[w].copy[r])
MemoriesInOrder ==
  /\ \A w \in Rotators :
       IF rotation[w].pc \in {"credentials", "channels"} THEN rotation[w].new # 0
       ELSE rotation[w].todo = {} /\ rotation[w].written = {}
  /\ \A e \in Editors : edit[e].pc \in {"keyless", "keyed"} => edit[e].seen # 0
TypeInv == TypeOK /\ CopiesInOrder /\ MemoriesInOrder

LEMMA NothingFacts ==
  /\ Empty \in Sealed /\ Empty.key = 0 /\ Empty.gen = 0
  /\ NoRow \in Row /\ \A r : Plain(r, NoRow)
  /\ NoRotation \in Rotation /\ NoEdit \in Edit
  /\ NoRotation.pc = "idle" /\ NoEdit.pc = "idle" /\ NoRotation.written = {} /\ NoRotation.todo = {}
  /\ NoRotation.copy = [r \in Rows |-> NoRow] /\ NoEdit.copy = NoRow
<1>1. Empty \in Sealed /\ Empty.key = 0 /\ Empty.gen = 0
  BY ConstantsAssumption DEF Empty, Sealed, Keys
<1>2. NoRow \in Row /\ \A r : Plain(r, NoRow)
  BY <1>1, ConstantsAssumption DEF NoRow, Row, Plain, Keys
<1>3. NoRotation \in Rotation
  BY <1>2, ConstantsAssumption DEF NoRotation, Rotation, Keys
<1>4. NoEdit \in Edit
  <2>1. (CHOOSE r \in Rows : TRUE) \in Rows
    BY ConstantsAssumption
  <2> QED BY <1>2, <2>1, ConstantsAssumption DEF NoEdit, Edit, Edits, Keys
<1> QED BY <1>1, <1>2, <1>3, <1>4 DEF NoRotation, NoEdit

\* What a rotation lists is copies of rows.
LEMMA ListingFacts ==
  ASSUME TypeInv, NEW rows
  PROVE  /\ Listing(rows) \in [Rows -> Row]
         /\ \A r \in Rows : Plain(r, Listing(rows)[r]) /\ Listing(rows)[r] \in {row[r], NoRow}
         /\ \A r \in Rows : r \in rows => Listing(rows)[r] = row[r]
BY NothingFacts DEF Listing, TypeInv, TypeOK, CopiesInOrder

\* Re-encryption keeps a row a row.
LEMMA RotatedFacts ==
  ASSUME NEW r, NEW x \in Row, Plain(r, x), NEW k \in Keys, k # 0
  PROVE  /\ Rotated(x, k) \in Row /\ Plain(r, Rotated(x, k))
         /\ {Rotated(x, k).access.key, Rotated(x, k).refresh.key} \subseteq {0, k}
         /\ Rotated(x, k).access.gen = x.access.gen /\ Rotated(x, k).refresh.gen = x.refresh.gen
         /\ Rotated(x, k).label = k
<1>1. ASSUME NEW c \in Sealed PROVE Reseal(c, k) \in Sealed /\ Reseal(c, k).key \in {0, k}
                                    /\ Reseal(c, k).gen = c.gen /\ (c = Empty => Reseal(c, k) = Empty)
  BY NothingFacts, ConstantsAssumption DEF Reseal, Sealed, Keys, Empty
<1>2. x.access \in Sealed /\ x.refresh \in Sealed
  BY DEF Row
<1>3. /\ Rotated(x, k).access = Reseal(x.access, k) /\ Rotated(x, k).refresh = Reseal(x.refresh, k)
      /\ Rotated(x, k).label = k /\ Rotated(x, k).there = x.there /\ Rotated(x, k) \in Row
  BY <1>1, <1>2 DEF Rotated, Row
<1> QED BY <1>1, <1>2, <1>3 DEF Plain

\* A step that changes one editor's memory.
LEMMA EditType ==
  ASSUME TypeInv, NEW e \in Editors, NEW m \in Edit,
         edit' = [edit EXCEPT ![e] = m], Plain(m.on, m.copy), m.pc \in {"keyless", "keyed"} => m.seen # 0,
         UNCHANGED rotation, key' \in Keys, row' \in [Rows -> Row], \A r \in Rows : Plain(r, row'[r]),
         minted' \in Keys, granted' \in 0 .. MaxGrants,
         newest' \in [Rows -> [access : 0 .. MaxGrants, refresh : 0 .. MaxGrants]],
         exposed' \subseteq Rows, contended' \subseteq Rows
  PROVE  TypeInv'
<1>1. TypeOK'
  BY DEF TypeInv, TypeOK
<1>2. CopiesInOrder'
  BY DEF TypeInv, TypeOK, CopiesInOrder
<1>3. MemoriesInOrder'
  BY DEF TypeInv, TypeOK, MemoriesInOrder
<1> QED BY <1>1, <1>2, <1>3 DEF TypeInv

\* What a save may put in the columns of a row.
LEMMA SavedFacts ==
  ASSUME TypeInv, NEW e \in Editors, edit[e].pc = "keyed", granted < MaxGrants, NEW c \in SavedColumns(e)
  PROVE  /\ Fresh(e) \in Sealed /\ Fresh(e).key = edit[e].seen /\ Fresh(e).gen = granted + 1
         /\ granted + 1 \in 0 .. MaxGrants /\ edit[e].seen \in Keys /\ edit[e].seen # 0
         /\ edit[e].copy.access \in Sealed /\ edit[e].copy.refresh \in Sealed
         /\ c.access \in {Fresh(e), edit[e].copy.access}
         /\ c.refresh \in {Fresh(e), edit[e].copy.refresh, Empty}
         /\ c.access \in Sealed /\ c.refresh \in Sealed
         /\ edit[e].on \notin Credentials => c.access = Fresh(e) /\ c.refresh = edit[e].copy.refresh
<1>1. edit[e] \in Edit /\ edit[e].seen # 0 /\ granted \in 0 .. MaxGrants
  BY DEF TypeInv, TypeOK, MemoriesInOrder
<1>2. granted + 1 \in 0 .. MaxGrants /\ granted + 1 # 0
  BY <1>1, ConstantsAssumption
<1>3. edit[e].seen \in Keys /\ edit[e].copy \in Row
  BY <1>1 DEF Edit
<1>4. Fresh(e) \in Sealed /\ Fresh(e).key = edit[e].seen /\ Fresh(e).gen = granted + 1
  BY <1>1, <1>2, <1>3 DEF Fresh, Sealed
<1>5. edit[e].copy.access \in Sealed /\ edit[e].copy.refresh \in Sealed
  BY <1>3 DEF Row
<1>6. /\ c.access \in {Fresh(e), edit[e].copy.access}
      /\ c.refresh \in {Fresh(e), edit[e].copy.refresh, Empty}
      /\ c.access = Fresh(e) \/ c.refresh = Fresh(e)
      /\ edit[e].on \notin Credentials => c.refresh = edit[e].copy.refresh
  BY DEF SavedColumns
<1>7. edit[e].on \notin Credentials => edit[e].copy.refresh # Fresh(e)
  BY <1>2, <1>4, NothingFacts DEF TypeInv, CopiesInOrder, Plain
<1> QED BY <1>1, <1>2, <1>3, <1>4, <1>5, <1>6, <1>7, NothingFacts

LEMMA EditorType ==
  ASSUME TypeInv, NEW e \in Editors, EditorStep(e)
  PROVE  TypeInv'
<1>0. edit[e] \in Edit /\ Plain(edit[e].on, edit[e].copy) /\ edit[e].on \in Rows /\ edit[e].copy \in Row
  BY DEF TypeInv, TypeOK, CopiesInOrder, Edit
<1>1. ASSUME NEW r \in Rows, NEW kind \in Edits, Load(e, r, kind) PROVE TypeInv'
  <2> DEFINE m == [pc |-> "loaded", kind |-> kind, on |-> r, copy |-> row[r], seen |-> 0,
                   met |-> (IF Rotating # {} THEN {"rotation"} ELSE {})
                           \cup (IF Editing(r) # {} THEN {"edit"} ELSE {})]
  <2>1. m \in Edit /\ Plain(m.on, m.copy) /\ m.pc = "loaded"
    BY ConstantsAssumption DEF Edit, Keys, TypeInv, TypeOK, CopiesInOrder
  <2>2. edit' = [f \in Editors |-> IF f = e THEN m
                   ELSE IF f \in Editing(r) THEN [edit[f] EXCEPT !.met = @ \cup {"edit"}] ELSE edit[f]]
    BY <1>1 DEF Load
  <2> HIDE DEF m
  <2>3. ASSUME NEW f \in Editors
        PROVE  LET n == [edit[f] EXCEPT !.met = @ \cup {"edit"}] IN
               n \in Edit /\ n.on = edit[f].on /\ n.copy = edit[f].copy /\ n.pc = edit[f].pc /\ n.seen = edit[f].seen
    BY DEF Edit, TypeInv, TypeOK
  <2>4. \A f \in Editors : /\ edit'[f] \in Edit /\ Plain(edit'[f].on, edit'[f].copy)
                           /\ edit'[f].pc \in {"keyless", "keyed"} => edit'[f].seen # 0
    BY <2>1, <2>2, <2>3 DEF TypeInv, TypeOK, CopiesInOrder, MemoriesInOrder
  <2>5. edit' \in [Editors -> Edit]
    BY <2>2, <2>4
  <2>6. UNCHANGED <<key, row, rotation, minted, granted, newest, exposed, contended>>
    BY <1>1 DEF Load, history
  <2> QED BY <2>4, <2>5, <2>6 DEF TypeInv, TypeOK, CopiesInOrder, MemoriesInOrder
<1>2. ASSUME NEW m \in Edit, edit' = [edit EXCEPT ![e] = m], Plain(m.on, m.copy),
             m.pc \in {"keyless", "keyed"} => m.seen # 0,
             UNCHANGED <<row, rotation, granted, newest, exposed, contended>>,
             key' \in Keys, minted' \in Keys
      PROVE TypeInv'
  BY <1>2, EditType DEF TypeInv, TypeOK, CopiesInOrder
<1>3. CASE UNCHANGED <<key, row, rotation, minted, granted, history>> /\ edit' = [edit EXCEPT ![e] = NoEdit]
  BY <1>2, <1>3, NothingFacts DEF history, TypeInv, TypeOK
<1>4. CASE UseToken(e)
  <2>1. CASE edit' = [edit EXCEPT ![e].pc = "used"]
    <3> DEFINE m == [edit[e] EXCEPT !.pc = "used"]
    <3>1. m \in Edit /\ m.on = edit[e].on /\ m.copy = edit[e].copy /\ m.pc = "used"
      BY <1>0 DEF Edit
    <3>2. edit' = [edit EXCEPT ![e] = m]
      BY <2>1 DEF TypeInv, TypeOK
    <3> HIDE DEF m
    <3> QED BY <1>0, <1>2, <1>4, <3>1, <3>2 DEF UseToken, history, TypeInv, TypeOK
  <2> QED BY <1>3, <1>4, <2>1 DEF UseToken
<1>5. CASE GetDek(e)
  <2> DEFINE m == [edit[e] EXCEPT !.pc = "keyed", !.seen = key]
  <2>1. m \in Edit /\ m.on = edit[e].on /\ m.copy = edit[e].copy /\ m.pc = "keyed" /\ m.seen = key
    BY <1>0 DEF Edit, TypeInv, TypeOK
  <2>2. edit' = [edit EXCEPT ![e] = m] /\ key # 0
    BY <1>5 DEF GetDek, TypeInv, TypeOK
  <2> HIDE DEF m
  <2> QED BY <1>0, <1>2, <1>5, <2>1, <2>2 DEF GetDek, history, TypeInv, TypeOK
<1>6. CASE GenerateFirstDek(e)
  <2> DEFINE m == [edit[e] EXCEPT !.pc = "keyless", !.seen = minted']
  <2>1. minted' \in Keys /\ minted' # 0
    BY <1>6, ConstantsAssumption DEF GenerateFirstDek, Keys, TypeInv, TypeOK
  <2>2. m \in Edit /\ m.on = edit[e].on /\ m.copy = edit[e].copy /\ m.pc = "keyless" /\ m.seen = minted'
    BY <1>0, <2>1 DEF Edit
  <2>3. edit' = [edit EXCEPT ![e] = m]
    BY <1>6 DEF GenerateFirstDek, TypeInv, TypeOK
  <2> HIDE DEF m
  <2> QED BY <1>0, <1>2, <1>6, <2>1, <2>2, <2>3 DEF GenerateFirstDek, history, TypeInv, TypeOK
<1>7. CASE CreateTenantKey(e)
  <2>0. edit[e].seen \in Keys /\ edit[e].seen # 0
    BY <1>0, <1>7 DEF CreateTenantKey, Edit, TypeInv, MemoriesInOrder
  <2>1. CASE key = 0
    <3> DEFINE m == [edit[e] EXCEPT !.pc = "keyed"]
    <3>1. m \in Edit /\ m.on = edit[e].on /\ m.copy = edit[e].copy /\ m.pc = "keyed" /\ m.seen = edit[e].seen
      BY <1>0 DEF Edit
    <3>2. edit' = [edit EXCEPT ![e] = m] /\ key' = edit[e].seen
      BY <1>7, <2>1 DEF CreateTenantKey, TypeInv, TypeOK
    <3> HIDE DEF m
    <3> QED BY <1>0, <1>2, <1>7, <2>0, <3>1, <3>2 DEF CreateTenantKey, history, TypeInv, TypeOK
  <2>2. CASE key # 0
    BY <1>3, <1>7, <2>2 DEF CreateTenantKey
  <2> QED BY <2>1, <2>2
<1>8. CASE InsertEmpty(e)
  <2> DEFINE bare == [NoRow EXCEPT !.there = TRUE, !.label = edit[e].seen]
             m == [edit[e] EXCEPT !.pc = "loaded", !.copy = bare]
  <2>1. bare \in Row /\ bare.access = Empty /\ bare.refresh = Empty
    BY <1>0, NothingFacts DEF NoRow, Row, Edit
  <2>2. \A r \in Rows : Plain(r, bare)
    BY <2>1, NothingFacts DEF Plain, NoRow
  <2>3. row' = [row EXCEPT ![edit[e].on] = bare] /\ edit' = [edit EXCEPT ![e] = m]
    BY <1>8 DEF InsertEmpty, TypeInv, TypeOK
  <2> HIDE DEF bare
  <2>4. m \in Edit /\ m.on = edit[e].on /\ m.copy = bare /\ m.pc = "loaded"
    BY <1>0, <2>1 DEF Edit
  <2> HIDE DEF m
  <2>5. row' \in [Rows -> Row] /\ \A r \in Rows : Plain(r, row'[r])
    BY <1>0, <2>1, <2>2, <2>3 DEF TypeInv, TypeOK, CopiesInOrder
  <2> QED BY <1>0, <1>8, <2>2, <2>3, <2>4, <2>5, EditType DEF InsertEmpty, history, TypeInv, TypeOK
<1>9. CASE SaveSecret(e)
  <2> PICK c \in SavedColumns(e) :
        /\ row' = [row EXCEPT ![edit[e].on] = [there |-> TRUE, access |-> c.access, refresh |-> c.refresh,
                                               label |-> edit[e].seen]]
        /\ newest' = [newest EXCEPT ![edit[e].on] =
             [access |-> IF c.access = edit[e].copy.access THEN @.access ELSE c.access.gen,
              refresh |-> IF c.refresh = edit[e].copy.refresh THEN @.refresh ELSE c.refresh.gen]]
        /\ \E b \in BOOLEAN : Remember(edit[e].on, edit[e].met, b)
    BY <1>9 DEF SaveSecret
  <2>1. /\ edit[e].pc = "keyed" /\ granted < MaxGrants /\ granted' = granted + 1
        /\ edit' = [edit EXCEPT ![e] = NoEdit] /\ UNCHANGED <<key, rotation, minted>>
    BY <1>9 DEF SaveSecret
  <2>2. /\ c.access \in Sealed /\ c.refresh \in Sealed /\ granted' \in 0 .. MaxGrants /\ edit[e].seen \in Keys
        /\ edit[e].on \notin Credentials => c.refresh = edit[e].copy.refresh
    BY <2>1, SavedFacts
  <2>3. row' \in [Rows -> Row] /\ \A r \in Rows : Plain(r, row'[r])
    BY <1>0, <2>2 DEF TypeInv, TypeOK, CopiesInOrder, Row, Plain
  <2>4. newest' \in [Rows -> [access : 0 .. MaxGrants, refresh : 0 .. MaxGrants]]
    BY <1>0, <2>2 DEF TypeInv, TypeOK, Sealed
  <2>5. exposed' \subseteq Rows /\ contended' \subseteq Rows
    BY <1>0 DEF Remember, TypeInv, TypeOK
  <2> QED BY <2>1, <2>2, <2>3, <2>4, <2>5, NothingFacts, EditType DEF TypeInv, TypeOK
<1>10. CASE SaveUnchanged(e)
  <2>1. row' \in [Rows -> Row] /\ \A r \in Rows : Plain(r, row'[r])
    BY <1>0, <1>10 DEF SaveUnchanged, TypeInv, TypeOK, CopiesInOrder
  <2>2. exposed' \subseteq Rows /\ contended' \subseteq Rows
    BY <1>0, <1>10 DEF SaveUnchanged, Remember, TypeInv, TypeOK
  <2> QED BY <1>10, <2>1, <2>2, NothingFacts, EditType DEF SaveUnchanged, TypeInv, TypeOK
<1> QED BY <1>1, <1>3, <1>4, <1>5, <1>6, <1>7, <1>8, <1>9, <1>10 DEF EditorStep, DropEdit

\* A step that changes one rotator's memory.
LEMMA RotationType ==
  ASSUME TypeInv, NEW w \in Rotators, NEW m \in Rotation,
         rotation' = [rotation EXCEPT ![w] = m], \A r \in Rows : Plain(r, m.copy[r]),
         IF m.pc \in {"credentials", "channels"} THEN m.new # 0 ELSE m.todo = {} /\ m.written = {},
         UNCHANGED <<edit, granted, newest>>, key' \in Keys, minted' \in Keys,
         row' \in [Rows -> Row], \A r \in Rows : Plain(r, row'[r]),
         exposed' \subseteq Rows, contended' \subseteq Rows
  PROVE  TypeInv'
<1>1. TypeOK'
  BY DEF TypeInv, TypeOK
<1>2. CopiesInOrder'
  BY DEF TypeInv, TypeOK, CopiesInOrder
<1>3. MemoriesInOrder'
  BY DEF TypeInv, TypeOK, MemoriesInOrder
<1> QED BY <1>1, <1>2, <1>3 DEF TypeInv

LEMMA RotatorType ==
  ASSUME TypeInv, NEW w \in Rotators, RotatorStep(w)
  PROVE  TypeInv'
<1> DEFINE me == rotation[w]
<1>0. me \in Rotation /\ (\A r \in Rows : Plain(r, me.copy[r])) /\ me.written \subseteq Rows /\ me.todo \subseteq Rows
  BY DEF TypeInv, TypeOK, CopiesInOrder, Rotation
<1>1. CASE LoadTenantKey(w)
  <2> DEFINE others == {v \in Rotators \ {w} : rotation[v].pc # "idle"}
             m == [NoRotation EXCEPT !.pc = "loaded", !.old = key, !.met = others # {}]
  <2>1. m \in Rotation /\ m.pc = "loaded" /\ m.todo = {} /\ m.written = {} /\ \A r \in Rows : Plain(r, m.copy[r])
    <3>1. (others # {}) \in BOOLEAN /\ key \in Keys
      BY DEF TypeInv, TypeOK
    <3> HIDE DEF others
    <3>2. m \in Rotation /\ m.pc = "loaded" /\ m.copy = NoRotation.copy /\ m.todo = {} /\ m.written = {}
      BY <3>1, NothingFacts DEF Rotation
    <3> QED BY <3>2, NothingFacts
  <2>2. rotation' = [v \in Rotators |->
           IF v = w THEN m ELSE IF v \in others THEN [rotation[v] EXCEPT !.met = TRUE] ELSE rotation[v]]
    BY <1>1 DEF LoadTenantKey
  <2> HIDE DEF m, others
  <2>3. ASSUME NEW v \in Rotators
        PROVE  LET n == [rotation[v] EXCEPT !.met = TRUE] IN
               n \in Rotation /\ n.copy = rotation[v].copy /\ n.pc = rotation[v].pc /\ n.new = rotation[v].new
               /\ n.todo = rotation[v].todo /\ n.written = rotation[v].written
    BY DEF Rotation, TypeInv, TypeOK
  <2>4. \A v \in Rotators : /\ rotation'[v] \in Rotation /\ \A r \in Rows : Plain(r, rotation'[v].copy[r])
                            /\ IF rotation'[v].pc \in {"credentials", "channels"} THEN rotation'[v].new # 0
                               ELSE rotation'[v].todo = {} /\ rotation'[v].written = {}
    BY <2>1, <2>2, <2>3 DEF TypeInv, TypeOK, CopiesInOrder, MemoriesInOrder
  <2>5. rotation' \in [Rotators -> Rotation]
    BY <2>2, <2>4
  <2>6. UNCHANGED <<key, row, edit, minted, granted, newest, exposed, contended>>
    BY <1>1 DEF LoadTenantKey, history
  <2> QED BY <2>4, <2>5, <2>6 DEF TypeInv, TypeOK, CopiesInOrder, MemoriesInOrder
<1>2. CASE StartRotation(w)
  <2> DEFINE m == [me EXCEPT !.pc = "credentials", !.new = minted', !.copy = Listing(Credentials),
                             !.todo = {r \in Credentials : row[r].there}]
  <2>1. minted' \in Keys /\ minted' # 0
    BY <1>2, ConstantsAssumption DEF StartRotation, Keys, TypeInv, TypeOK
  <2>2. m \in Rotation /\ m.pc = "credentials" /\ m.new = minted' /\ m.copy = Listing(Credentials)
    BY <1>0, <2>1, ListingFacts DEF Rotation, Rows, Listed, TypeInv, TypeOK
  <2>3. rotation' = [rotation EXCEPT ![w] = m]
    BY <1>2 DEF StartRotation, TypeInv, TypeOK
  <2> HIDE DEF m
  <2>4. edit' = [e \in Editors |->
          IF edit[e].pc = "idle" THEN edit[e] ELSE [edit[e] EXCEPT !.met = @ \cup {"rotation"}]]
    BY <1>2 DEF StartRotation
  <2>5. ASSUME NEW f \in Editors
        PROVE  LET n == [edit[f] EXCEPT !.met = @ \cup {"rotation"}] IN
               n \in Edit /\ n.on = edit[f].on /\ n.copy = edit[f].copy /\ n.pc = edit[f].pc /\ n.seen = edit[f].seen
    BY DEF Edit, TypeInv, TypeOK
  <2>6. \A f \in Editors : /\ edit'[f] \in Edit /\ Plain(edit'[f].on, edit'[f].copy)
                           /\ edit'[f].pc \in {"keyless", "keyed"} => edit'[f].seen # 0
    BY <2>4, <2>5 DEF TypeInv, TypeOK, CopiesInOrder, MemoriesInOrder
  <2>7. edit' \in [Editors -> Edit]
    BY <2>4, <2>6
  <2>8. UNCHANGED <<key, row, granted, newest, exposed, contended>>
    BY <1>2 DEF StartRotation, history
  <2>9. \A r \in Rows : Plain(r, m.copy[r])
    BY <2>2, ListingFacts
  <2>10. rotation' \in [Rotators -> Rotation] /\ CopiesInOrder' /\ MemoriesInOrder'
    BY <2>1, <2>2, <2>3, <2>6, <2>8, <2>9 DEF TypeInv, TypeOK, CopiesInOrder, MemoriesInOrder
  <2> QED BY <2>1, <2>7, <2>8, <2>10 DEF TypeInv, TypeOK
<1>3. CASE /\ rotation' = [rotation EXCEPT ![w] = NoRotation]
           /\ UNCHANGED <<row, edit, minted, granted, newest, contended>>
           /\ key' \in Keys /\ exposed' \subseteq Rows
  BY <1>3, NothingFacts, RotationType DEF TypeInv, TypeOK, CopiesInOrder
<1>4. CASE KmsFails(w) \/ AbortRotation(w) \/ LoseRotator(w) \/ StoreTenantKey(w)
  <2>1. me.new \in Keys
    BY <1>0 DEF Rotation
  <2>2. key' \in Keys
    BY <1>4, <2>1 DEF KmsFails, AbortRotation, LoseRotator, StoreTenantKey, TypeInv, TypeOK
  <2>3. exposed' \subseteq Rows
    BY <1>0, <1>4 DEF KmsFails, AbortRotation, LoseRotator, StoreTenantKey, history, Rows, Listed, TypeInv, TypeOK
  <2> QED BY <1>3, <1>4, <2>2, <2>3 DEF KmsFails, AbortRotation, LoseRotator, StoreTenantKey, history
<1>5. ASSUME NEW r \in Rows, RotateRow(w, r) PROVE TypeInv'
  <2> DEFINE m == [me EXCEPT !.todo = @ \ {r}, !.written = @ \cup {r}]
  <2>1. m \in Rotation /\ m.pc = me.pc /\ m.new = me.new /\ m.copy = me.copy
    BY <1>0 DEF Rotation
  <2>2. rotation' = [rotation EXCEPT ![w] = m]
    BY <1>5 DEF RotateRow, TypeInv, TypeOK
  <2> HIDE DEF m
  <2>3. me.copy[r] \in Row /\ me.new \in Keys /\ me.new # 0 /\ me.pc \in {"credentials", "channels"}
    BY <1>0, <1>5 DEF RotateRow, Rotation, TypeInv, MemoriesInOrder
  <2>4. Rotated(me.copy[r], me.new) \in Row /\ Plain(r, Rotated(me.copy[r], me.new))
    BY <1>0, <2>3, RotatedFacts
  <2>5. row' \in [Rows -> Row] /\ \A s \in Rows : Plain(s, row'[s])
    BY <1>5, <2>4 DEF RotateRow, TypeInv, TypeOK, CopiesInOrder
  <2>6. exposed' \subseteq Rows /\ UNCHANGED <<key, edit, minted, granted, newest, contended>>
    BY <1>5 DEF RotateRow, TypeInv, TypeOK
  <2> QED BY <1>0, <2>1, <2>2, <2>3, <2>5, <2>6, RotationType DEF TypeInv, TypeOK
<1>6. CASE ListChannels(w)
  <2> DEFINE m == [me EXCEPT !.pc = "channels", !.copy = Listing(Channels), !.todo = {r \in Channels : row[r].access # Empty}]
  <2>1. m \in Rotation /\ m.pc = "channels" /\ m.new = me.new /\ m.copy = Listing(Channels)
    BY <1>0, ListingFacts DEF Rotation, Rows, Listed, TypeInv, TypeOK
  <2>2. rotation' = [rotation EXCEPT ![w] = m] /\ me.new # 0
    BY <1>6 DEF ListChannels, TypeInv, TypeOK, MemoriesInOrder
  <2> HIDE DEF m
  <2>3. \A r \in Rows : Plain(r, m.copy[r])
    BY <2>1, ListingFacts
  <2> QED BY <1>6, <2>1, <2>2, <2>3, RotationType DEF ListChannels, history, TypeInv, TypeOK, CopiesInOrder
<1> QED BY <1>1, <1>2, <1>4, <1>5, <1>6 DEF RotatorStep

LEMMA TypeInvHolds == Spec => []TypeInv
<1>1. Init => TypeInv
  <2> SUFFICES ASSUME Init PROVE TypeInv
    OBVIOUS
  <2>1. TypeOK
    BY NothingFacts, ConstantsAssumption DEF Init, TypeOK, Keys
  <2>2. CopiesInOrder /\ MemoriesInOrder
    BY NothingFacts DEF Init, CopiesInOrder, MemoriesInOrder
  <2> QED BY <2>1, <2>2 DEF TypeInv
<1>2. TypeInv /\ [Next]_vars => TypeInv'
  <2> SUFFICES ASSUME TypeInv, [Next]_vars PROVE TypeInv'
    OBVIOUS
  <2>1. CASE UNCHANGED vars
    BY <2>1 DEF vars, TypeInv, TypeOK, CopiesInOrder, MemoriesInOrder
  <2> QED BY <2>1, EditorType, RotatorType DEF Next
<1> QED BY <1>1, <1>2, PTL DEF Spec

\* Every variable of the model always has its type.
THEOREM TypeCorrect == Spec => []TypeOK
BY TypeInvHolds, PTL DEF TypeInv

(***************************************************************************)
(* No secret is lost but in an overlap.  A rotation that meets no other    *)
(* one is alone: what it has written opens with its new key, what it has   *)
(* not is to be written or has nothing, and every editor at work meanwhile *)
(* knows that it met a rotation, so that its save exposes the row.  An     *)
(* editor that met none seals, and saves copies sealed, with the stored    *)
(* key.                                                                    *)
(***************************************************************************)
KeysOf(x) == {x.access.key, x.refresh.key}
Blank(x) == x.access = Empty /\ x.refresh = Empty
Rewriting(w) == rotation[w].pc \in {"credentials", "channels"}
Lone(w) == Rewriting(w) /\ ~rotation[w].met
AtWork(e) == edit[e].pc # "idle"
Undisturbed(e) == AtWork(e) /\ "rotation" \notin edit[e].met

RotatorsMeet ==
  \A v \in Rotators, w \in Rotators :
    v # w /\ rotation[v].pc # "idle" /\ rotation[w].pc # "idle" => rotation[v].met
EditorsMeetRotations == \A e \in Editors, w \in Rotators : Rewriting(w) => ~Undisturbed(e)
EditorsMeet ==
  \A e \in Editors, f \in Editors :
    e # f /\ AtWork(e) /\ AtWork(f) /\ edit[e].on = edit[f].on => "edit" \in edit[e].met
Meetings == RotatorsMeet /\ EditorsMeetRotations /\ EditorsMeet

SealsWithStoredKey == \A e \in Editors : edit[e].pc = "keyed" /\ Undisturbed(e) => edit[e].seen = key
CopiesOpen ==
  \A e \in Editors : Undisturbed(e) /\ edit[e].on \in Listed \ exposed => KeysOf(edit[e].copy) \subseteq {0, key}
RowsOpen ==
  \A r \in Listed \ exposed :
    /\ \A w \in Rotators : Lone(w) /\ r \in rotation[w].written => KeysOf(row[r]) \subseteq {0, rotation[w].new}
    /\ (\A w \in Rotators : Rewriting(w) => r \notin rotation[w].written) => KeysOf(row[r]) \subseteq {0, key}
Covers(w, r) ==
  r \in rotation[w].written \/ Blank(row[r]) \/
    (r \in rotation[w].todo /\ (r \in Credentials => rotation[w].pc = "credentials"))
EverythingListed ==
  \A w \in Rotators : Lone(w) =>
    /\ \A r \in Credentials \ exposed : Covers(w, r)
    /\ rotation[w].pc = "channels" => \A r \in Channels \ exposed : Covers(w, r)
SecretInv == Meetings /\ SealsWithStoredKey /\ CopiesOpen /\ RowsOpen /\ EverythingListed

LEMMA BlankKeys ==
  ASSUME NEW x, Blank(x)
  PROVE  KeysOf(x) = {0}
BY NothingFacts DEF Blank, KeysOf

\* The meetings of an editor that goes on with its row, or ends.
Continues(m, n) == m.pc = "idle" \/ (n.pc # "idle" /\ m.on = n.on /\ m.met = n.met)
LEMMA MeetingsStay ==
  ASSUME TypeInv, Meetings, NEW e \in Editors, NEW m,
         edit' = [edit EXCEPT ![e] = m], Continues(m, edit[e]), UNCHANGED rotation
  PROVE  Meetings'
<1>1. RotatorsMeet'
  BY DEF Meetings, RotatorsMeet
<1>2. \A f \in Editors : edit'[f] = IF f = e THEN m ELSE edit[f]
  BY DEF TypeInv, TypeOK
<1>3. EditorsMeetRotations'
  BY <1>2 DEF Meetings, EditorsMeetRotations, Rewriting, Undisturbed, AtWork, Continues
<1>4. EditorsMeet'
  BY <1>2 DEF Meetings, EditorsMeet, AtWork, Continues
<1> QED BY <1>1, <1>3, <1>4 DEF Meetings

\* An editor that only looks, or seals with the stored key, or ends.
LEMMA EditStays ==
  ASSUME TypeInv, SecretInv, NEW e \in Editors, NEW m,
         edit' = [edit EXCEPT ![e] = m],
         Continues(m, edit[e]), m.pc # "idle" => m.copy = edit[e].copy,
         m.pc = "keyed" => m.seen = key',
         key' = key \/ key = 0, UNCHANGED <<row, rotation, exposed>>
  PROVE  SecretInv'
<1>1. Meetings'
  BY MeetingsStay DEF SecretInv
<1>2. \A f \in Editors : edit'[f] = IF f = e THEN m ELSE edit[f]
  BY DEF TypeInv, TypeOK
<1>3. SealsWithStoredKey'
  BY <1>2 DEF SecretInv, SealsWithStoredKey, Undisturbed, AtWork, Continues, TypeInv, MemoriesInOrder
<1>4. CopiesOpen'
  BY <1>2 DEF SecretInv, CopiesOpen, Undisturbed, AtWork, Continues
<1>5. RowsOpen'
  BY DEF SecretInv, RowsOpen, Lone, Rewriting
<1>6. EverythingListed'
  BY DEF SecretInv, EverythingListed, Covers, Lone, Rewriting
<1> QED BY <1>1, <1>3, <1>4, <1>5, <1>6 DEF SecretInv

\* The save of an editor: it leaves the row exposed if it met a rotation; a row it makes
\* good, or that was good before, opens with the stored key.
LEMMA SaveKeeps ==
  ASSUME TypeInv, SecretInv, NEW e \in Editors, AtWork(e), NEW x,
         NEW r \in Rows, r = edit[e].on, row' = [row EXCEPT ![r] = x],
         edit' = [edit EXCEPT ![e] = NoEdit], UNCHANGED <<key, rotation>>,
         "rotation" \in edit[e].met => exposed' = exposed \cup {r},
         "rotation" \notin edit[e].met => exposed' \in {exposed, exposed \ {r}},
         r \in exposed /\ r \notin exposed' => edit[e].met = {},
         "rotation" \notin edit[e].met /\ r \in Listed \ exposed' => KeysOf(x) \subseteq {0, key}
  PROVE  SecretInv'
<1>1. Meetings'
  BY MeetingsStay, NothingFacts DEF SecretInv, Continues
<1>2. \A f \in Editors : edit'[f] = IF f = e THEN NoEdit ELSE edit[f]
  BY DEF TypeInv, TypeOK
<1>3. SealsWithStoredKey'
  BY <1>2, NothingFacts DEF SecretInv, SealsWithStoredKey, Undisturbed, AtWork
<1>4. CopiesOpen'
  <2> SUFFICES ASSUME NEW f \in Editors, Undisturbed(f)', edit'[f].on \in Listed \ exposed'
               PROVE  (KeysOf(edit[f].copy) \subseteq {0, key})'
    BY DEF CopiesOpen
  <2>1. f # e /\ edit'[f] = edit[f] /\ Undisturbed(f) /\ edit[f].on \in Listed \ exposed'
    BY <1>2, NothingFacts DEF Undisturbed, AtWork
  <2>2. edit[f].on \in Listed \ exposed
    <3>1. CASE edit[f].on = r
      BY <2>1, <3>1 DEF SecretInv, Meetings, EditorsMeet, Undisturbed
    <3>2. CASE edit[f].on # r
      BY <2>1, <3>2
    <3> QED BY <3>1, <3>2
  <2> QED BY <2>1, <2>2 DEF SecretInv, CopiesOpen
<1>5. CASE "rotation" \in edit[e].met
  <2>1. \A s \in Rows \ exposed' : s \notin exposed /\ row'[s] = row[s]
    BY <1>5 DEF TypeInv, TypeOK
  <2>2. RowsOpen'
    BY <2>1 DEF SecretInv, RowsOpen, Lone, Rewriting, Rows, Listed
  <2>3. EverythingListed'
    BY <2>1 DEF SecretInv, EverythingListed, Covers, Lone, Rewriting, Rows, Listed
  <2> QED BY <1>1, <1>3, <1>4, <2>2, <2>3 DEF SecretInv
<1>6. CASE "rotation" \notin edit[e].met
  <2>1. \A w \in Rotators : ~Rewriting(w)
    BY <1>6 DEF SecretInv, Meetings, EditorsMeetRotations, Undisturbed
  <2>2. \A s \in Listed \ exposed' : KeysOf(row'[s]) \subseteq {0, key}
    <3> SUFFICES ASSUME NEW s \in Listed \ exposed' PROVE KeysOf(row'[s]) \subseteq {0, key}
      OBVIOUS
    <3>1. CASE s = r
      BY <1>6, <3>1 DEF TypeInv, TypeOK
    <3>2. CASE s # r
      BY <1>6, <2>1, <3>2 DEF SecretInv, RowsOpen, Lone, Rows, Listed, TypeInv, TypeOK
    <3> QED BY <3>1, <3>2
  <2>3. RowsOpen'
    BY <2>1, <2>2 DEF RowsOpen, Lone, Rewriting
  <2>4. EverythingListed'
    BY <2>1 DEF EverythingListed, Lone, Rewriting
  <2> QED BY <1>1, <1>3, <1>4, <2>3, <2>4 DEF SecretInv
<1> QED BY <1>5, <1>6

LEMMA LoadKeeps ==
  ASSUME TypeInv, SecretInv, NEW e \in Editors, NEW r \in Rows, NEW kind \in Edits, Load(e, r, kind)
  PROVE  SecretInv'
<1> DEFINE m == [pc |-> "loaded", kind |-> kind, on |-> r, copy |-> row[r], seen |-> 0,
                 met |-> (IF Rotating # {} THEN {"rotation"} ELSE {})
                         \cup (IF Editing(r) # {} THEN {"edit"} ELSE {})]
<1>1. /\ m.pc = "loaded" /\ m.on = r /\ m.copy = row[r]
      /\ "rotation" \in m.met <=> Rotating # {}
      /\ "edit" \in m.met <=> Editing(r) # {}
  OBVIOUS
<1>2. edit' = [f \in Editors |-> IF f = e THEN m
                 ELSE IF f \in Editing(r) THEN [edit[f] EXCEPT !.met = @ \cup {"edit"}] ELSE edit[f]]
  BY DEF Load
<1> HIDE DEF m
<1>3. /\ edit[e].pc = "idle" /\ edit'[e] = m
      /\ UNCHANGED <<key, row, rotation, minted, granted, newest, exposed, contended>>
  BY <1>2 DEF Load, history
<1>4. ASSUME NEW f \in Editors, f # e
      PROVE  /\ edit'[f].pc = edit[f].pc /\ edit'[f].on = edit[f].on /\ edit'[f].copy = edit[f].copy
             /\ edit'[f].seen = edit[f].seen
             /\ "rotation" \in edit'[f].met <=> "rotation" \in edit[f].met
             /\ edit[f].met \subseteq edit'[f].met
             /\ edit[f].pc # "idle" /\ edit[f].on = r => "edit" \in edit'[f].met
  <2>1. edit[f] \in Edit
    BY DEF TypeInv, TypeOK
  <2>2. CASE f \in Editing(r)
    <3>1. edit'[f] = [edit[f] EXCEPT !.met = @ \cup {"edit"}]
      BY <1>2, <1>4, <2>2
    <3> QED BY <2>1, <3>1 DEF Edit
  <2>3. CASE f \notin Editing(r)
    BY <1>2, <1>4, <2>3 DEF Editing
  <2> QED BY <2>2, <2>3
<1>5. Rotating # {} <=> \E w \in Rotators : Rewriting(w)
  BY DEF Rotating, Rewriting
<1>6. Meetings'
  <2>1. RotatorsMeet'
    BY <1>3 DEF SecretInv, Meetings, RotatorsMeet
  <2>2. EditorsMeetRotations'
    BY <1>1, <1>3, <1>4, <1>5 DEF SecretInv, Meetings, EditorsMeetRotations, Undisturbed, AtWork, Rewriting
  <2>3. EditorsMeet'
    <3> SUFFICES ASSUME NEW f \in Editors, NEW g \in Editors, f # g, edit'[f].pc # "idle", edit'[g].pc # "idle",
                        edit'[f].on = edit'[g].on
                 PROVE  "edit" \in edit'[f].met
      BY DEF EditorsMeet, AtWork
    <3>1. CASE f = e
      <4>1. g \in Editing(r)
        BY <1>1, <1>3, <1>4, <3>1 DEF Editing
      <4> QED BY <1>1, <1>3, <3>1, <4>1
    <3>2. CASE g = e
      BY <1>1, <1>3, <1>4, <3>2
    <3>3. CASE f # e /\ g # e
      BY <1>4, <3>3 DEF SecretInv, Meetings, EditorsMeet, AtWork
    <3> QED BY <3>1, <3>2, <3>3
  <2> QED BY <2>1, <2>2, <2>3 DEF Meetings
<1>7. SealsWithStoredKey'
  BY <1>1, <1>3, <1>4 DEF SecretInv, SealsWithStoredKey, Undisturbed, AtWork
<1>8. CopiesOpen'
  <2>1. "rotation" \notin m.met /\ r \in Listed \ exposed => KeysOf(row[r]) \subseteq {0, key}
    BY <1>1, <1>5 DEF SecretInv, RowsOpen, Lone
  <2> QED BY <1>1, <1>3, <1>4, <2>1 DEF SecretInv, CopiesOpen, Undisturbed, AtWork
<1>9. RowsOpen' /\ EverythingListed'
  BY <1>3 DEF SecretInv, RowsOpen, EverythingListed, Covers, Lone, Rewriting
<1> QED BY <1>6, <1>7, <1>8, <1>9 DEF SecretInv

LEMMA EditorSecrets ==
  ASSUME TypeInv, SecretInv, NEW e \in Editors, EditorStep(e)
  PROVE  SecretInv'
<1>0. edit[e] \in Edit /\ edit[e].on \in Rows /\ edit[e].copy \in Row
  BY DEF TypeInv, TypeOK, Edit
<1>1. CASE UNCHANGED <<key, row, rotation, minted, granted, history>> /\ edit' = [edit EXCEPT ![e] = NoEdit]
  BY <1>1, NothingFacts, EditStays DEF Continues, history
<1>2. CASE UseToken(e)
  <2>1. CASE edit' = [edit EXCEPT ![e].pc = "used"]
    <3> DEFINE m == [edit[e] EXCEPT !.pc = "used"]
    <3>1. m.pc = "used" /\ m.on = edit[e].on /\ m.copy = edit[e].copy /\ m.met = edit[e].met
      BY <1>0 DEF Edit
    <3>2. edit' = [edit EXCEPT ![e] = m]
      BY <2>1 DEF TypeInv, TypeOK
    <3> HIDE DEF m
    <3> QED BY <1>2, <3>1, <3>2, EditStays DEF Continues, UseToken, history
  <2> QED BY <1>1, <1>2, <2>1 DEF UseToken
<1>3. CASE GetDek(e)
  <2> DEFINE m == [edit[e] EXCEPT !.pc = "keyed", !.seen = key]
  <2>1. m.pc = "keyed" /\ m.on = edit[e].on /\ m.copy = edit[e].copy /\ m.met = edit[e].met /\ m.seen = key
    BY <1>0 DEF Edit
  <2>2. edit' = [edit EXCEPT ![e] = m] /\ edit[e].pc # "idle"
    BY <1>3 DEF GetDek, NeedsKey, TypeInv, TypeOK
  <2> HIDE DEF m
  <2> QED BY <1>3, <2>1, <2>2, EditStays DEF Continues, GetDek, history
<1>4. CASE GenerateFirstDek(e)
  <2> DEFINE m == [edit[e] EXCEPT !.pc = "keyless", !.seen = minted']
  <2>1. m.pc = "keyless" /\ m.on = edit[e].on /\ m.copy = edit[e].copy /\ m.met = edit[e].met
    BY <1>0 DEF Edit
  <2>2. edit' = [edit EXCEPT ![e] = m] /\ edit[e].pc # "idle"
    BY <1>4 DEF GenerateFirstDek, NeedsKey, TypeInv, TypeOK
  <2> HIDE DEF m
  <2> QED BY <1>4, <2>1, <2>2, EditStays DEF Continues, GenerateFirstDek, history
<1>5. CASE CreateTenantKey(e)
  <2>1. CASE key = 0
    <3> DEFINE m == [edit[e] EXCEPT !.pc = "keyed"]
    <3>1. m.pc = "keyed" /\ m.on = edit[e].on /\ m.copy = edit[e].copy /\ m.met = edit[e].met
          /\ m.seen = edit[e].seen
      BY <1>0 DEF Edit
    <3>2. edit' = [edit EXCEPT ![e] = m] /\ key' = edit[e].seen /\ edit[e].pc # "idle"
      BY <1>5, <2>1 DEF CreateTenantKey, TypeInv, TypeOK
    <3> HIDE DEF m
    <3> QED BY <1>5, <2>1, <3>1, <3>2, EditStays DEF Continues, CreateTenantKey, history
  <2>2. CASE key # 0
    BY <1>1, <1>5, <2>2 DEF CreateTenantKey
  <2> QED BY <2>1, <2>2
<1>6. CASE InsertEmpty(e)
  <2> DEFINE bare == [NoRow EXCEPT !.there = TRUE, !.label = edit[e].seen]
             m == [edit[e] EXCEPT !.pc = "loaded", !.copy = bare]
  <2>1. Blank(bare)
    BY DEF NoRow, Blank
  <2>2. row' = [row EXCEPT ![edit[e].on] = bare] /\ edit' = [edit EXCEPT ![e] = m] /\ edit[e].pc = "keyed"
        /\ UNCHANGED <<key, rotation, exposed>>
    BY <1>6 DEF InsertEmpty, history, TypeInv, TypeOK
  <2> HIDE DEF bare
  <2>3. m.pc = "loaded" /\ m.on = edit[e].on /\ m.copy = bare /\ m.met = edit[e].met
    BY <1>0 DEF Edit
  <2> HIDE DEF m
  <2>4. Meetings'
    BY <2>2, <2>3, MeetingsStay DEF SecretInv, Continues
  <2>5. \A f \in Editors : edit'[f] = IF f = e THEN m ELSE edit[f]
    BY <2>2 DEF TypeInv, TypeOK
  <2>6. SealsWithStoredKey'
    BY <2>2, <2>3, <2>5 DEF SecretInv, SealsWithStoredKey, Undisturbed, AtWork
  <2>7. KeysOf(bare) = {0}
    BY <2>1, BlankKeys
  <2>8. CopiesOpen'
    BY <2>2, <2>3, <2>5, <2>7 DEF SecretInv, CopiesOpen, Undisturbed, AtWork
  <2>9. \A s \in Rows : row'[s] = row[s] \/ (row'[s] = bare)
    BY <1>0, <2>2 DEF TypeInv, TypeOK
  <2>10. RowsOpen'
    BY <2>2, <2>7, <2>9 DEF SecretInv, RowsOpen, Lone, Rewriting, Rows, Listed
  <2>11. EverythingListed'
    BY <2>1, <2>2, <2>9 DEF SecretInv, EverythingListed, Covers, Lone, Rewriting, Rows, Listed
  <2> QED BY <2>4, <2>6, <2>8, <2>10, <2>11 DEF SecretInv
<1>7. CASE SaveSecret(e)
  <2> PICK c \in SavedColumns(e) :
        /\ row' = [row EXCEPT ![edit[e].on] = [there |-> TRUE, access |-> c.access, refresh |-> c.refresh,
                                               label |-> edit[e].seen]]
        /\ Remember(edit[e].on, edit[e].met, c.access = Fresh(e) /\
                      (c.refresh # edit[e].copy.refresh \/ edit[e].on \notin Credentials))
    BY <1>7 DEF SaveSecret
  <2> DEFINE x == [there |-> TRUE, access |-> c.access, refresh |-> c.refresh, label |-> edit[e].seen]
             renewed == c.access = Fresh(e) /\ (c.refresh # edit[e].copy.refresh \/ edit[e].on \notin Credentials)
  <2>1. /\ edit[e].pc = "keyed" /\ granted < MaxGrants /\ edit' = [edit EXCEPT ![e] = NoEdit]
        /\ UNCHANGED <<key, rotation>>
    BY <1>7 DEF SaveSecret
  <2>2. /\ Fresh(e).key = edit[e].seen
        /\ c.access \in {Fresh(e), edit[e].copy.access}
        /\ c.refresh \in {Fresh(e), edit[e].copy.refresh, Empty}
        /\ edit[e].on \notin Credentials => c.refresh = edit[e].copy.refresh
    BY <2>1, SavedFacts
  <2>3. ASSUME "rotation" \notin edit[e].met, edit[e].on \in Listed \ exposed' PROVE KeysOf(x) \subseteq {0, key}
    <3>1. edit[e].seen = key
      BY <2>1, <2>3 DEF SecretInv, SealsWithStoredKey, Undisturbed, AtWork
    <3>2. CASE edit[e].on \notin exposed
      <4>1. KeysOf(edit[e].copy) \subseteq {0, key}
        BY <2>1, <2>3, <3>2 DEF SecretInv, CopiesOpen, Undisturbed, AtWork
      <4> QED BY <2>2, <3>1, <4>1, NothingFacts DEF KeysOf
    <3>3. CASE edit[e].on \in exposed
      <4>1. renewed
        BY <2>3, <3>3 DEF Remember
      <4>2. edit[e].on \notin Credentials => edit[e].copy.refresh = Empty
        BY DEF TypeInv, CopiesInOrder, Plain
      <4> QED BY <2>2, <3>1, <4>1, <4>2, NothingFacts DEF KeysOf
    <3> QED BY <3>2, <3>3
  <2>4. /\ "rotation" \in edit[e].met => exposed' = exposed \cup {edit[e].on}
        /\ "rotation" \notin edit[e].met => exposed' \in {exposed, exposed \ {edit[e].on}}
        /\ edit[e].on \in exposed /\ edit[e].on \notin exposed' => edit[e].met = {}
    BY DEF Remember
  <2> HIDE DEF x, renewed
  <2>5. row' = [row EXCEPT ![edit[e].on] = x] /\ AtWork(e)
    BY <2>1 DEF x, AtWork
  <2> QED BY <1>0, <2>1, <2>3, <2>4, <2>5, SaveKeeps
<1>8. CASE SaveUnchanged(e)
  <2>1. /\ row' = [row EXCEPT ![edit[e].on] = edit[e].copy] /\ AtWork(e)
        /\ edit' = [edit EXCEPT ![e] = NoEdit] /\ UNCHANGED <<key, rotation>>
    BY <1>8 DEF SaveUnchanged, AtWork
  <2>2. exposed' = IF "rotation" \in edit[e].met THEN exposed \cup {edit[e].on} ELSE exposed
    BY <1>8 DEF SaveUnchanged, Remember
  <2>3. "rotation" \notin edit[e].met /\ edit[e].on \in Listed \ exposed' => KeysOf(edit[e].copy) \subseteq {0, key}
    BY <2>1, <2>2 DEF SecretInv, CopiesOpen, Undisturbed
  <2> QED BY <1>0, <2>1, <2>2, <2>3, SaveKeeps
<1> QED BY <1>1, <1>2, <1>3, <1>4, <1>5, <1>6, <1>7, <1>8, LoadKeeps DEF EditorStep, DropEdit

\* A lone rotation leaves all others idle.
LEMMA LoneIsAlone ==
  ASSUME SecretInv, NEW w \in Rotators, Lone(w), NEW v \in Rotators, v # w
  PROVE  rotation[v].pc = "idle" /\ ~Rewriting(v)
BY DEF Lone, Rewriting, SecretInv, Meetings, RotatorsMeet

\* A rotator that is done with its rotation.
LEMMA EndKeeps ==
  ASSUME TypeInv, SecretInv, NEW w \in Rotators, rotation' = [rotation EXCEPT ![w] = NoRotation],
         UNCHANGED <<row, edit>>, exposed \subseteq exposed',
         key' = key \/ Rewriting(w),
         \/ Lone(w) /\ \A r \in Listed \ exposed' : KeysOf(row[r]) \subseteq {0, key'}
         \/ ~Lone(w) /\ key' = key /\ rotation[w].written \subseteq exposed'
         \/ Rows \subseteq exposed'
  PROVE  SecretInv'
<1>1. \A v \in Rotators : rotation'[v] = IF v = w THEN NoRotation ELSE rotation[v]
  BY DEF TypeInv, TypeOK
<1>2. Meetings'
  BY <1>1, NothingFacts DEF SecretInv, Meetings, RotatorsMeet, EditorsMeetRotations, EditorsMeet, Rewriting,
                            Undisturbed, AtWork
<1>3. ASSUME Rewriting(w) PROVE \A e \in Editors : ~Undisturbed(e)
  BY <1>3 DEF SecretInv, Meetings, EditorsMeetRotations
<1>4. SealsWithStoredKey' /\ CopiesOpen'
  BY <1>3 DEF SecretInv, SealsWithStoredKey, CopiesOpen, Undisturbed, AtWork
<1>5. \A v \in Rotators : (Lone(v)' => Lone(v) /\ v # w) /\ (Rewriting(v) /\ v # w => Rewriting(v)')
  BY <1>1, NothingFacts DEF Lone, Rewriting
<1>6. RowsOpen'
  <2>1. CASE Lone(w) /\ \A r \in Listed \ exposed' : KeysOf(row[r]) \subseteq {0, key'}
    <3>1. \A v \in Rotators : ~Lone(v)'
      BY <1>5, <2>1, LoneIsAlone DEF Lone
    <3> QED BY <2>1, <3>1 DEF RowsOpen
  <2>2. CASE ~Lone(w) /\ key' = key /\ rotation[w].written \subseteq exposed'
    <3> SUFFICES ASSUME NEW r \in Listed \ exposed'
                 PROVE  /\ \A v \in Rotators : Lone(v)' /\ r \in rotation'[v].written =>
                             KeysOf(row'[r]) \subseteq {0, rotation'[v].new}
                        /\ (\A v \in Rotators : Rewriting(v)' => r \notin rotation'[v].written)
                             => KeysOf(row'[r]) \subseteq {0, key'}
      BY DEF RowsOpen
    <3>1. r \in Listed \ exposed /\ r \notin rotation[w].written
      BY <2>2
    <3> QED BY <1>1, <1>5, <2>2, <3>1 DEF SecretInv, RowsOpen
  <2>3. CASE Rows \subseteq exposed'
    BY <2>3 DEF RowsOpen, Rows, Listed
  <2> QED BY <2>1, <2>2, <2>3
<1>7. EverythingListed'
  BY <1>1, <1>5 DEF SecretInv, EverythingListed, Covers, Lone, Rewriting, Rows, Listed
<1> QED BY <1>2, <1>4, <1>6, <1>7 DEF SecretInv

LEMMA LoadTenantKeyKeeps ==
  ASSUME TypeInv, SecretInv, NEW w \in Rotators, LoadTenantKey(w)
  PROVE  SecretInv'
<1> DEFINE others == {v \in Rotators \ {w} : rotation[v].pc # "idle"}
           m == [NoRotation EXCEPT !.pc = "loaded", !.old = key, !.met = others # {}]
<1>1. m.pc = "loaded" /\ (m.met <=> others # {})
  BY DEF NoRotation
<1>2. rotation' = [v \in Rotators |->
         IF v = w THEN m ELSE IF v \in others THEN [rotation[v] EXCEPT !.met = TRUE] ELSE rotation[v]]
  BY DEF LoadTenantKey
<1> HIDE DEF m
<1>3. UNCHANGED <<key, row, edit, exposed>> /\ rotation'[w] = m /\ rotation[w].pc = "idle"
  BY <1>2 DEF LoadTenantKey, history
<1>4. ASSUME NEW v \in Rotators, v # w
      PROVE  /\ rotation'[v].pc = rotation[v].pc /\ rotation'[v].written = rotation[v].written
             /\ rotation[v].pc # "idle" => rotation'[v].met
  <2>1. rotation[v] \in Rotation
    BY DEF TypeInv, TypeOK
  <2>2. CASE v \in others
    BY <1>2, <1>4, <2>1, <2>2 DEF Rotation
  <2>3. CASE v \notin others
    BY <1>2, <1>4, <2>3
  <2> QED BY <2>2, <2>3
<1>5. RotatorsMeet'
  <2> SUFFICES ASSUME NEW v \in Rotators, NEW u \in Rotators, v # u,
                      rotation'[v].pc # "idle", rotation'[u].pc # "idle"
               PROVE  rotation'[v].met
    BY DEF RotatorsMeet
  <2>1. CASE v = w
    <3>1. u \in others
      BY <1>4, <2>1
    <3> QED BY <1>1, <1>3, <2>1, <3>1
  <2>2. CASE v # w
    BY <1>4, <2>2
  <2> QED BY <2>1, <2>2
<1>6. ASSUME NEW v \in Rotators
      PROVE  (Rewriting(v)' <=> Rewriting(v)) /\ ~Lone(v)' /\ (Rewriting(v) => rotation'[v].written = rotation[v].written)
  <2>1. CASE v = w
    BY <1>1, <1>3, <2>1 DEF Rewriting, Lone
  <2>2. CASE v # w
    BY <1>4, <2>2 DEF Rewriting, Lone
  <2> QED BY <2>1, <2>2
<1>7. Meetings'
  BY <1>3, <1>5, <1>6 DEF SecretInv, Meetings, EditorsMeetRotations, EditorsMeet, Undisturbed, AtWork
<1>8. SealsWithStoredKey' /\ CopiesOpen'
  BY <1>3 DEF SecretInv, SealsWithStoredKey, CopiesOpen, Undisturbed, AtWork
<1>9. RowsOpen'
  BY <1>3, <1>6 DEF SecretInv, RowsOpen
<1>10. EverythingListed'
  BY <1>6 DEF EverythingListed
<1> QED BY <1>7, <1>8, <1>9, <1>10 DEF SecretInv

LEMMA StartKeeps ==
  ASSUME TypeInv, SecretInv, NEW w \in Rotators, StartRotation(w)
  PROVE  SecretInv'
<1> DEFINE me == rotation[w]
           m == [me EXCEPT !.pc = "credentials", !.new = minted', !.copy = Listing(Credentials),
                           !.todo = {r \in Credentials : row[r].there}]
<1>1. m.pc = "credentials" /\ m.todo = {r \in Credentials : row[r].there} /\ m.met = me.met /\ m.written = {}
  BY DEF Rotation, StartRotation, TypeInv, TypeOK, MemoriesInOrder
<1>2. rotation' = [rotation EXCEPT ![w] = m] /\ rotation'[w] = m /\ me.pc = "loaded"
  BY DEF StartRotation, TypeInv, TypeOK
<1> HIDE DEF m
<1>3. \A v \in Rotators : v # w => rotation'[v] = rotation[v]
  BY <1>2 DEF TypeInv, TypeOK
<1>4. UNCHANGED <<key, row, exposed>>
  BY DEF StartRotation, history
<1>5. ASSUME NEW f \in Editors
      PROVE  /\ edit'[f].pc = edit[f].pc /\ edit'[f].on = edit[f].on /\ edit'[f].seen = edit[f].seen
             /\ edit'[f].pc # "idle" => "rotation" \in edit'[f].met
             /\ edit[f].met \subseteq edit'[f].met
  <2>1. edit[f] \in Edit
    BY DEF TypeInv, TypeOK
  <2> QED BY <2>1 DEF StartRotation, Edit
<1>6. \A f \in Editors : ~Undisturbed(f)'
  BY <1>5 DEF Undisturbed, AtWork
<1>7. RotatorsMeet'
  <2> SUFFICES ASSUME NEW v \in Rotators, NEW u \in Rotators, v # u,
                      rotation'[v].pc # "idle", rotation'[u].pc # "idle"
               PROVE  rotation'[v].met
    BY DEF RotatorsMeet
  <2> QED BY <1>1, <1>2, <1>3 DEF SecretInv, Meetings, RotatorsMeet
<1>8. Meetings'
  BY <1>5, <1>6, <1>7 DEF SecretInv, Meetings, EditorsMeetRotations, EditorsMeet, AtWork
<1>9. SealsWithStoredKey' /\ CopiesOpen'
  BY <1>6 DEF SealsWithStoredKey, CopiesOpen
<1>10. \A v \in Rotators : /\ v # w => (Lone(v)' <=> Lone(v)) /\ (Rewriting(v)' <=> Rewriting(v))
                           /\ ~Rewriting(w)
  BY <1>2, <1>3 DEF Lone, Rewriting
<1>11. RowsOpen'
  <2> SUFFICES ASSUME NEW r \in Listed \ exposed'
               PROVE  /\ \A v \in Rotators : Lone(v)' /\ r \in rotation'[v].written =>
                           KeysOf(row'[r]) \subseteq {0, rotation'[v].new}
                      /\ (\A v \in Rotators : Rewriting(v)' => r \notin rotation'[v].written)
                           => KeysOf(row'[r]) \subseteq {0, key'}
    BY DEF RowsOpen
  <2> QED BY <1>1, <1>2, <1>3, <1>4, <1>10 DEF SecretInv, RowsOpen
<1>12. EverythingListed'
  <2> SUFFICES ASSUME NEW v \in Rotators, Lone(v)'
               PROVE  /\ \A r \in Credentials \ exposed' : Covers(v, r)'
                      /\ rotation'[v].pc = "channels" => \A r \in Channels \ exposed' : Covers(v, r)'
    BY DEF EverythingListed
  <2>1. CASE v = w
    <3>1. \A r \in Credentials : ~row[r].there => Blank(row[r])
      BY DEF TypeInv, CopiesInOrder, Plain, Blank, Rows, Listed
    <3> QED BY <1>1, <1>2, <1>4, <2>1, <3>1 DEF Covers
  <2>2. CASE v # w
    BY <1>3, <1>4, <1>10, <2>2 DEF SecretInv, EverythingListed, Covers
  <2> QED BY <2>1, <2>2
<1> QED BY <1>8, <1>9, <1>11, <1>12 DEF SecretInv

\* A step of one rotator's loops, that leaves the key, the editors and the meetings alone.
LEMMA RotateKeeps ==
  ASSUME TypeInv, SecretInv, NEW w \in Rotators, NEW r \in Rows, RotateRow(w, r)
  PROVE  SecretInv'
<1> DEFINE me == rotation[w]
           m == [me EXCEPT !.todo = @ \ {r}, !.written = @ \cup {r}]
           x == Rotated(me.copy[r], me.new)
<1>1. me \in Rotation /\ Plain(r, me.copy[r])
  BY DEF TypeInv, TypeOK, CopiesInOrder
<1>2. /\ m.pc = me.pc /\ m.new = me.new /\ m.met = me.met
      /\ m.todo = me.todo \ {r} /\ m.written = me.written \cup {r}
  BY <1>1 DEF Rotation
<1>3. rotation' = [rotation EXCEPT ![w] = m] /\ row' = [row EXCEPT ![r] = x] /\ UNCHANGED <<key, edit>>
  BY DEF RotateRow, TypeInv, TypeOK
<1>4. Rewriting(w) /\ exposed' = IF me.met THEN exposed \cup {r} ELSE exposed
  BY DEF RotateRow, Rewriting, TypeInv, MemoriesInOrder
<1>5. KeysOf(x) \subseteq {0, me.new}
  <2>1. me.copy[r] \in Row /\ me.new \in Keys /\ me.new # 0
    BY <1>1, <1>4 DEF Rotation, Rewriting, TypeInv, MemoriesInOrder
  <2> QED BY <1>1, <2>1, RotatedFacts DEF KeysOf
<1> HIDE DEF m, x
<1>6. \A v \in Rotators : rotation'[v] = IF v = w THEN m ELSE rotation[v]
  BY <1>3 DEF TypeInv, TypeOK
<1>7. \A v \in Rotators : (Rewriting(v)' <=> Rewriting(v)) /\ (Lone(v)' <=> Lone(v))
  BY <1>2, <1>6 DEF Rewriting, Lone
<1>8. \A s \in Rows : row'[s] = IF s = r THEN x ELSE row[s]
  BY <1>3 DEF TypeInv, TypeOK
<1>9. Meetings'
  BY <1>2, <1>3, <1>6, <1>7 DEF SecretInv, Meetings, RotatorsMeet, EditorsMeetRotations, EditorsMeet,
                                Undisturbed, AtWork
<1>10. \A e \in Editors : ~Undisturbed(e)'
  BY <1>3, <1>4 DEF SecretInv, Meetings, EditorsMeetRotations, Undisturbed, AtWork
<1>11. SealsWithStoredKey' /\ CopiesOpen'
  BY <1>10 DEF SealsWithStoredKey, CopiesOpen
<1>12. RowsOpen'
  <2> SUFFICES ASSUME NEW s \in Listed \ exposed'
               PROVE  /\ \A v \in Rotators : Lone(v)' /\ s \in rotation'[v].written =>
                           KeysOf(row'[s]) \subseteq {0, rotation'[v].new}
                      /\ (\A v \in Rotators : Rewriting(v)' => s \notin rotation'[v].written)
                           => KeysOf(row'[s]) \subseteq {0, key'}
    BY DEF RowsOpen
  <2>1. CASE s = r
    <3>1. Lone(w)
      BY <1>4, <2>1 DEF Lone
    <3>2. \A v \in Rotators : Lone(v) => v = w
      BY <3>1, LoneIsAlone DEF Lone
    <3> QED BY <1>2, <1>4, <1>5, <1>6, <1>7, <1>8, <2>1, <3>2 DEF Rows, Listed
  <2>2. CASE s # r
    <3>1. s \in Listed \ exposed /\ \A v \in Rotators : /\ s \in rotation'[v].written <=> s \in rotation[v].written
                                                      /\ rotation'[v].new = rotation[v].new
      BY <1>2, <1>4, <1>6, <2>2
    <3>2. row'[s] = row[s] /\ key' = key
      BY <1>3, <1>8, <2>2 DEF Rows
    <3> QED BY <1>7, <3>1, <3>2 DEF SecretInv, RowsOpen
  <2> QED BY <2>1, <2>2
<1>13. EverythingListed'
  <2> SUFFICES ASSUME NEW v \in Rotators, Lone(v), NEW s \in Rows \ exposed', Covers(v, s)
               PROVE  Covers(v, s)'
    BY <1>2, <1>4, <1>6, <1>7 DEF SecretInv, EverythingListed, Rows, Listed
  <2>1. v = w
    BY <1>4, LoneIsAlone
  <2> QED BY <1>2, <1>6, <1>8, <2>1 DEF Covers
<1> QED BY <1>9, <1>11, <1>12, <1>13 DEF SecretInv

LEMMA ListKeeps ==
  ASSUME TypeInv, SecretInv, NEW w \in Rotators, ListChannels(w)
  PROVE  SecretInv'
<1> DEFINE me == rotation[w]
           m == [me EXCEPT !.pc = "channels", !.copy = Listing(Channels), !.todo = {r \in Channels : row[r].access # Empty}]
<1>1. /\ m.pc = "channels" /\ m.new = me.new /\ m.met = me.met /\ m.written = me.written
      /\ m.todo = {r \in Channels : row[r].access # Empty}
  BY DEF Rotation, TypeInv, TypeOK
<1>2. /\ rotation' = [rotation EXCEPT ![w] = m] /\ me.pc = "credentials" /\ me.todo = {}
      /\ UNCHANGED <<key, row, edit, exposed>>
  BY DEF ListChannels, history, TypeInv, TypeOK
<1> HIDE DEF m
<1>3. \A v \in Rotators : rotation'[v] = IF v = w THEN m ELSE rotation[v]
  BY <1>2 DEF TypeInv, TypeOK
<1>4. \A v \in Rotators : (Rewriting(v)' <=> Rewriting(v)) /\ (Lone(v)' <=> Lone(v))
  BY <1>1, <1>2, <1>3 DEF Rewriting, Lone
<1>5. Meetings'
  BY <1>1, <1>2, <1>3, <1>4 DEF SecretInv, Meetings, RotatorsMeet, EditorsMeetRotations, EditorsMeet,
                                Undisturbed, AtWork
<1>6. SealsWithStoredKey' /\ CopiesOpen'
  BY <1>2 DEF SecretInv, SealsWithStoredKey, CopiesOpen, Undisturbed, AtWork
<1>7. RowsOpen'
  BY <1>1, <1>2, <1>3, <1>4 DEF SecretInv, RowsOpen
<1>8. EverythingListed'
  <2> SUFFICES ASSUME NEW v \in Rotators, Lone(v)
               PROVE  /\ \A r \in Credentials \ exposed : Covers(v, r)'
                      /\ rotation'[v].pc = "channels" => \A r \in Channels \ exposed : Covers(v, r)'
    BY <1>2, <1>4 DEF EverythingListed
  <2>1. CASE v = w
    <3>1. \A r \in Credentials \ exposed : r \in me.written \/ Blank(row[r])
      BY <1>2, <2>1 DEF SecretInv, EverythingListed, Covers
    <3>2. \A r \in Channels \ exposed : r \in me.written \/ Blank(row[r]) \/ (r \in m.todo /\ r \notin Credentials)
      BY <1>1, <3>1 DEF Blank, Rows, Listed, TypeInv, CopiesInOrder, Plain
    <3> QED BY <1>1, <1>2, <1>3, <2>1, <3>1, <3>2 DEF Covers
  <2>2. CASE v # w
    BY <1>2, <1>3, <2>2 DEF SecretInv, EverythingListed, Covers
  <2> QED BY <2>1, <2>2
<1> QED BY <1>5, <1>6, <1>7, <1>8 DEF SecretInv

LEMMA RotatorSecrets ==
  ASSUME TypeInv, SecretInv, NEW w \in Rotators, RotatorStep(w)
  PROVE  SecretInv'
<1>1. CASE KmsFails(w) \/ AbortRotation(w) \/ LoseRotator(w)
  <2>1. /\ rotation' = [rotation EXCEPT ![w] = NoRotation] /\ UNCHANGED <<key, row, edit>>
        /\ exposed \subseteq exposed'
    BY <1>1 DEF KmsFails, AbortRotation, LoseRotator, history
  <2>2. rotation[w].written \subseteq exposed'
    BY <1>1 DEF KmsFails, AbortRotation, LoseRotator, history, TypeInv, MemoriesInOrder
  <2>3. ASSUME Lone(w), NEW r \in Listed \ exposed' PROVE KeysOf(row[r]) \subseteq {0, key'}
    <3>1. \A v \in Rotators : Rewriting(v) => v = w
      BY <2>3, LoneIsAlone
    <3> QED BY <2>1, <2>2, <2>3, <3>1 DEF SecretInv, RowsOpen
  <2> QED BY <2>1, <2>2, <2>3, EndKeeps
<1>2. CASE StoreTenantKey(w)
  <2>1. /\ rotation' = [rotation EXCEPT ![w] = NoRotation] /\ UNCHANGED <<row, edit>> /\ key' = rotation[w].new
        /\ rotation[w].pc = "channels" /\ rotation[w].todo = {} /\ exposed \subseteq exposed'
        /\ exposed' = IF rotation[w].met THEN Rows ELSE exposed
    BY <1>2 DEF StoreTenantKey, TypeInv, TypeOK
  <2>2. ASSUME Lone(w), NEW r \in Listed \ exposed' PROVE KeysOf(row[r]) \subseteq {0, key'}
    <3>1. r \in (Credentials \cup Channels) \ exposed
      BY <2>1, <2>2 DEF Rows, Listed, Lone
    <3>2. r \in rotation[w].written \/ Blank(row[r])
      BY <2>1, <2>2, <3>1 DEF SecretInv, EverythingListed, Covers
    <3> QED BY <2>1, <2>2, <3>2, BlankKeys DEF SecretInv, RowsOpen
  <2>3. Rewriting(w) /\ (~Lone(w) => Rows \subseteq exposed')
    BY <2>1 DEF Rewriting, Lone
  <2> QED BY <2>1, <2>2, <2>3, EndKeeps
<1> QED BY <1>1, <1>2, LoadTenantKeyKeeps, StartKeeps, RotateKeeps, ListKeeps DEF RotatorStep

LEMMA SecretInvHolds == Spec => [](TypeInv /\ SecretInv)
<1>1. Init => SecretInv
  <2> SUFFICES ASSUME Init PROVE SecretInv
    OBVIOUS
  <2>1. /\ \A w \in Rotators : ~Rewriting(w) /\ rotation[w].pc = "idle"
        /\ \A e \in Editors : ~AtWork(e)
    BY NothingFacts DEF Init, Rewriting, AtWork
  <2>2. \A r \in Rows : KeysOf(row[r]) \subseteq {0, key}
    BY NothingFacts DEF Init, NoRow, KeysOf
  <2> QED BY <2>1, <2>2 DEF SecretInv, Meetings, RotatorsMeet, EditorsMeetRotations, EditorsMeet,
                            SealsWithStoredKey, CopiesOpen, RowsOpen, EverythingListed, Undisturbed, Lone, Rows
<1>2. TypeInv /\ SecretInv /\ [Next]_vars => SecretInv'
  <2> SUFFICES ASSUME TypeInv, SecretInv, [Next]_vars PROVE SecretInv'
    OBVIOUS
  <2>1. CASE UNCHANGED vars
    BY <2>1 DEF vars, SecretInv, Meetings, RotatorsMeet, EditorsMeetRotations, EditorsMeet, SealsWithStoredKey,
                CopiesOpen, RowsOpen, EverythingListed, Covers, Undisturbed, AtWork, Lone, Rewriting
  <2> QED BY <2>1, EditorSecrets, RotatorSecrets DEF Next
<1> QED BY <1>1, <1>2, TypeInvHolds, PTL DEF Spec

\* Outside of a rotation every stored secret of a credential or channel opens with the stored
\* key, but where a rotation was overlapped or died: whatever rows, rotators and editors there
\* are.  Nothing is claimed of the Meta rows, which every rotation leaves behind.
THEOREM SecretsStayReadable == Spec => []OnlyOverlapsLoseSecrets
<1>1. SecretInv => OnlyOverlapsLoseSecrets
  BY DEF SecretInv, RowsOpen, OnlyOverlapsLoseSecrets, Rotating, Rewriting, Readable, KeysOf
<1> QED BY <1>1, SecretInvHolds, PTL

(***************************************************************************)
(* No older token comes back but in an overlap.  What a row holds is what  *)
(* was last saved for it; an editor that met nobody holds the row as it    *)
(* is, and so does a lone rotation of every row it has yet to write, but   *)
(* for those exposed since.                                                *)
(***************************************************************************)
Upto(x, n) == x.access.gen <= n /\ x.refresh.gen <= n
GensInv ==
  /\ \A r \in Rows : Upto(row[r], granted)
  /\ \A e \in Editors : Upto(edit[e].copy, granted)
  /\ \A w \in Rotators, r \in Rows : Upto(rotation[w].copy[r], granted)
  /\ \A r \in Rows \ Credentials : newest[r].refresh = 0

\* Tokens are numbered as they are granted: a step that adds no copy of a later one.
LEMMA GensKeep ==
  ASSUME TypeInv, TypeInv', GensInv, granted <= granted',
         \A r \in Rows : row'[r] = row[r] \/ Upto(row'[r], granted'),
         \A e \in Editors : edit'[e].copy = edit[e].copy \/ Upto(edit'[e].copy, granted'),
         \A w \in Rotators, r \in Rows :
           rotation'[w].copy[r] = rotation[w].copy[r] \/ Upto(rotation'[w].copy[r], granted'),
         \A r \in Rows \ Credentials : newest'[r].refresh = newest[r].refresh
  PROVE  GensInv'
<1>1. ASSUME NEW x \in Row, Upto(x, granted) PROVE Upto(x, granted')
  <2>1. x.access.gen \in Nat /\ x.refresh.gen \in Nat
    BY ConstantsAssumption DEF Row, Sealed
  <2>2. granted \in Nat /\ granted' \in Nat
    BY ConstantsAssumption DEF TypeInv, TypeOK
  <2> QED BY <1>1, <2>1, <2>2 DEF Upto
<1>2. /\ \A r \in Rows : row[r] \in Row
      /\ \A e \in Editors : edit[e].copy \in Row
      /\ \A w \in Rotators, r \in Rows : rotation[w].copy[r] \in Row
  BY DEF TypeInv, TypeOK, Edit, Rotation
<1>3. \A r \in Rows : Upto(row'[r], granted')
  BY <1>1, <1>2 DEF GensInv
<1>4. \A e \in Editors : Upto(edit'[e].copy, granted')
  BY <1>1, <1>2 DEF GensInv
<1>5. \A w \in Rotators, r \in Rows : Upto(rotation'[w].copy[r], granted')
  BY <1>1, <1>2 DEF GensInv
<1> QED BY <1>3, <1>4, <1>5 DEF GensInv, Upto

LEMMA NothingUpto ==
  ASSUME NEW n \in Nat
  PROVE  Upto(NoRow, n) /\ Upto(NoEdit.copy, n) /\ \A r \in Rows : Upto(NoRotation.copy[r], n)
BY NothingFacts DEF Upto, NoRow

LEMMA EditorGens ==
  ASSUME TypeInv, TypeInv', GensInv, NEW e \in Editors, EditorStep(e)
  PROVE  GensInv'
<1>0. /\ edit[e] \in Edit /\ edit[e].on \in Rows /\ edit[e].copy \in Row /\ granted \in Nat
      /\ Upto(NoEdit.copy, granted)
  BY NothingUpto, ConstantsAssumption DEF TypeInv, TypeOK, Edit
<1>1. ASSUME UNCHANGED <<row, rotation, granted, newest>>,
             \A f \in Editors : edit'[f].copy = edit[f].copy \/ Upto(edit'[f].copy, granted)
      PROVE  GensInv'
  BY <1>0, <1>1, GensKeep
<1>2. ASSUME NEW r \in Rows, NEW kind \in Edits, Load(e, r, kind) PROVE GensInv'
  <2>1. \A f \in Editors : edit'[f].copy \in {edit[f].copy, row[r]}
    <3> SUFFICES ASSUME NEW f \in Editors PROVE edit'[f].copy \in {edit[f].copy, row[r]}
      OBVIOUS
    <3>1. edit[f] \in Edit
      BY DEF TypeInv, TypeOK
    <3> QED BY <1>2, <3>1 DEF Load, Edit
  <2>2. UNCHANGED <<row, rotation, granted, newest>>
    BY <1>2 DEF Load, history
  <2> QED BY <1>1, <2>1, <2>2 DEF GensInv
<1>3. CASE UseToken(e) \/ GetDek(e) \/ GenerateFirstDek(e) \/ CreateTenantKey(e) \/ DropEdit(e)
  <2>1. UNCHANGED <<row, rotation, granted, newest>>
    BY <1>3 DEF UseToken, GetDek, GenerateFirstDek, CreateTenantKey, DropEdit, history
  <2>2. \A f \in Editors : edit'[f].copy \in {edit[f].copy, NoEdit.copy}
    <3> SUFFICES ASSUME NEW f \in Editors PROVE edit'[f].copy \in {edit[f].copy, NoEdit.copy}
      OBVIOUS
    <3>1. edit[f] \in Edit /\ edit \in [Editors -> Edit]
      BY DEF TypeInv, TypeOK
    <3> QED BY <1>3, <3>1 DEF UseToken, GetDek, GenerateFirstDek, CreateTenantKey, DropEdit, Edit
  <2> QED BY <1>0, <1>1, <2>1, <2>2
<1>4. CASE InsertEmpty(e)
  <2> DEFINE bare == [NoRow EXCEPT !.there = TRUE, !.label = edit[e].seen]
  <2>1. Upto(bare, granted)
    BY <1>0, NothingFacts DEF NoRow, Upto
  <2>2. row' = [row EXCEPT ![edit[e].on] = bare] /\ UNCHANGED <<rotation, granted, newest>>
        /\ edit' = [edit EXCEPT ![e].pc = "loaded", ![e].copy = bare]
    BY <1>4 DEF InsertEmpty, history
  <2> HIDE DEF bare
  <2>3. \A f \in Editors : edit'[f].copy \in {edit[f].copy, bare}
    BY <1>0, <2>2 DEF Edit, TypeInv, TypeOK
  <2>4. \A r \in Rows : row'[r] \in {row[r], bare}
    BY <1>0, <2>2 DEF TypeInv, TypeOK
  <2>5. /\ \A r \in Rows : row'[r] = row[r] \/ Upto(row'[r], granted')
        /\ \A f \in Editors : edit'[f].copy = edit[f].copy \/ Upto(edit'[f].copy, granted')
    BY <2>1, <2>2, <2>3, <2>4
  <2>6. granted <= granted' /\ UNCHANGED <<rotation, newest>>
    BY <1>0, <2>2
  <2> QED BY <2>5, <2>6, GensKeep
<1>5. CASE SaveSecret(e)
  <2> PICK c \in SavedColumns(e) :
        /\ row' = [row EXCEPT ![edit[e].on] = [there |-> TRUE, access |-> c.access, refresh |-> c.refresh,
                                               label |-> edit[e].seen]]
        /\ newest' = [newest EXCEPT ![edit[e].on] =
             [access |-> IF c.access = edit[e].copy.access THEN @.access ELSE c.access.gen,
              refresh |-> IF c.refresh = edit[e].copy.refresh THEN @.refresh ELSE c.refresh.gen]]
    BY <1>5 DEF SaveSecret
  <2>1. /\ edit[e].pc = "keyed" /\ granted < MaxGrants /\ edit' = [edit EXCEPT ![e] = NoEdit]
        /\ granted' = granted + 1 /\ UNCHANGED rotation
    BY <1>5 DEF SaveSecret
  <2>2. /\ Fresh(e).gen = granted + 1
        /\ c.access \in {Fresh(e), edit[e].copy.access}
        /\ c.refresh \in {Fresh(e), edit[e].copy.refresh, Empty}
        /\ c.access \in Sealed /\ c.refresh \in Sealed
        /\ edit[e].on \notin Credentials => c.refresh = edit[e].copy.refresh
    BY <2>1, SavedFacts
  <2>3. Upto(edit[e].copy, granted) /\ edit[e].copy.access.gen \in Nat /\ edit[e].copy.refresh.gen \in Nat
    BY <1>0, ConstantsAssumption DEF GensInv, Row, Sealed
  <2>4. c.access.gen <= granted' /\ c.refresh.gen <= granted'
    BY <1>0, <2>1, <2>2, <2>3, NothingFacts DEF Upto
  <2>5. \A r \in Rows : row'[r] = row[r] \/ Upto(row'[r], granted')
    BY <1>0, <2>4 DEF Upto, TypeInv, TypeOK
  <2>6. \A f \in Editors : edit'[f].copy = edit[f].copy \/ Upto(edit'[f].copy, granted')
    BY <1>0, <2>1, NothingUpto DEF TypeInv, TypeOK
  <2>7. \A r \in Rows \ Credentials : newest'[r].refresh = newest[r].refresh
    BY <1>0, <2>2 DEF TypeInv, TypeOK
  <2>8. granted <= granted' /\ UNCHANGED rotation
    BY <1>0, <2>1
  <2> QED BY <2>5, <2>6, <2>7, <2>8, GensKeep
<1>6. CASE SaveUnchanged(e)
  <2>1. /\ row' = [row EXCEPT ![edit[e].on] = edit[e].copy] /\ edit' = [edit EXCEPT ![e] = NoEdit]
        /\ UNCHANGED <<rotation, granted, newest>>
    BY <1>6 DEF SaveUnchanged
  <2>2. \A f \in Editors : edit'[f].copy \in {edit[f].copy, NoEdit.copy}
    BY <2>1 DEF TypeInv, TypeOK
  <2>3. \A r \in Rows : row'[r] \in {row[r], edit[e].copy}
    BY <2>1 DEF TypeInv, TypeOK
  <2> QED BY <1>0, <2>1, <2>2, <2>3, GensKeep DEF GensInv
<1> QED BY <1>2, <1>3, <1>4, <1>5, <1>6 DEF EditorStep

LEMMA RotatorGens ==
  ASSUME TypeInv, TypeInv', GensInv, NEW w \in Rotators, RotatorStep(w)
  PROVE  GensInv'
<1>0. /\ granted \in Nat /\ rotation \in [Rotators -> Rotation] /\ edit \in [Editors -> Edit]
      /\ \A r \in Rows : Upto(NoRotation.copy[r], granted)
  BY NothingUpto, ConstantsAssumption DEF TypeInv, TypeOK
<1>5. UNCHANGED <<granted, newest>>
  BY DEF RotatorStep, LoadTenantKey, StartRotation, KmsFails, AbortRotation, RotateRow, ListChannels,
         StoreTenantKey, LoseRotator, history
<1>1. \A e \in Editors : edit'[e].copy = edit[e].copy
  <2>1. CASE StartRotation(w)
    <3> SUFFICES ASSUME NEW e \in Editors PROVE edit'[e].copy = edit[e].copy
      OBVIOUS
    <3>1. edit[e] \in Edit
      BY <1>0
    <3> QED BY <2>1, <3>1 DEF StartRotation, Edit
  <2> QED BY <2>1 DEF RotatorStep, LoadTenantKey, KmsFails, AbortRotation, RotateRow, ListChannels, StoreTenantKey,
                      LoseRotator
<1>2. \A v \in Rotators : rotation'[v].copy \in {rotation[v].copy, Listing(Credentials), Listing(Channels), NoRotation.copy}
  <2> SUFFICES ASSUME NEW v \in Rotators
               PROVE  rotation'[v].copy \in {rotation[v].copy, Listing(Credentials), Listing(Channels), NoRotation.copy}
    OBVIOUS
  <2>1. rotation[v] \in Rotation
    BY <1>0
  <2>2. CASE LoadTenantKey(w)
    <3> DEFINE others == {u \in Rotators \ {w} : rotation[u].pc # "idle"}
    <3>1. rotation'[v] = IF v = w THEN [NoRotation EXCEPT !.pc = "loaded", !.old = key, !.met = others # {}]
                         ELSE IF v \in others THEN [rotation[v] EXCEPT !.met = TRUE] ELSE rotation[v]
      BY <2>2 DEF LoadTenantKey
    <3> HIDE DEF others
    <3> QED BY <2>1, <3>1, NothingFacts DEF Rotation
  <2>3. CASE StartRotation(w) \/ ListChannels(w)
    <3>1. v # w => rotation'[v] = rotation[v]
      BY <1>0, <2>3 DEF StartRotation, ListChannels
    <3>2. StartRotation(w) => rotation'[w].copy = Listing(Credentials)
      BY <1>0 DEF StartRotation, Rotation
    <3>3. ListChannels(w) => rotation'[w].copy = Listing(Channels)
      BY <1>0 DEF ListChannels, Rotation
    <3> QED BY <2>3, <3>1, <3>2, <3>3
  <2>4. CASE KmsFails(w) \/ AbortRotation(w) \/ StoreTenantKey(w) \/ LoseRotator(w)
    BY <1>0, <2>4 DEF KmsFails, AbortRotation, StoreTenantKey, LoseRotator
  <2>5. ASSUME NEW r \in Rows, RotateRow(w, r) PROVE rotation'[v].copy = rotation[v].copy
    BY <1>0, <2>1, <2>5 DEF RotateRow, Rotation
  <2> QED BY <2>2, <2>3, <2>4, <2>5 DEF RotatorStep
<1>3. \A s \in Rows : row'[s] = row[s] \/ Upto(row'[s], granted)
  <2>1. ASSUME NEW r \in Rows, RotateRow(w, r) PROVE \A s \in Rows : row'[s] = row[s] \/ Upto(row'[s], granted)
    <3> DEFINE x == rotation[w].copy[r]
               y == Rotated(x, rotation[w].new)
    <3>1. x \in Row /\ Plain(r, x) /\ rotation[w].new \in Keys /\ rotation[w].new # 0 /\ Upto(x, granted)
      BY <2>1 DEF RotateRow, Rotation, GensInv, TypeInv, TypeOK, CopiesInOrder, MemoriesInOrder
    <3>2. y.access.gen = x.access.gen /\ y.refresh.gen = x.refresh.gen
      BY <3>1, RotatedFacts
    <3>3. row' = [row EXCEPT ![r] = y]
      BY <2>1 DEF RotateRow
    <3> HIDE DEF x, y
    <3> QED BY <3>1, <3>2, <3>3 DEF Upto, TypeInv, TypeOK
  <2> QED BY <2>1 DEF RotatorStep, LoadTenantKey, StartRotation, KmsFails, AbortRotation, ListChannels,
                      StoreTenantKey, LoseRotator
<1>4. \A v \in Rotators, r \in Rows :
        rotation'[v].copy[r] = rotation[v].copy[r] \/ Upto(rotation'[v].copy[r], granted')
  <2>1. \A r \in Rows, rows \in {Credentials, Channels} : Upto(Listing(rows)[r], granted)
    BY <1>0, NothingUpto, ListingFacts DEF GensInv
  <2> QED BY <1>0, <1>2, <1>5, <2>1
<1>6. granted <= granted'
  BY <1>0, <1>5
<1> QED BY <1>1, <1>3, <1>4, <1>5, <1>6, GensKeep

AsGranted(r, x) ==
  /\ x.access.gen = newest[r].access /\ x.refresh.gen = newest[r].refresh
  /\ KeysOf(x) \subseteq {0, x.label}
Unmet(e) == AtWork(e) /\ edit[e].met = {}
RowsAreNewest == \A r \in Rows \ (exposed \cup contended) : AsGranted(r, row[r])
CopyIsRow == \A e \in Editors : Unmet(e) => edit[e].copy = row[edit[e].on]
ListedIsRow ==
  \A w \in Rotators : Lone(w) =>
    \A r \in rotation[w].todo \ exposed : rotation[w].copy[r] = row[r] /\ row[r].there
NewestInv == RowsAreNewest /\ CopyIsRow /\ ListedIsRow

\* A step that saves no row.
LEMMA QuietKeeps ==
  ASSUME NewestInv, UNCHANGED <<row, newest>>, exposed \subseteq exposed', contended \subseteq contended',
         \A e \in Editors : Unmet(e)' =>
           edit'[e].copy = row[edit'[e].on]
           \/ (Unmet(e) /\ edit'[e].copy = edit[e].copy /\ edit'[e].on = edit[e].on),
         \A w \in Rotators : Lone(w)' => \A r \in rotation'[w].todo :
           \/ rotation'[w].copy[r] = row[r] /\ row[r].there
           \/ Lone(w) /\ r \in rotation[w].todo /\ rotation'[w].copy[r] = rotation[w].copy[r]
  PROVE  NewestInv'
<1>1. RowsAreNewest'
  BY DEF NewestInv, RowsAreNewest, AsGranted
<1>2. CopyIsRow'
  BY DEF NewestInv, CopyIsRow
<1>3. ListedIsRow'
  BY DEF NewestInv, ListedIsRow
<1> QED BY <1>1, <1>2, <1>3 DEF NewestInv

\* A step of an editor's own, that saves no row.
LEMMA EditorQuiet ==
  ASSUME TypeInv, NewestInv, NEW e \in Editors, NEW m, edit' = [edit EXCEPT ![e] = m],
         Continues(m, edit[e]), m.pc # "idle" => m.copy = edit[e].copy,
         UNCHANGED <<row, rotation, newest, exposed, contended>>
  PROVE  NewestInv'
<1>1. \A f \in Editors : edit'[f] = IF f = e THEN m ELSE edit[f]
  BY DEF TypeInv, TypeOK
<1>2. \A f \in Editors : Unmet(f)' =>
        Unmet(f) /\ edit'[f].copy = edit[f].copy /\ edit'[f].on = edit[f].on
  BY <1>1 DEF Unmet, AtWork, Continues
<1>3. \A w \in Rotators : Lone(w)' => Lone(w)
  BY DEF Lone, Rewriting
<1> QED BY <1>2, <1>3, QuietKeeps

LEMMA LoadNewest ==
  ASSUME TypeInv, NewestInv, NEW e \in Editors, NEW r \in Rows, NEW kind \in Edits, Load(e, r, kind)
  PROVE  NewestInv'
<1>1. \A f \in Editors : Unmet(f)' =>
        edit'[f].copy = row[edit'[f].on]
        \/ (Unmet(f) /\ edit'[f].copy = edit[f].copy /\ edit'[f].on = edit[f].on)
  <2> SUFFICES ASSUME NEW f \in Editors, Unmet(f)'
               PROVE  edit'[f].copy = row[edit'[f].on]
                      \/ (Unmet(f) /\ edit'[f].copy = edit[f].copy /\ edit'[f].on = edit[f].on)
    OBVIOUS
  <2>1. edit[f] \in Edit
    BY DEF TypeInv, TypeOK
  <2>2. CASE f = e
    BY <2>2 DEF Load
  <2>3. CASE f # e /\ f \in Editing(r)
    <3>1. edit'[f] = [edit[f] EXCEPT !.met = @ \cup {"edit"}]
      BY <2>3 DEF Load
    <3>2. "edit" \in edit'[f].met
      BY <2>1, <3>1 DEF Edit
    <3> QED BY <3>2 DEF Unmet
  <2>4. CASE f # e /\ f \notin Editing(r)
    <3>1. edit'[f] = edit[f]
      BY <2>4 DEF Load
    <3> QED BY <3>1 DEF Unmet, AtWork
  <2> QED BY <2>2, <2>3, <2>4
<1>2. UNCHANGED <<row, rotation, newest, exposed, contended>>
  BY DEF Load, history
<1>3. \A w \in Rotators : Lone(w)' => Lone(w)
  BY <1>2 DEF Lone, Rewriting
<1> QED BY <1>1, <1>2, <1>3, QuietKeeps

\* The save of an editor: unless it met somebody, it saves what was last granted, over
\* a row nobody else is at work on.
LEMMA SaveNewest ==
  ASSUME TypeInv, SecretInv, NewestInv, NEW e \in Editors, AtWork(e), NEW x,
         NEW r \in Rows, r = edit[e].on, row' = [row EXCEPT ![r] = x],
         edit' = [edit EXCEPT ![e] = NoEdit], UNCHANGED rotation,
         \A s \in Rows \ {r} : newest'[s] = newest[s],
         "rotation" \in edit[e].met => r \in exposed',
         "edit" \in edit[e].met => r \in contended',
         \A s \in Rows : s \in exposed /\ s \notin exposed' => s = r /\ edit[e].met = {},
         \A s \in Rows : s \in contended /\ s \notin contended' => s = r,
         edit[e].met = {} /\ r \notin exposed' /\ r \notin contended' => AsGranted(r, x)'
  PROVE  NewestInv'
<1>1. \A f \in Editors : edit'[f] = IF f = e THEN NoEdit ELSE edit[f]
  BY DEF TypeInv, TypeOK
<1>2. \A s \in Rows : row'[s] = IF s = r THEN x ELSE row[s]
  BY DEF TypeInv, TypeOK
<1>3. edit[e].met \subseteq {"rotation", "edit"}
  BY DEF TypeInv, TypeOK, Edit
<1>4. RowsAreNewest'
  <2> SUFFICES ASSUME NEW s \in Rows \ (exposed' \cup contended') PROVE AsGranted(s, row[s])'
    BY DEF RowsAreNewest, AsGranted, KeysOf
  <2>1. CASE s = r
    <3>1. edit[e].met = {}
      BY <1>3, <2>1
    <3> QED BY <1>2, <2>1, <3>1 DEF AsGranted
  <2>2. CASE s # r
    <3>1. s \in Rows \ (exposed \cup contended) /\ row'[s] = row[s] /\ newest'[s] = newest[s]
      BY <1>2, <2>2
    <3>2. AsGranted(s, row[s])
      BY <3>1 DEF NewestInv, RowsAreNewest
    <3> QED BY <3>1, <3>2 DEF AsGranted
  <2> QED BY <2>1, <2>2
<1>5. CopyIsRow'
  <2> SUFFICES ASSUME NEW f \in Editors, Unmet(f)' PROVE edit'[f].copy = row'[edit'[f].on]
    BY DEF CopyIsRow
  <2>1. f # e /\ edit'[f] = edit[f] /\ Unmet(f)
    BY <1>1, NothingFacts DEF Unmet, AtWork
  <2>2. edit[f].on # r
    BY <2>1 DEF SecretInv, Meetings, EditorsMeet, Unmet
  <2>3. edit[f].on \in Rows
    BY DEF TypeInv, TypeOK, Edit
  <2> QED BY <1>2, <2>1, <2>2, <2>3 DEF NewestInv, CopyIsRow
<1>6. ListedIsRow'
  <2> SUFFICES ASSUME NEW w \in Rotators, Lone(w), NEW s \in rotation[w].todo \ exposed'
               PROVE  rotation[w].copy[s] = row'[s] /\ row'[s].there
    BY DEF ListedIsRow, Lone, Rewriting
  <2>1. "rotation" \in edit[e].met
    BY DEF SecretInv, Meetings, EditorsMeetRotations, Undisturbed, Lone
  <2>2. s \in Rows
    BY DEF TypeInv, TypeOK, Rotation
  <2>3. s # r /\ s \notin exposed
    BY <2>1, <2>2
  <2> QED BY <1>2, <2>2, <2>3 DEF NewestInv, ListedIsRow
<1> QED BY <1>4, <1>5, <1>6 DEF NewestInv

LEMMA InsertNewest ==
  ASSUME TypeInv, SecretInv, NewestInv, NEW e \in Editors, InsertEmpty(e)
  PROVE  NewestInv'
<1> DEFINE bare == [NoRow EXCEPT !.there = TRUE, !.label = edit[e].seen]
           m == [edit[e] EXCEPT !.pc = "loaded", !.copy = bare]
           r == edit[e].on
<1>1. edit[e] \in Edit /\ r \in Rows
  BY DEF TypeInv, TypeOK, Edit
<1>2. Blank(bare) /\ bare.access.gen = 0 /\ bare.refresh.gen = 0
  BY NothingFacts DEF NoRow, Blank
<1>3. /\ row' = [row EXCEPT ![r] = bare] /\ edit' = [edit EXCEPT ![e] = m] /\ edit[e].pc = "keyed"
      /\ ~row[r].there /\ UNCHANGED <<key, rotation, newest, exposed, contended>>
  BY DEF InsertEmpty, history, TypeInv, TypeOK
<1> HIDE DEF bare
<1>4. m.pc = "loaded" /\ m.on = r /\ m.copy = bare /\ m.met = edit[e].met
  BY <1>1 DEF Edit
<1> HIDE DEF m
<1>5. \A f \in Editors : edit'[f] = IF f = e THEN m ELSE edit[f]
  BY <1>3 DEF TypeInv, TypeOK
<1>6. \A s \in Rows : row'[s] = IF s = r THEN bare ELSE row[s]
  BY <1>3 DEF TypeInv, TypeOK
<1>7. RowsAreNewest'
  <2> SUFFICES ASSUME NEW s \in Rows \ (exposed \cup contended) PROVE AsGranted(s, row[s])'
    BY <1>3 DEF RowsAreNewest
  <2>1. AsGranted(s, row[s])
    BY DEF NewestInv, RowsAreNewest
  <2>2. CASE s = r
    <3>1. Blank(row[r])
      BY <1>1, <1>3 DEF TypeInv, CopiesInOrder, Plain, Blank
    <3> QED BY <1>1, <1>2, <1>3, <1>6, <2>1, <2>2, <3>1, BlankKeys, NothingFacts DEF AsGranted, Blank
  <2>3. CASE s # r
    BY <1>3, <1>6, <2>1, <2>3 DEF AsGranted
  <2> QED BY <2>2, <2>3
<1>8. CopyIsRow'
  <2> SUFFICES ASSUME NEW f \in Editors, Unmet(f)' PROVE edit'[f].copy = row'[edit'[f].on]
    BY DEF CopyIsRow
  <2>1. CASE f = e
    BY <1>1, <1>4, <1>5, <1>6, <2>1
  <2>2. CASE f # e
    <3>1. edit'[f] = edit[f] /\ Unmet(f) /\ edit[f].on \in Rows
      BY <1>5, <2>2 DEF Unmet, AtWork, TypeInv, TypeOK, Edit
    <3>2. edit[f].on # r
      BY <1>3, <2>2, <3>1 DEF SecretInv, Meetings, EditorsMeet, Unmet, AtWork
    <3> QED BY <1>6, <3>1, <3>2 DEF NewestInv, CopyIsRow
  <2> QED BY <2>1, <2>2
<1>9. ListedIsRow'
  <2> SUFFICES ASSUME NEW w \in Rotators, Lone(w), NEW s \in rotation[w].todo \ exposed
               PROVE  rotation[w].copy[s] = row'[s] /\ row'[s].there
    BY <1>3 DEF ListedIsRow, Lone, Rewriting
  <2>1. s \in Rows /\ rotation[w].copy[s] = row[s] /\ row[s].there
    BY DEF NewestInv, ListedIsRow, TypeInv, TypeOK, Rotation
  <2> QED BY <1>3, <1>6, <2>1
<1> QED BY <1>7, <1>8, <1>9 DEF NewestInv

LEMMA EditorNewest ==
  ASSUME TypeInv, SecretInv, GensInv, NewestInv, NEW e \in Editors, EditorStep(e)
  PROVE  NewestInv'
<1>0. edit[e] \in Edit /\ edit[e].on \in Rows /\ edit[e].copy \in Row
  BY DEF TypeInv, TypeOK, Edit
<1>1. CASE UseToken(e) \/ GetDek(e) \/ GenerateFirstDek(e) \/ CreateTenantKey(e) \/ DropEdit(e)
  <2>1. UNCHANGED <<row, rotation, newest, exposed, contended>> /\ edit[e].pc # "idle"
    BY <1>1 DEF UseToken, GetDek, GenerateFirstDek, CreateTenantKey, DropEdit, NeedsKey, history
  <2>2. edit' = [edit EXCEPT ![e] = edit'[e]]
    BY <1>1 DEF UseToken, GetDek, GenerateFirstDek, CreateTenantKey, DropEdit, TypeInv, TypeOK
  <2>3. \/ edit'[e] = NoEdit
        \/ edit'[e].on = edit[e].on /\ edit'[e].met = edit[e].met /\ edit'[e].copy = edit[e].copy
    <3>1. UseToken(e) => edit'[e] = NoEdit \/ edit'[e] = [edit[e] EXCEPT !.pc = "used"]
      BY DEF UseToken, TypeInv, TypeOK
    <3>2. GetDek(e) => edit'[e] = [edit[e] EXCEPT !.pc = "keyed", !.seen = key]
      BY DEF GetDek, TypeInv, TypeOK
    <3>3. GenerateFirstDek(e) => edit'[e] = [edit[e] EXCEPT !.pc = "keyless", !.seen = minted']
      BY DEF GenerateFirstDek, TypeInv, TypeOK
    <3>4. CreateTenantKey(e) => edit'[e] = NoEdit \/ edit'[e] = [edit[e] EXCEPT !.pc = "keyed"]
      BY DEF CreateTenantKey, TypeInv, TypeOK
    <3>5. DropEdit(e) => edit'[e] = NoEdit
      BY DEF DropEdit, TypeInv, TypeOK
    <3> QED BY <1>0, <1>1, <3>1, <3>2, <3>3, <3>4, <3>5 DEF Edit
  <2>4. Continues(edit'[e], edit[e]) /\ (edit'[e].pc # "idle" => edit'[e].copy = edit[e].copy)
    BY <2>1, <2>3, NothingFacts DEF Continues
  <2> QED BY <2>1, <2>2, <2>4, EditorQuiet
<1>2. CASE SaveSecret(e)
  <2> PICK r \in Rows : r = edit[e].on
    BY <1>0
  <2> DEFINE renew(c) == c.access = Fresh(e) /\ (c.refresh # edit[e].copy.refresh \/ r \notin Credentials)
  <2>13. PICK c \in SavedColumns(e) :
        /\ row' = [row EXCEPT ![r] = [there |-> TRUE, access |-> c.access, refresh |-> c.refresh,
                                      label |-> edit[e].seen]]
        /\ newest' = [newest EXCEPT ![r] =
             [access |-> IF c.access = edit[e].copy.access THEN @.access ELSE c.access.gen,
              refresh |-> IF c.refresh = edit[e].copy.refresh THEN @.refresh ELSE c.refresh.gen]]
        /\ Remember(r, edit[e].met, renew(c))
    BY <1>2 DEF SaveSecret
  <2>14. PICK x : x = [there |-> TRUE, access |-> c.access, refresh |-> c.refresh, label |-> edit[e].seen]
    OBVIOUS
  <2>0. x.access = c.access /\ x.refresh = c.refresh /\ x.label = edit[e].seen
    BY <2>14
  <2>1. /\ edit[e].pc = "keyed" /\ granted < MaxGrants /\ edit' = [edit EXCEPT ![e] = NoEdit]
        /\ UNCHANGED <<key, rotation>> /\ AtWork(e)
    BY <1>2 DEF SaveSecret, AtWork
  <2>2. /\ Fresh(e).key = edit[e].seen /\ Fresh(e).gen = granted + 1
        /\ c.access \in {Fresh(e), edit[e].copy.access}
        /\ c.refresh \in {Fresh(e), edit[e].copy.refresh, Empty}
        /\ r \notin Credentials => c.access = Fresh(e) /\ c.refresh = edit[e].copy.refresh
    BY <2>1, SavedFacts
  <2>3. /\ "rotation" \in edit[e].met => r \in exposed'
        /\ "edit" \in edit[e].met => r \in contended'
        /\ \A s \in Rows : s \in exposed /\ s \notin exposed' => s = r /\ edit[e].met = {} /\ renew(c)
        /\ \A s \in Rows : s \in contended /\ s \notin contended' => s = r /\ renew(c)
    BY <2>13 DEF Remember
  <2>4. Fresh(e) # edit[e].copy.access
    <3>1. Upto(edit[e].copy, granted) /\ edit[e].copy.access.gen \in Nat /\ granted \in Nat
      BY <1>0, ConstantsAssumption DEF GensInv, Row, Sealed, TypeInv, TypeOK
    <3> QED BY <2>2, <3>1 DEF Upto
  <2>5. r \notin Credentials => edit[e].copy.refresh = Empty /\ newest[r].refresh = 0
    BY <1>0 DEF TypeInv, CopiesInOrder, Plain, GensInv
  <2>6. /\ newest'[r].access = IF c.access = edit[e].copy.access THEN newest[r].access ELSE c.access.gen
        /\ newest'[r].refresh = IF c.refresh = edit[e].copy.refresh THEN newest[r].refresh ELSE c.refresh.gen
        /\ \A s \in Rows \ {r} : newest'[s] = newest[s]
    BY <2>13 DEF TypeInv, TypeOK
  <2>7. ASSUME edit[e].met = {}, r \notin exposed', r \notin contended' PROVE AsGranted(r, x)'
    <3>1. edit[e].seen = key /\ edit[e].copy = row[r]
      BY <2>1, <2>7 DEF SecretInv, SealsWithStoredKey, NewestInv, CopyIsRow, Undisturbed, Unmet, AtWork
    <3>2. CASE renew(c)
      <4>1. c.access = Fresh(e) /\ newest'[r].access = c.access.gen
        BY <2>4, <2>6, <3>2
      <4>2. newest'[r].refresh = c.refresh.gen
        BY <2>2, <2>5, <2>6, <3>2, NothingFacts
      <4>3. c.refresh.key \in {0, edit[e].seen}
        BY <2>2, <2>5, <3>2, NothingFacts
      <4> QED BY <2>0, <2>2, <4>1, <4>2, <4>3 DEF AsGranted, KeysOf
    <3>3. CASE ~renew(c)
      <4>1. r \notin exposed /\ r \notin contended
        BY <1>0, <2>3, <2>7, <3>3
      <4>2. AsGranted(r, row[r])
        BY <1>0, <4>1 DEF NewestInv, RowsAreNewest
      <4>3. KeysOf(row[r]) \subseteq {0, key}
        <5>1. r \in Listed
          BY <2>2, <3>3 DEF Listed
        <5> QED BY <2>1, <2>7, <3>1, <4>1, <5>1 DEF SecretInv, CopiesOpen, Undisturbed, AtWork
      <4>4. x.access.gen = newest'[r].access
        BY <2>0, <2>6, <3>1, <4>2 DEF AsGranted
      <4>5. x.refresh.gen = newest'[r].refresh
        BY <2>0, <2>6, <3>1, <4>2 DEF AsGranted
      <4>6. KeysOf(x) \subseteq {0, x.label}
        BY <2>0, <2>2, <3>1, <4>3, NothingFacts DEF KeysOf
      <4> QED BY <4>4, <4>5, <4>6 DEF AsGranted
    <3> QED BY <3>2, <3>3
  <2>8. row' = [row EXCEPT ![r] = x]
    BY <2>13, <2>14
  <2>9. /\ \A s \in Rows : s \in exposed /\ s \notin exposed' => s = r /\ edit[e].met = {}
        /\ \A s \in Rows : s \in contended /\ s \notin contended' => s = r
    BY <2>3
  <2>10. /\ "rotation" \in edit[e].met => r \in exposed'
         /\ "edit" \in edit[e].met => r \in contended'
         /\ \A s \in Rows \ {r} : newest'[s] = newest[s]
    BY <2>3, <2>6
  <2>11. edit' = [edit EXCEPT ![e] = NoEdit] /\ UNCHANGED rotation /\ AtWork(e)
    BY <2>1
  <2>12. edit[e].met = {} /\ r \notin exposed' /\ r \notin contended' => AsGranted(r, x)'
    BY <2>7
  <2> QED BY <2>8, <2>9, <2>10, <2>11, <2>12, SaveNewest
<1>3. CASE SaveUnchanged(e)
  <2> PICK r \in Rows : r = edit[e].on
    BY <1>0
  <2> PICK x : x = edit[e].copy
    OBVIOUS
  <2>1. /\ row' = [row EXCEPT ![r] = x] /\ AtWork(e)
        /\ edit' = [edit EXCEPT ![e] = NoEdit] /\ UNCHANGED <<rotation, newest>>
    BY <1>3 DEF SaveUnchanged, AtWork
  <2>2. /\ exposed' = IF "rotation" \in edit[e].met THEN exposed \cup {r} ELSE exposed
        /\ contended' = IF "edit" \in edit[e].met THEN contended \cup {r} ELSE contended
    BY <1>3 DEF SaveUnchanged, Remember
  <2>3. ASSUME edit[e].met = {}, r \notin exposed', r \notin contended' PROVE AsGranted(r, x)'
    <3>1. AsGranted(r, row[r]) /\ x = row[r]
      BY <2>1, <2>2, <2>3 DEF NewestInv, RowsAreNewest, CopyIsRow, Unmet
    <3> QED BY <2>1, <3>1 DEF AsGranted
  <2>4. \A s \in Rows : (s \in exposed => s \in exposed') /\ (s \in contended => s \in contended')
    BY <2>2
  <2>5. ("rotation" \in edit[e].met => r \in exposed') /\ ("edit" \in edit[e].met => r \in contended')
    BY <2>2
  <2>6. \A s \in Rows \ {r} : newest'[s] = newest[s]
    BY <2>1
  <2> QED BY <2>1, <2>3, <2>4, <2>5, <2>6, SaveNewest
<1> QED BY <1>1, <1>2, <1>3, LoadNewest, InsertNewest DEF EditorStep

LEMMA RotateNewest ==
  ASSUME TypeInv, SecretInv, NewestInv, NEW w \in Rotators, NEW r \in Rows, RotateRow(w, r)
  PROVE  NewestInv'
<1> DEFINE me == rotation[w]
           m == [me EXCEPT !.todo = @ \ {r}, !.written = @ \cup {r}]
<1>1. PICK x : x = Rotated(me.copy[r], me.new)
  OBVIOUS
<1>2. me \in Rotation /\ Plain(r, me.copy[r]) /\ me.copy[r] \in Row
  BY DEF TypeInv, TypeOK, CopiesInOrder, Rotation
<1>3. /\ m.pc = me.pc /\ m.met = me.met /\ m.todo = me.todo \ {r} /\ m.copy = me.copy
  BY <1>2 DEF Rotation
<1>4. /\ rotation' = [rotation EXCEPT ![w] = m] /\ row' = [row EXCEPT ![r] = x] /\ r \in me.todo
      /\ UNCHANGED <<key, edit, newest, contended>>
      /\ exposed' = IF me.met THEN exposed \cup {r} ELSE exposed
  BY <1>1 DEF RotateRow, TypeInv, TypeOK
<1>5. Rewriting(w)
  BY <1>4 DEF Rewriting, TypeInv, MemoriesInOrder
<1>6. /\ KeysOf(x) \subseteq {0, x.label} /\ x.access.gen = me.copy[r].access.gen
      /\ x.refresh.gen = me.copy[r].refresh.gen
  <2>1. me.new \in Keys /\ me.new # 0
    BY <1>2, <1>5 DEF Rotation, Rewriting, TypeInv, MemoriesInOrder
  <2> QED BY <1>1, <1>2, <2>1, RotatedFacts DEF KeysOf
<1> HIDE DEF m
<1>7. \A v \in Rotators : rotation'[v] = IF v = w THEN m ELSE rotation[v]
  BY <1>4 DEF TypeInv, TypeOK
<1>8. \A v \in Rotators : Lone(v)' => Lone(v)
  BY <1>3, <1>7 DEF Rewriting, Lone
<1>9. \A s \in Rows : row'[s] = IF s = r THEN x ELSE row[s]
  BY <1>4 DEF TypeInv, TypeOK
<1>10. RowsAreNewest'
  <2> SUFFICES ASSUME NEW s \in Rows \ (exposed' \cup contended') PROVE AsGranted(s, row[s])'
    BY DEF RowsAreNewest
  <2>1. s \in Rows \ (exposed \cup contended) /\ AsGranted(s, row[s])
    BY <1>4 DEF NewestInv, RowsAreNewest
  <2>2. CASE s = r
    <3>1. Lone(w)
      BY <1>4, <1>5, <2>2 DEF Lone
    <3>2. me.copy[r] = row[r]
      BY <1>4, <2>1, <2>2, <3>1 DEF NewestInv, ListedIsRow
    <3>3. x.access.gen = newest[r].access /\ x.refresh.gen = newest[r].refresh
      BY <1>6, <2>1, <2>2, <3>2 DEF AsGranted
    <3>4. row'[s] = x /\ newest' = newest
      BY <1>4, <1>9, <2>2
    <3> QED BY <1>6, <2>2, <3>3, <3>4 DEF AsGranted
  <2>3. CASE s # r
    <3>1. row'[s] = row[s] /\ newest' = newest
      BY <1>4, <1>9, <2>3
    <3> QED BY <2>1, <3>1 DEF AsGranted
  <2> QED BY <2>2, <2>3
<1>11. CopyIsRow'
  <2>1. \A f \in Editors : ~Unmet(f)'
    BY <1>4, <1>5 DEF SecretInv, Meetings, EditorsMeetRotations, Undisturbed, Unmet, AtWork
  <2> QED BY <2>1 DEF CopyIsRow
<1>12. ListedIsRow'
  <2> SUFFICES ASSUME NEW v \in Rotators, Lone(v), NEW s \in rotation'[v].todo \ exposed'
               PROVE  rotation'[v].copy[s] = row'[s] /\ row'[s].there
    BY <1>8 DEF ListedIsRow
  <2>1. v = w
    BY <1>5, LoneIsAlone
  <2>2. s \in me.todo \ exposed /\ s # r /\ s \in Rows
    BY <1>2, <1>3, <1>4, <1>7, <2>1 DEF Rotation
  <2> QED BY <1>3, <1>7, <1>9, <2>1, <2>2 DEF NewestInv, ListedIsRow
<1> QED BY <1>10, <1>11, <1>12 DEF NewestInv

LEMMA RotatorNewest ==
  ASSUME TypeInv, SecretInv, NewestInv, NEW w \in Rotators, RotatorStep(w)
  PROVE  NewestInv'
<1>0. rotation \in [Rotators -> Rotation]
  BY DEF TypeInv, TypeOK
<1>1. CASE LoadTenantKey(w)
  <2>1. UNCHANGED <<row, edit, newest, exposed, contended>>
    BY <1>1 DEF LoadTenantKey, history
  <2>2. \A v \in Rotators : ~Lone(v)'
    <3> SUFFICES ASSUME NEW v \in Rotators PROVE ~Lone(v)'
      OBVIOUS
    <3>1. CASE v = w
      <4>1. rotation'[w].pc = "loaded"
        BY <1>1 DEF LoadTenantKey, NoRotation
      <4> QED BY <3>1, <4>1 DEF Lone, Rewriting
    <3>2. CASE v # w /\ rotation[v].pc # "idle"
      <4>1. rotation'[v] = [rotation[v] EXCEPT !.met = TRUE]
        BY <1>1, <3>2 DEF LoadTenantKey
      <4>2. rotation'[v].met
        BY <1>0, <4>1 DEF Rotation
      <4> QED BY <4>2 DEF Lone
    <3>3. CASE v # w /\ rotation[v].pc = "idle"
      <4>1. rotation'[v] = rotation[v]
        BY <1>1, <3>3 DEF LoadTenantKey
      <4> QED BY <3>3, <4>1 DEF Lone, Rewriting
    <3> QED BY <3>1, <3>2, <3>3
  <2>3. \A f \in Editors : Unmet(f)' => Unmet(f)
    BY <2>1 DEF Unmet, AtWork
  <2> QED BY <2>1, <2>2, <2>3, QuietKeeps
<1>2. CASE StartRotation(w)
  <2>1. UNCHANGED <<row, newest, exposed, contended>>
    BY <1>2 DEF StartRotation, history
  <2>2. \A f \in Editors : ~Unmet(f)'
    <3> SUFFICES ASSUME NEW f \in Editors PROVE ~Unmet(f)'
      OBVIOUS
    <3>1. edit[f] \in Edit
      BY DEF TypeInv, TypeOK
    <3>2. edit'[f].pc = "idle" \/ "rotation" \in edit'[f].met
      BY <1>2, <3>1 DEF StartRotation, Edit
    <3> QED BY <3>2 DEF Unmet, AtWork
  <2>3. rotation'[w].copy = Listing(Credentials) /\ rotation'[w].todo = {r \in Credentials : row[r].there}
    BY <1>0, <1>2 DEF StartRotation, Rotation
  <2>4. \A v \in Rotators : v # w => rotation'[v] = rotation[v]
    BY <1>0, <1>2 DEF StartRotation
  <2>5. \A v \in Rotators : Lone(v)' => \A r \in rotation'[v].todo :
          \/ rotation'[v].copy[r] = row[r] /\ row[r].there
          \/ Lone(v) /\ r \in rotation[v].todo /\ rotation'[v].copy[r] = rotation[v].copy[r]
    BY <2>3, <2>4, ListingFacts DEF Lone, Rewriting, Rows, Listed
  <2> QED BY <2>1, <2>2, <2>5, QuietKeeps
<1>3. CASE ListChannels(w)
  <2>1. UNCHANGED <<row, edit, newest, exposed, contended>>
    BY <1>3 DEF ListChannels, history
  <2>2. \A f \in Editors : Unmet(f)' => Unmet(f)
    BY <2>1 DEF Unmet, AtWork
  <2>3. rotation'[w].copy = Listing(Channels) /\ rotation'[w].todo = {r \in Channels : row[r].access # Empty}
    BY <1>0, <1>3 DEF ListChannels, Rotation
  <2>4. \A r \in Channels : row[r].access # Empty => row[r].there
    BY DEF TypeInv, CopiesInOrder, Plain, Rows, Listed
  <2>5. \A v \in Rotators : v # w => rotation'[v] = rotation[v]
    BY <1>0, <1>3 DEF ListChannels
  <2>6. \A v \in Rotators : Lone(v)' => \A r \in rotation'[v].todo :
          \/ rotation'[v].copy[r] = row[r] /\ row[r].there
          \/ Lone(v) /\ r \in rotation[v].todo /\ rotation'[v].copy[r] = rotation[v].copy[r]
    BY <2>3, <2>4, <2>5, ListingFacts DEF Lone, Rewriting, Rows, Listed
  <2> QED BY <2>1, <2>2, <2>6, QuietKeeps
<1>4. CASE KmsFails(w) \/ AbortRotation(w) \/ StoreTenantKey(w) \/ LoseRotator(w)
  <2>1. /\ UNCHANGED <<row, edit, newest, contended>> /\ exposed \subseteq exposed'
        /\ rotation' = [rotation EXCEPT ![w] = NoRotation]
    BY <1>4 DEF KmsFails, AbortRotation, StoreTenantKey, LoseRotator, history, TypeInv, TypeOK
  <2>2. \A f \in Editors : Unmet(f)' => Unmet(f)
    BY <2>1 DEF Unmet, AtWork
  <2>3. \A v \in Rotators : Lone(v)' => Lone(v) /\ rotation'[v] = rotation[v]
    BY <1>0, <2>1, NothingFacts DEF Lone, Rewriting
  <2> QED BY <2>1, <2>2, <2>3, QuietKeeps
<1> QED BY <1>1, <1>2, <1>3, <1>4, RotateNewest DEF RotatorStep

\* Unless two editors wrote a row at once, or a rotation overlapped with one of them, it
\* holds the tokens last granted, and its label names the key of both columns: whatever
\* rows, rotators and editors there are.
THEOREM NewestTokensStay == Spec => []OnlyOverlapsBringBackTokens
<1>1. Init => GensInv /\ NewestInv
  <2> SUFFICES ASSUME Init PROVE GensInv /\ NewestInv
    OBVIOUS
  <2>1. GensInv
    BY NothingUpto, ConstantsAssumption DEF Init, GensInv
  <2>2. \A r \in Rows : AsGranted(r, row[r])
    BY NothingFacts DEF Init, NoRow, AsGranted, KeysOf
  <2>3. (\A e \in Editors : ~Unmet(e)) /\ (\A w \in Rotators : ~Lone(w))
    BY NothingFacts DEF Init, Unmet, AtWork, Lone, Rewriting
  <2> QED BY <2>1, <2>2, <2>3 DEF NewestInv, RowsAreNewest, CopyIsRow, ListedIsRow
<1>2. TypeInv /\ TypeInv' /\ SecretInv /\ GensInv /\ NewestInv /\ [Next]_vars => (GensInv /\ NewestInv)'
  <2> SUFFICES ASSUME TypeInv, TypeInv', SecretInv, GensInv, NewestInv, [Next]_vars
               PROVE  (GensInv /\ NewestInv)'
    OBVIOUS
  <2>1. CASE UNCHANGED vars
    BY <2>1 DEF vars, GensInv, Upto, NewestInv, RowsAreNewest, AsGranted, CopyIsRow, ListedIsRow, Unmet, AtWork,
                Lone, Rewriting
  <2> QED BY <2>1, EditorGens, RotatorGens, EditorNewest, RotatorNewest DEF Next
<1>3. NewestInv => OnlyOverlapsBringBackTokens
  BY DEF NewestInv, RowsAreNewest, AsGranted, KeysOf, OnlyOverlapsBringBackTokens
<1> QED BY <1>1, <1>2, <1>3, SecretInvHolds, PTL DEF Spec
=============================================================================
