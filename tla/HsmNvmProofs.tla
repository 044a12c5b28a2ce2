---------------------------- MODULE HsmNvmProofs ----------------------------
(***************************************************************************)
(* Proofs about HsmNvm: what nvm_list, nvm_read and nvm_overwrite promise  *)
(* although other clients change the directory between their requests.     *)
(***************************************************************************)
EXTENDS HsmNvm, SequenceTheorems, FiniteSetTheorems, TLAPS

-----------------------------------------------------------------------------
(* Directories.                                                            *)

\* No id is stored twice.
Unique(d) == \A i, j \in DOMAIN d : d[i].id = d[j].id => i = j
Directory == {d \in Seq(Object) : Unique(d) /\ Len(d) <= NvmCap}

\* x is stored before y.
Before(d, x, y) == \E i, j \in DOMAIN d : i < j /\ d[i].id = x /\ d[j].id = y

\* What one request may make of a directory: objects come or go, those that stay keep
\* their contents and their order.
Update(d, e) ==
  /\ e \in Directory
  /\ \A x \in IdsOf(d) \cap IdsOf(e) : Content(e, x) = Content(d, x)
  /\ \A x, y \in IdsOf(d) \cap IdsOf(e) : Before(d, x, y) => Before(e, x, y)

\* A directory is a function on 1 .. Len(d), its ids are ids.
LEMMA DirectoryFacts ==
  ASSUME NEW d \in Directory
  PROVE  /\ Len(d) \in Nat /\ DOMAIN d = 1 .. Len(d)
         /\ \A i \in DOMAIN d : d[i] \in Object /\ d[i].id \in Id /\ d[i].data \in Datum
         /\ IdsOf(d) \subseteq Id
<1>1. d \in Seq(Object)
  BY DEF Directory
<1>2. Len(d) \in Nat /\ DOMAIN d = 1 .. Len(d) /\ d \in [1 .. Len(d) -> Object]
  BY <1>1, LenProperties
<1>3. \A i \in DOMAIN d : d[i] \in Object /\ d[i].id \in Id /\ d[i].data \in Datum
  BY <1>2 DEF Object
<1> QED BY <1>2, <1>3 DEF IdsOf

\* The place of a stored id is where it is stored.
LEMMA PlaceFacts ==
  ASSUME NEW d \in Directory, NEW x \in IdsOf(d)
  PROVE  /\ PlaceOf(d, x) \in DOMAIN d /\ d[PlaceOf(d, x)].id = x
         /\ \A i \in DOMAIN d : d[i].id = x => i = PlaceOf(d, x) /\ Content(d, x) = d[i].data
<1>1. \E i \in DOMAIN d : d[i].id = x
  BY DEF IdsOf
<1>2. PlaceOf(d, x) \in DOMAIN d /\ d[PlaceOf(d, x)].id = x
  BY <1>1 DEF PlaceOf
<1> QED BY <1>2 DEF Directory, Unique, Content

\* A directory is an update of itself.
LEMMA NoUpdate == ASSUME NEW d \in Directory PROVE Update(d, d)
BY DEF Update

\* wh_Client_NvmAddObject: the new object comes, wherever it is put.
LEMMA InsertedFacts ==
  ASSUME NEW d \in Directory, NEW new \in Object, new.id \notin IdsOf(d), Len(d) < NvmCap,
         NEW e \in Inserted(d, new)
  PROVE  Update(d, e) /\ IdsOf(e) = IdsOf(d) \cup {new.id}
<1>1. Len(d) \in Nat /\ DOMAIN d = 1 .. Len(d) /\ \A i \in DOMAIN d : d[i] \in Object
  BY DirectoryFacts
<1>2. PICK i \in 0 .. Len(d) :
        e = [j \in 1 .. Len(d) + 1 |-> IF j <= i THEN d[j] ELSE IF j = i + 1 THEN new ELSE d[j - 1]]
  BY DEF Inserted
<1>3. /\ DOMAIN e = 1 .. Len(d) + 1
      /\ \A j \in 1 .. i : j \in DOMAIN d /\ j \in DOMAIN e /\ e[j] = d[j]
      /\ i + 1 \in DOMAIN e /\ e[i + 1] = new
      /\ \A j \in i + 1 .. Len(d) : j \in DOMAIN d /\ j + 1 \in DOMAIN e /\ e[j + 1] = d[j]
  BY <1>1, <1>2
<1> DEFINE to(j) == IF j <= i THEN j ELSE j + 1
<1>4. \A j \in DOMAIN d : to(j) \in DOMAIN e /\ e[to(j)] = d[j]
  BY <1>1, <1>3
<1>5. \A k \in DOMAIN e : k = i + 1 \/ \E j \in DOMAIN d : k = to(j)
  <2> SUFFICES ASSUME NEW k \in DOMAIN e, k # i + 1 PROVE \E j \in DOMAIN d : k = to(j)
    OBVIOUS
  <2>1. CASE k <= i
    BY <1>1, <1>3, <2>1
  <2>2. CASE k > i + 1
    <3>1. k - 1 \in DOMAIN d /\ to(k - 1) = k
      BY <1>1, <1>3, <2>2
    <3> QED BY <3>1
  <2> QED BY <1>3, <2>1, <2>2
<1>6. \A j, k \in DOMAIN d : (j < k <=> to(j) < to(k)) /\ (to(j) = to(k) => j = k)
  BY <1>1
<1>7. \A j \in DOMAIN d : to(j) # i + 1
  BY <1>1
<1> HIDE DEF to
<1>8. IdsOf(e) = IdsOf(d) \cup {new.id}
  <2>1. ASSUME NEW k \in DOMAIN e PROVE e[k].id \in IdsOf(d) \cup {new.id}
    <3>1. CASE k = i + 1
      BY <1>3, <3>1
    <3>2. CASE k # i + 1
      <4>1. PICK j \in DOMAIN d : k = to(j)
        BY <1>5, <3>2
      <4> QED BY <1>4, <4>1 DEF IdsOf
    <3> QED BY <3>1, <3>2
  <2>2. ASSUME NEW j \in DOMAIN d PROVE d[j].id \in IdsOf(e)
    BY <1>4 DEF IdsOf
  <2>3. new.id \in IdsOf(e)
    BY <1>3 DEF IdsOf
  <2> QED BY <2>1, <2>2, <2>3 DEF IdsOf
<1>9. e \in Seq(Object) /\ Len(e) = Len(d) + 1
  <2>1. \A j \in 1 .. Len(d) + 1 : e[j] \in Object
    BY <1>1, <1>3, <1>4, <1>5
  <2>2. e \in [1 .. Len(d) + 1 -> Object] /\ Len(d) + 1 \in Nat
    BY <1>1, <1>2, <2>1
  <2>3. e \in Seq(Object)
    BY <2>2, SeqDef
  <2> QED BY <1>1, <1>3, <2>3, LenProperties
<1>10. Unique(e)
  <2> SUFFICES ASSUME NEW k \in DOMAIN e, NEW l \in DOMAIN e, e[k].id = e[l].id PROVE k = l
    BY DEF Unique
  <2>1. \A j \in DOMAIN d : d[j].id # new.id
    BY DEF IdsOf
  <2>2. \A j, m \in DOMAIN d : d[j].id = d[m].id => j = m
    BY DEF Directory, Unique
  <2> QED BY <1>3, <1>4, <1>5, <2>1, <2>2
<1>11. e \in Directory
  BY <1>1, <1>9, <1>10, NvmAssumption DEF Directory
<1>12. ASSUME NEW x \in IdsOf(d) PROVE Content(e, x) = Content(d, x)
  <2>1. PICK j \in DOMAIN d : d[j].id = x
    BY DEF IdsOf
  <2>2. x \in IdsOf(e)
    BY <1>8
  <2>3. Content(d, x) = d[j].data
    BY <2>1, PlaceFacts
  <2>4. Content(e, x) = e[to(j)].data
    BY <1>4, <1>11, <2>1, <2>2, PlaceFacts
  <2> QED BY <1>4, <2>3, <2>4
<1>13. ASSUME NEW x, NEW y, Before(d, x, y) PROVE Before(e, x, y)
  <2>1. PICK j, k \in DOMAIN d : j < k /\ d[j].id = x /\ d[k].id = y
    BY <1>13 DEF Before
  <2> QED BY <1>4, <1>6, <2>1 DEF Before
<1> QED BY <1>8, <1>11, <1>12, <1>13 DEF Update

\* wh_Client_NvmDestroyObjects: the object goes if it was there.
LEMMA RemovedFacts ==
  ASSUME NEW d \in Directory, NEW id
  PROVE  Update(d, Removed(d, id)) /\ IdsOf(Removed(d, id)) = IdsOf(d) \ {id}
<1>1. CASE id \notin IdsOf(d)
  BY <1>1, NoUpdate DEF Removed
<1>2. CASE id \in IdsOf(d)
  <2> DEFINE e == Removed(d, id)
             p == PlaceOf(d, id)
             from(i) == IF i < p THEN i ELSE i + 1
  <2>1. Len(d) \in Nat /\ DOMAIN d = 1 .. Len(d) /\ \A i \in DOMAIN d : d[i] \in Object
    BY DirectoryFacts
  <2>2. p \in DOMAIN d /\ d[p].id = id /\ \A i \in DOMAIN d : d[i].id = id => i = p
    BY <1>2, PlaceFacts
  <2>3. e = [i \in 1 .. Len(d) - 1 |-> IF i < p THEN d[i] ELSE d[i + 1]]
    BY <1>2 DEF Removed
  <2>4. DOMAIN e = 1 .. Len(d) - 1 /\ \A i \in DOMAIN e : from(i) \in DOMAIN d /\ e[i] = d[from(i)]
    BY <2>1, <2>2, <2>3
  <2>5. \A j \in DOMAIN d : j # p => \E i \in DOMAIN e : j = from(i)
    <3> SUFFICES ASSUME NEW j \in DOMAIN d, j # p PROVE \E i \in DOMAIN e : j = from(i)
      OBVIOUS
    <3>1. CASE j < p
      <4>1. j \in DOMAIN e /\ from(j) = j
        BY <2>1, <2>2, <2>4, <3>1
      <4> QED BY <4>1
    <3>2. CASE j > p
      <4>1. j - 1 \in DOMAIN e /\ from(j - 1) = j
        BY <2>1, <2>2, <2>4, <3>2
      <4> QED BY <4>1
    <3> QED BY <2>1, <2>2, <3>1, <3>2
  <2>6. \A i, j \in DOMAIN e :
          from(i) # p /\ (from(i) = from(j) => i = j) /\ (from(i) < from(j) => i < j)
    BY <2>1, <2>2, <2>4
  <2> HIDE DEF from, p, e
  <2>7. IdsOf(e) = IdsOf(d) \ {id}
    BY <2>2, <2>4, <2>5, <2>6 DEF IdsOf
  <2>8. e \in Seq(Object) /\ Len(e) = Len(d) - 1
    <3>1. Len(d) - 1 \in Nat
      BY <2>1, <2>2
    <3>2. \A i \in 1 .. Len(d) - 1 : e[i] \in Object
      BY <2>1, <2>4
    <3>3. e \in [1 .. Len(d) - 1 -> Object]
      BY <2>3, <2>4, <3>2
    <3>4. e \in Seq(Object)
      BY <3>1, <3>3, SeqDef
    <3> QED BY <2>4, <3>1, <3>4, LenProperties
  <2>9. Unique(e)
    <3>1. \A j, m \in DOMAIN d : d[j].id = d[m].id => j = m
      BY DEF Directory, Unique
    <3> QED BY <2>4, <2>6, <3>1 DEF Unique
  <2>10. e \in Directory
    BY <2>1, <2>8, <2>9, NvmAssumption DEF Directory
  <2>11. ASSUME NEW x \in IdsOf(e) PROVE Content(e, x) = Content(d, x)
    <3>1. PICK i \in DOMAIN e : e[i].id = x
      BY DEF IdsOf
    <3>2. Content(e, x) = e[i].data
      BY <2>10, <3>1, PlaceFacts
    <3>3. x \in IdsOf(d) /\ d[from(i)].id = x /\ from(i) \in DOMAIN d
      BY <2>4, <2>7, <3>1
    <3>4. Content(d, x) = d[from(i)].data
      BY <3>3, PlaceFacts
    <3> QED BY <2>4, <3>2, <3>4
  <2>12. ASSUME NEW x \in IdsOf(e), NEW y \in IdsOf(e), Before(d, x, y) PROVE Before(e, x, y)
    <3>1. PICK j, k \in DOMAIN d : j < k /\ d[j].id = x /\ d[k].id = y
      BY <2>12 DEF Before
    <3>2. j # p /\ k # p
      BY <2>2, <2>7, <3>1
    <3>3. PICK i, m \in DOMAIN e : j = from(i) /\ k = from(m)
      BY <2>5, <3>2
    <3>4. i < m /\ e[i].id = x /\ e[m].id = y
      BY <2>4, <2>6, <3>1, <3>3
    <3> QED BY <3>4 DEF Before
  <2> QED BY <2>7, <2>10, <2>11, <2>12 DEF Update, e
<1> QED BY <1>1, <1>2

-----------------------------------------------------------------------------
(* What a call under way knows of the directory.                           *)

Witness ==
  [base : Directory, came : SUBSET Id, gone : SUBSET Id, stored : BOOLEAN, destroyed : BOOLEAN]

\* What is stored was there at first or came, and what was there at first and has not
\* gone is still stored, unchanged.
WitnessOf(s, d) ==
  /\ IdsOf(d) \subseteq IdsOf(s.base) \cup s.came
  /\ \A x \in IdsOf(s.base) \ s.gone : x \in IdsOf(d) /\ Content(d, x) = Content(s.base, x)

\* list has stored ids in their order, and passes over none of those that stay.
ListingOf(stays, d, list) ==
  /\ \A i \in DOMAIN list : list[i] \in IdsOf(d)
  /\ \A i, j \in DOMAIN list : i < j => Before(d, list[i], list[j])
  /\ list # <<>> => \A x \in stays :
       (\E i \in DOMAIN list : list[i] = x) \/ Before(d, list[Len(list)], x)

\* An update is witnessed.
LEMMA WitnessStep ==
  ASSUME NEW d \in Directory, NEW e, Update(d, e), NEW s \in Witness, NEW t \in Witness,
         WitnessOf(s, d), t.base = s.base,
         t.came = s.came \cup (IdsOf(e) \ IdsOf(d)), t.gone = s.gone \cup (IdsOf(d) \ IdsOf(e))
  PROVE  WitnessOf(t, e)
<1>1. IdsOf(e) \subseteq IdsOf(t.base) \cup t.came
  BY DEF WitnessOf
<1>2. ASSUME NEW x \in IdsOf(t.base) \ t.gone
      PROVE  x \in IdsOf(e) /\ Content(e, x) = Content(t.base, x)
  <2>1. x \in IdsOf(d) /\ Content(d, x) = Content(s.base, x)
    BY DEF WitnessOf
  <2>2. x \in IdsOf(e)
    BY <2>1
  <2> QED BY <2>1, <2>2 DEF Update
<1> QED BY <1>1, <1>2 DEF WitnessOf

\* An update that takes away no object of a listing keeps it right.
LEMMA ListingStep ==
  ASSUME NEW d \in Directory, NEW e, Update(d, e), NEW stays, stays \subseteq IdsOf(d),
         NEW list \in Seq(Id), ListingOf(stays, d, list), \A i \in DOMAIN list : list[i] \in IdsOf(e)
  PROVE  ListingOf(stays \cap IdsOf(e), e, list)
<1>1. \A x, y \in IdsOf(d) \cap IdsOf(e) : Before(d, x, y) => Before(e, x, y)
  BY DEF Update
<1>2. \A i \in DOMAIN list : list[i] \in IdsOf(d)
  BY DEF ListingOf
<1>3. list # <<>> => Len(list) \in DOMAIN list
  BY LenProperties, EmptySeq
<1> QED BY <1>1, <1>2, <1>3 DEF ListingOf

\* The next request of a listing is answered with the object after the cursor.
LEMMA ListNext ==
  ASSUME NEW d \in Directory, NEW stays, stays \subseteq IdsOf(d),
         NEW list \in Seq(Id), ListingOf(stays, d, list), NEW p \in DOMAIN d,
         list = <<>> => p = 1, list # <<>> => p = PlaceOf(d, list[Len(list)]) + 1
  PROVE  ListingOf(stays, d, Append(list, d[p].id))
<1> DEFINE n == Len(list)
           new == Append(list, d[p].id)
<1>1. Len(d) \in Nat /\ DOMAIN d = 1 .. Len(d) /\ d[p].id \in Id
  BY DirectoryFacts
<1>2. n \in Nat /\ DOMAIN list = 1 .. n /\ (list = <<>> <=> n = 0)
  BY LenProperties, EmptySeq
<1>3. /\ new \in Seq(Id) /\ Len(new) = n + 1 /\ DOMAIN new = 1 .. n + 1
      /\ new[n + 1] = d[p].id /\ \A i \in 1 .. n : new[i] = list[i]
      /\ new # <<>>
  BY <1>1, <1>2, AppendProperties, LenProperties
<1>4. d[p].id \in IdsOf(d)
  BY DEF IdsOf
<1>5. \A i \in DOMAIN new : new[i] \in IdsOf(d)
  BY <1>2, <1>3, <1>4 DEF ListingOf
<1>6. \A x \in IdsOf(d) : PlaceOf(d, x) \in DOMAIN d /\ d[PlaceOf(d, x)].id = x
  BY PlaceFacts
<1>7. ASSUME NEW x, NEW y, Before(d, x, y)
      PROVE  /\ x \in IdsOf(d) /\ y \in IdsOf(d) /\ PlaceOf(d, x) < PlaceOf(d, y)
  <2>1. PICK i, j \in DOMAIN d : i < j /\ d[i].id = x /\ d[j].id = y
    BY <1>7 DEF Before
  <2>2. x \in IdsOf(d) /\ y \in IdsOf(d)
    BY <2>1 DEF IdsOf
  <2>3. i = PlaceOf(d, x) /\ j = PlaceOf(d, y)
    BY <2>1, <2>2, PlaceFacts
  <2> QED BY <2>1, <2>2, <2>3
<1>8. ASSUME NEW x \in IdsOf(d), NEW y \in IdsOf(d), PlaceOf(d, x) < PlaceOf(d, y)
      PROVE  Before(d, x, y)
  BY <1>6, <1>8 DEF Before
<1>9. PlaceOf(d, d[p].id) = p
  BY <1>4, PlaceFacts
<1>10. ASSUME NEW i \in DOMAIN new, NEW j \in DOMAIN new, i < j
       PROVE  Before(d, new[i], new[j])
  <2>1. CASE j <= n
    BY <1>2, <1>3, <1>10, <2>1 DEF ListingOf
  <2>2. CASE j = n + 1
    <3>1. i \in 1 .. n /\ n \in DOMAIN list /\ list # <<>>
      BY <1>2, <1>3, <1>10, <2>2
    <3>2. PlaceOf(d, list[i]) <= PlaceOf(d, list[n])
      <4>1. CASE i = n
        BY <1>2, <1>5, <1>6, <1>3, <3>1, <4>1, <1>1
      <4>2. CASE i < n
        BY <1>1, <1>2, <1>6, <1>7, <3>1, <4>2 DEF ListingOf
      <4> QED BY <1>2, <3>1, <4>1, <4>2
    <3>3. PlaceOf(d, list[i]) < p
      BY <1>1, <1>2, <1>3, <1>5, <1>6, <3>1, <3>2, SMTT(30)
    <3>4. new[i] = list[i] /\ new[j] = d[p].id
      BY <1>3, <2>2, <3>1
    <3> QED BY <1>4, <1>5, <1>8, <1>9, <3>3, <3>4
  <2> QED BY <1>2, <1>3, <2>1, <2>2
<1>11. ASSUME NEW x \in stays
       PROVE  (\E i \in DOMAIN new : new[i] = x) \/ Before(d, new[n + 1], x)
  <2>1. x \in IdsOf(d) /\ PlaceOf(d, x) \in DOMAIN d
    BY <1>6
  <2>2. CASE \E i \in DOMAIN list : list[i] = x
    BY <1>2, <1>3, <2>2
  <2>3. CASE ~\E i \in DOMAIN list : list[i] = x
    <3>1. PlaceOf(d, x) >= p
      <4>1. CASE list = <<>>
        BY <1>1, <2>1, <4>1
      <4>2. CASE list # <<>>
        <5>1. Before(d, list[n], x)
          BY <2>3, <4>2 DEF ListingOf
        <5>2. PlaceOf(d, list[n]) < PlaceOf(d, x) /\ PlaceOf(d, list[n]) \in DOMAIN d
          BY <1>6, <1>7, <5>1
        <5> QED BY <1>1, <2>1, <4>2, <5>2
      <4> QED BY <4>1, <4>2
    <3>2. CASE PlaceOf(d, x) = p
      <4>1. new[n + 1] = x /\ n + 1 \in DOMAIN new
        BY <1>2, <1>3, <1>6, <2>1, <3>2
      <4> QED BY <4>1
    <3>3. CASE PlaceOf(d, x) > p
      BY <1>1, <1>3, <1>4, <1>8, <1>9, <2>1, <3>3
    <3> QED BY <1>1, <2>1, <3>1, <3>2, <3>3
  <2> QED BY <2>2, <2>3
<1>12. Len(new) = n + 1
  BY <1>3
<1> HIDE DEF new
<1> QED BY <1>5, <1>10, <1>11, <1>12, <1>3 DEF ListingOf

\* When there is no object after the cursor everything is listed.
LEMMA ListEnd ==
  ASSUME NEW d \in Directory, NEW stays, stays \subseteq IdsOf(d),
         NEW list \in Seq(Id), ListingOf(stays, d, list), NEW p, p \notin DOMAIN d,
         list = <<>> => p = 1, list # <<>> => p = PlaceOf(d, list[Len(list)]) + 1
  PROVE  stays \subseteq {list[i] : i \in DOMAIN list}
<1>1. Len(d) \in Nat /\ DOMAIN d = 1 .. Len(d)
  BY DirectoryFacts
<1>2. CASE list = <<>>
  BY <1>1, <1>2 DEF IdsOf
<1>3. CASE list # <<>>
  <2>1. ASSUME NEW x, Before(d, list[Len(list)], x) PROVE FALSE
    <3>1. PICK i, j \in DOMAIN d : i < j /\ d[i].id = list[Len(list)] /\ d[j].id = x
      BY <2>1 DEF Before
    <3>2. i = PlaceOf(d, list[Len(list)])
      <4>1. list[Len(list)] \in IdsOf(d)
        BY <3>1 DEF IdsOf
      <4> QED BY <3>1, <4>1, PlaceFacts
    <3> QED BY <1>1, <1>3, <3>1, <3>2
  <2> QED BY <1>3, <2>1 DEF ListingOf
<1> QED BY <1>2, <1>3

\* What is listed in order is listed once.
LEMMA ListCount ==
  ASSUME NEW d \in Directory, NEW list \in Seq(Id),
         \A i, j \in DOMAIN list : i < j => Before(d, list[i], list[j])
  PROVE  Cardinality({list[i] : i \in DOMAIN list}) = Len(list)
<1> DEFINE S == {list[i] : i \in DOMAIN list}
<1>1. Len(list) \in Nat /\ DOMAIN list = 1 .. Len(list) /\ list \in [1 .. Len(list) -> Id]
  BY LenProperties
<1>2. ASSUME NEW x, Before(d, x, x) PROVE FALSE
  <2>1. PICK i, j \in DOMAIN d : i < j /\ d[i].id = x /\ d[j].id = x
    BY <1>2 DEF Before
  <2>2. i = j
    BY <2>1 DEF Directory, Unique
  <2>3. Len(d) \in Nat /\ DOMAIN d = 1 .. Len(d)
    BY DirectoryFacts
  <2> QED BY <2>1, <2>2, <2>3
<1>3. \A i, j \in 1 .. Len(list) : list[i] = list[j] => i = j
  <2> SUFFICES ASSUME NEW i \in 1 .. Len(list), NEW j \in 1 .. Len(list), list[i] = list[j], i # j
               PROVE  FALSE
    OBVIOUS
  <2>1. i < j \/ j < i
    BY <1>1
  <2> QED BY <1>1, <1>2, <2>1
<1>4. list \in Bijection(1 .. Len(list), S)
  BY <1>1, <1>3 DEF Bijection, Injection, Surjection, IsInjective
<1>5. ExistsBijection(1 .. Len(list), S)
  BY <1>4 DEF ExistsBijection
<1> QED BY <1>1, <1>5, FS_CountingElements

-----------------------------------------------------------------------------
(* The inductive invariant.                                                *)

Job ==
  [op : Operation \cup {"none"}, id : Id \cup {INVALID}, data : Datum \cup {<<>>}, offset : Nat]

NvmTypes ==
  /\ dir \in Directory
  /\ job \in [Client -> Job]
  /\ at \in [Client -> At]
  /\ outcome \in [Client -> Outcome]
  /\ ids \in [Client -> Seq(Id)]
  /\ len \in [Client -> Nat]
  /\ DOMAIN value = Client /\ value = [c \in Client |-> value[c]]
  /\ seen \in [Client -> Witness]

\* The operation that a request is part of.
OpOf(request) ==
  IF request \in {"length", "read"} THEN "read" ELSE IF request = "replace" THEN "overwrite" ELSE request

\* A client is at a request of its call, and what it adds is an object.
Stage(c) == at[c] # "idle" =>
  /\ job[c].op = OpOf(at[c])
  /\ at[c] \in {"add", "overwrite", "replace"} => job[c].id \in Id /\ job[c].data \in Datum

Witnessed(c) == at[c] # "idle" => WitnessOf(seen[c], dir)

\* What was there when c's call began and has not gone.
Stays(c) == IdsOf(seen[c].base) \ seen[c].gone

Listing(c) == at[c] = "list" /\ Listed(c) \cap seen[c].gone = {} =>
  ListingOf(Stays(c), dir, ids[c])

\* Nothing is read yet, and the length that was learned is that of the rest.
Reading(c) ==
  /\ at[c] \in {"length", "read"} => value[c] = <<>>
  /\ at[c] = "read" /\ job[c].id \in IdsOf(seen[c].base) \ seen[c].gone =>
       job[c].offset + len[c] = Len(Content(seen[c].base, job[c].id))

\* How calls have ended, for one client each.
ListedExactly(c) == Succeeded(c, "list") /\ Listed(c) \cap seen[c].gone = {} =>
  /\ Stays(c) \subseteq Listed(c)
  /\ Listed(c) \subseteq IdsOf(seen[c].base) \cup seen[c].came
  /\ Cardinality(Listed(c)) = Len(ids[c])
ReadWhole(c) ==
  /\ at[c] = "idle" /\ job[c].op = "read" /\ outcome[c] # "comm_error"
  /\ job[c].id \in IdsOf(seen[c].base) \ seen[c].gone
  => /\ outcome[c] = "ok"
     /\ value[c] = Rest(Content(seen[c].base, job[c].id), job[c].offset)
Reported(c) == at[c] = "idle" /\ job[c].op = "overwrite" =>
  /\ seen[c].destroyed /\ ~seen[c].stored => outcome[c] \in {"data_lost", "comm_error"}
  /\ outcome[c] = "ok" => seen[c].stored

CallInv(c) ==
  /\ Stage(c) /\ Witnessed(c) /\ Listing(c) /\ Reading(c)
  /\ ListedExactly(c) /\ ReadWhole(c) /\ Reported(c)

NvmInv == NvmTypes /\ \A c \in Client : CallInv(c)

-----------------------------------------------------------------------------
(* Steps as the clients see them.                                          *)

\* A client that takes no part in the step.
Still(x) ==
  /\ at'[x] = at[x] /\ outcome'[x] = outcome[x] /\ job'[x] = job[x]
  /\ ids'[x] = ids[x] /\ len'[x] = len[x] /\ value'[x] = value[x]

\* What a call under way records of the step.
Observed(x) ==
  /\ at[x] = "idle" => seen'[x] = seen[x]
  /\ at[x] # "idle" =>
       /\ seen'[x].base = seen[x].base
       /\ seen'[x].came = seen[x].came \cup (IdsOf(dir') \ IdsOf(dir))
       /\ seen'[x].gone = seen[x].gone \cup (IdsOf(dir) \ IdsOf(dir'))

\* A request that changes the directory is recorded by all calls.
LEMMA ExecuteFacts ==
  ASSUME NvmTypes, NEW c \in Client, at[c] # "idle", NEW d, Update(dir, d), Execute(c, d)
  PROVE  /\ dir' = d /\ Update(dir, dir') /\ seen' \in [Client -> Witness]
         /\ \A x \in Client : Observed(x)
         /\ ~(IdsOf(d) \subseteq IdsOf(dir)) => seen'[c].stored
<1>1. dir' = d /\ d \in Directory /\ IdsOf(d) \subseteq Id /\ IdsOf(dir) \subseteq Id
  BY DirectoryFacts DEF Execute, Update, NvmTypes
<1>2. \A x \in Client : seen[x] \in Witness
  BY DEF NvmTypes
<1>3. ASSUME NEW x \in Client, at[x] # "idle"
      PROVE  /\ seen'[x] \in Witness
             /\ seen'[x].base = seen[x].base
             /\ seen'[x].came = seen[x].came \cup (IdsOf(d) \ IdsOf(dir))
             /\ seen'[x].gone = seen[x].gone \cup (IdsOf(dir) \ IdsOf(d))
             /\ x = c /\ ~(IdsOf(d) \subseteq IdsOf(dir)) => seen'[x].stored
  <2>1. seen'[x] = [seen[x] EXCEPT !.came = @ \cup (IdsOf(d) \ IdsOf(dir)),
                                   !.gone = @ \cup (IdsOf(dir) \ IdsOf(d)),
                                   !.stored = @ \/ (x = c /\ IdsOf(d) \ IdsOf(dir) # {}),
                                   !.destroyed = @ \/ (x = c /\ IdsOf(dir) \ IdsOf(d) # {})]
    BY <1>3 DEF Execute
  <2>2. seen[x] \in Witness
    BY <1>2
  <2> QED BY <1>1, <2>1, <2>2, ZenonT(60) DEF Witness
<1>4. \A x \in Client : at[x] = "idle" => seen'[x] = seen[x]
  BY DEF Execute
<1>5. seen' \in [Client -> Witness]
  <2>1. \A x \in Client : seen'[x] \in Witness
    BY <1>2, <1>3, <1>4
  <2>2. seen' = [x \in Client |-> seen'[x]]
    BY DEF Execute
  <2> QED BY <2>1, <2>2
<1> QED BY <1>1, <1>3, <1>4, <1>5 DEF Observed

\* Nothing happens at the server.
LEMMA QuietFacts ==
  ASSUME NvmTypes, dir' = dir, seen' = seen
  PROVE  /\ Update(dir, dir') /\ seen' \in [Client -> Witness]
         /\ \A x \in Client : Observed(x)
<1>1. Update(dir, dir')
  BY NoUpdate DEF NvmTypes
<1>2. seen' \in [Client -> Witness]
  BY DEF NvmTypes
<1>3. \A x \in Client : Observed(x)
  BY DEF Observed, NvmTypes, Witness
<1> QED BY <1>1, <1>2, <1>3

\* A step keeps what is known of the clients that take no part in it.
LEMMA StillStep ==
  ASSUME NvmTypes, NvmTypes', Update(dir, dir'), NEW x \in Client,
         CallInv(x), Still(x), Observed(x)
  PROVE  CallInv(x)'
<1>1. CASE at[x] = "idle"
  <2>1. /\ Stage(x)' /\ Witnessed(x)' /\ Listing(x)' /\ Reading(x)'
    BY <1>1 DEF Still, Stage, Witnessed, Listing, Reading
  <2>2. ListedExactly(x)' /\ ReadWhole(x)' /\ Reported(x)'
    BY <1>1 DEF Still, Observed, CallInv, ListedExactly, ReadWhole, Reported, Succeeded, Listed,
                Stays
  <2> QED BY <2>1, <2>2 DEF CallInv
<1>2. CASE at[x] # "idle"
  <2>1. /\ seen[x] \in Witness /\ seen'[x] \in Witness /\ dir \in Directory
        /\ seen'[x].base = seen[x].base
        /\ seen'[x].came = seen[x].came \cup (IdsOf(dir') \ IdsOf(dir))
        /\ seen'[x].gone = seen[x].gone \cup (IdsOf(dir) \ IdsOf(dir'))
    BY <1>2 DEF NvmTypes, Observed
  <2>2. WitnessOf(seen[x], dir)
    BY <1>2 DEF CallInv, Witnessed
  <2>3. WitnessOf(seen'[x], dir')
    BY <2>1, <2>2, WitnessStep
  <2>4. Stage(x)' /\ Witnessed(x)'
    BY <2>3 DEF Still, Stage, Witnessed, CallInv
  <2>5. Listing(x)'
    <3> SUFFICES ASSUME at'[x] = "list", Listed(x)' \cap seen'[x].gone = {}
                 PROVE  ListingOf(Stays(x)', dir', ids'[x])
      BY DEF Listing
    <3>1. at[x] = "list" /\ ids'[x] = ids[x] /\ ids[x] \in Seq(Id) /\ Listed(x)' = Listed(x)
      BY DEF Still, NvmTypes, Listed
    <3>2. ListingOf(Stays(x), dir, ids[x])
      BY <2>1, <3>1 DEF CallInv, Listing
    <3>3. Stays(x) \subseteq IdsOf(dir) /\ Stays(x)' = Stays(x) \cap IdsOf(dir')
      BY <2>1, <2>2, <2>3 DEF WitnessOf, Stays
    <3>4. \A i \in DOMAIN ids[x] : ids[x][i] \in IdsOf(dir')
      BY <2>1, <3>1, <3>2 DEF ListingOf, Listed
    <3>5. ListingOf(Stays(x) \cap IdsOf(dir'), dir', ids[x])
      BY <2>1, <3>1, <3>2, <3>3, <3>4, ListingStep
    <3> QED BY <3>1, <3>3, <3>5
  <2>6. Reading(x)'
    BY <2>1 DEF Still, Reading, CallInv
  <2>7. ListedExactly(x)' /\ ReadWhole(x)' /\ Reported(x)'
    BY <1>2 DEF Still, ListedExactly, ReadWhole, Reported, Succeeded
  <2> QED BY <2>4, <2>5, <2>6, <2>7 DEF CallInv
<1> QED BY <1>1, <1>2

\* The step is c's: the others only record what it does.
StepOf(c) ==
  /\ NvmTypes' /\ Update(dir, dir')
  /\ \A x \in Client \ {c} : Observed(x) /\ Still(x)

\* A step of one client that keeps its own call in order keeps everyone's.
LEMMA StepKeeps ==
  ASSUME NvmInv, NEW c \in Client, StepOf(c), CallInv(c)'
  PROVE  NvmInv'
<1>1. NvmTypes /\ NvmTypes' /\ Update(dir, dir')
  BY DEF NvmInv, StepOf
<1>2. ASSUME NEW x \in Client PROVE CallInv(x)'
  <2>1. CASE x = c
    BY <2>1
  <2>2. CASE x # c
    <3>1. CallInv(x) /\ Still(x) /\ Observed(x)
      BY <2>2 DEF NvmInv, StepOf
    <3> QED BY <1>1, <3>1, StillStep
  <2> QED BY <2>1, <2>2
<1> QED BY <1>1, <1>2 DEF NvmInv

\* The call of c ends with r, its arguments and what it gathered are what they were.
LEMMA EndStep ==
  ASSUME NvmInv, NEW c \in Client, NEW r \in Outcome, at[c] # "idle", Return(c, r), UNCHANGED local,
         Update(dir, dir'), seen' \in [Client -> Witness], \A x \in Client : Observed(x),
         job[c].op = "list" => r # "ok",
         job[c].op = "read" => r = "comm_error",
         job[c].op = "overwrite" => r \in {"data_lost", "comm_error"} \/ (seen'[c].stored /\ r = "ok")
  PROVE  NvmInv'
<1>1. NvmTypes'
  BY DEF NvmInv, NvmTypes, Return, local, At, Update
<1>2. \A x \in Client \ {c} : Still(x)
  BY DEF NvmInv, NvmTypes, Return, local, Still
<1>3. StepOf(c)
  BY <1>1, <1>2 DEF StepOf
<1>4. at'[c] = "idle" /\ outcome'[c] = r /\ job'[c] = job[c]
  BY DEF NvmInv, NvmTypes, Return, local
<1>5. CallInv(c)'
  <2>1. Stage(c)' /\ Witnessed(c)' /\ Listing(c)' /\ Reading(c)'
    BY <1>4 DEF Stage, Witnessed, Listing, Reading
  <2>2. ListedExactly(c)'
    BY <1>4 DEF ListedExactly, Succeeded
  <2>3. ReadWhole(c)'
    BY <1>4 DEF ReadWhole
  <2>4. Reported(c)'
    BY <1>4 DEF Reported
  <2> QED BY <2>1, <2>2, <2>3, <2>4 DEF CallInv
<1> QED BY <1>3, <1>5, StepKeeps

\* What a client at a request is about.
LEMMA StageFacts ==
  ASSUME NvmInv, NEW c \in Client, at[c] # "idle"
  PROVE  /\ NvmTypes /\ CallInv(c) /\ dir \in Directory /\ seen[c] \in Witness
         /\ job[c] \in Job /\ job[c].op = OpOf(at[c])
         /\ at[c] \in {"add", "overwrite", "replace"} => job[c].id \in Id /\ job[c].data \in Datum
         /\ WitnessOf(seen[c], dir)
BY DEF NvmInv, NvmTypes, CallInv, Stage, Witnessed

\* A request that never reaches the server keeps the invariant.
LEMMA LoseRequestStep ==
  ASSUME NvmInv, NEW c \in Client, LoseRequest(c)
  PROVE  NvmInv'
<1>1. /\ at[c] # "idle" /\ Return(c, CommOutcome(c)) /\ UNCHANGED local /\ dir' = dir /\ seen' = seen
  BY DEF LoseRequest, Lose
<1>2. job[c].op = OpOf(at[c]) /\ NvmTypes /\ at[c] \in At
  BY <1>1, StageFacts DEF NvmTypes
<1>3. /\ CommOutcome(c) \in {"data_lost", "comm_error"}
      /\ job[c].op = "read" => CommOutcome(c) = "comm_error"
  BY <1>2 DEF CommOutcome, OpOf
<1>4. CommOutcome(c) \in Outcome
  BY <1>3 DEF Outcome
<1> QED BY <1>1, <1>2, <1>3, <1>4, QuietFacts, EndStep

\* A delete and an add that the server executes are updates.
LEMMA DeleteUpdates ==
  ASSUME NvmInv, NEW c \in Client, at[c] # "idle"
  PROVE  Update(dir, Removed(dir, job[c].id))
BY StageFacts, RemovedFacts

\* Adding an object puts one new id into the directory and moves no other.
LEMMA AddUpdates ==
  ASSUME NvmInv, NEW c \in Client, at[c] \in {"add", "replace"}, CanAdd(job[c].id),
         NEW d \in Inserted(dir, [id |-> job[c].id, data |-> job[c].data])
  PROVE  Update(dir, d) /\ ~(IdsOf(d) \subseteq IdsOf(dir))
<1> DEFINE new == [id |-> job[c].id, data |-> job[c].data]
<1>1. new \in Object /\ dir \in Directory
  BY StageFacts DEF Object
<1>2. new.id \notin IdsOf(dir) /\ Len(dir) < NvmCap
  BY DEF CanAdd, Exists
<1>3. Update(dir, d) /\ IdsOf(d) = IdsOf(dir) \cup {new.id}
  BY <1>1, <1>2, InsertedFacts
<1> QED BY <1>2, <1>3

\* A reply that is lost after the server did its work keeps the invariant.
LEMMA LoseReplyStep ==
  ASSUME NvmInv, NEW c \in Client, LoseReply(c)
  PROVE  NvmInv'
<1>1. /\ at[c] \in {"overwrite", "delete", "add", "replace"} /\ at[c] # "idle"
      /\ Return(c, CommOutcome(c)) /\ UNCHANGED local
  BY DEF LoseReply, Lose
<1>2. \E d : Update(dir, d) /\ Execute(c, d)
  <2>1. CASE at[c] \in {"overwrite", "delete"} /\ Execute(c, Removed(dir, job[c].id))
    BY <1>1, <2>1, DeleteUpdates
  <2>2. CASE /\ at[c] \in {"add", "replace"} /\ CanAdd(job[c].id)
             /\ \E d \in Inserted(dir, [id |-> job[c].id, data |-> job[c].data]) : Execute(c, d)
    BY <1>1, <2>2, AddUpdates
  <2> QED BY <2>1, <2>2 DEF LoseReply
<1>3. /\ NvmTypes /\ job[c].op = OpOf(at[c])
  BY <1>1, StageFacts
<1>4. /\ Update(dir, dir') /\ seen' \in [Client -> Witness] /\ \A x \in Client : Observed(x)
  BY <1>1, <1>2, <1>3, ExecuteFacts
<1>5. /\ CommOutcome(c) \in {"data_lost", "comm_error"}
      /\ job[c].op # "read"
  BY <1>1, <1>3 DEF CommOutcome, OpOf
<1>6. CommOutcome(c) \in Outcome
  BY <1>5 DEF Outcome
<1> QED BY <1>1, <1>4, <1>5, <1>6, EndStep

\* nvm_get_metadata keeps the invariant.
LEMMA MetadataStep ==
  ASSUME NvmInv, NEW c \in Client, Metadata(c)
  PROVE  NvmInv'
<1> DEFINE r == IF Exists(job[c].id) THEN "ok" ELSE "wh_error"
<1>1. /\ at[c] = "metadata" /\ Return(c, r) /\ UNCHANGED local /\ dir' = dir /\ seen' = seen
  BY DEF Metadata, server
<1>2. job[c].op = "metadata" /\ NvmTypes
  BY <1>1, StageFacts DEF OpOf
<1>3. r \in Outcome
  BY DEF Outcome
<1> HIDE DEF r
<1> QED BY <1>1, <1>2, <1>3, QuietFacts, EndStep

\* Both add requests.
LEMMA AddStep ==
  ASSUME NvmInv, NEW c \in Client, at[c] \in {"add", "replace"}, NEW failed \in {"wh_error", "data_lost"},
         at[c] = "replace" => failed = "data_lost", AddObject(c, failed)
  PROVE  NvmInv'
<1>1. /\ at[c] # "idle" /\ UNCHANGED local /\ NvmTypes
      /\ job[c].op \in {"add", "overwrite"} /\ (job[c].op = "overwrite" => at[c] = "replace")
  BY StageFacts DEF OpOf, AddObject
<1>2. CASE CanAdd(job[c].id)
  <2>1. PICK d \in Inserted(dir, [id |-> job[c].id, data |-> job[c].data]) : Execute(c, d)
    BY <1>2 DEF AddObject
  <2>2. Return(c, "ok")
    BY <1>2 DEF AddObject
  <2>3. Update(dir, d) /\ ~(IdsOf(d) \subseteq IdsOf(dir))
    BY <1>1, <1>2, <2>1, AddUpdates
  <2>4. /\ Update(dir, dir') /\ seen' \in [Client -> Witness]
        /\ \A x \in Client : Observed(x)
        /\ seen'[c].stored
    BY <1>1, <2>1, <2>3, ExecuteFacts
  <2>5. "ok" \in Outcome
    BY DEF Outcome
  <2> QED BY <1>1, <2>2, <2>4, <2>5, EndStep
<1>3. CASE ~CanAdd(job[c].id)
  <2>1. Return(c, failed) /\ dir' = dir /\ seen' = seen
    BY <1>3 DEF AddObject
  <2>2. failed \in Outcome
    BY DEF Outcome
  <2> QED BY <1>1, <2>1, <2>2, QuietFacts, EndStep
<1> QED BY <1>2, <1>3

\* nvm_destroy keeps the invariant.
LEMMA DeleteStep ==
  ASSUME NvmInv, NEW c \in Client, Delete(c)
  PROVE  NvmInv'
<1>1. /\ at[c] = "delete" /\ Execute(c, Removed(dir, job[c].id)) /\ UNCHANGED local
  BY DEF Delete
<1>2. PICK r \in {"ok", "wh_error"} : Return(c, r)
  BY DEF Delete
<1>3. job[c].op = "delete" /\ NvmTypes
  BY <1>1, StageFacts DEF OpOf
<1>4. Update(dir, Removed(dir, job[c].id))
  BY <1>1, DeleteUpdates
<1>5. /\ Update(dir, dir') /\ seen' \in [Client -> Witness] /\ \A x \in Client : Observed(x)
  BY <1>1, <1>3, <1>4, ExecuteFacts
<1>6. r \in Outcome
  BY DEF Outcome
<1> QED BY <1>1, <1>2, <1>3, <1>5, <1>6, EndStep

\* The destroy of an overwrite keeps the invariant.
LEMMA OverwriteDeleteStep ==
  ASSUME NvmInv, NEW c \in Client, OverwriteDelete(c)
  PROVE  NvmInv'
<1>1. /\ at[c] = "overwrite" /\ Execute(c, Removed(dir, job[c].id)) /\ Goto(c, "replace")
      /\ UNCHANGED local
  BY DEF OverwriteDelete
<1>2. /\ NvmTypes /\ CallInv(c) /\ job[c].op = "overwrite" /\ job[c].id \in Id /\ job[c].data \in Datum
      /\ WitnessOf(seen[c], dir)
  BY <1>1, StageFacts DEF OpOf
<1>3. Update(dir, Removed(dir, job[c].id))
  BY <1>1, DeleteUpdates
<1>4. /\ Update(dir, dir') /\ seen' \in [Client -> Witness] /\ \A x \in Client : Observed(x)
  BY <1>1, <1>2, <1>3, ExecuteFacts
<1>5. NvmTypes'
  BY <1>1, <1>2, <1>4 DEF NvmTypes, Goto, local, At, Update
<1>6. StepOf(c)
  BY <1>1, <1>2, <1>4, <1>5 DEF StepOf, Still, Goto, local, NvmTypes
<1>7. at'[c] = "replace" /\ job'[c] = job[c]
  BY <1>1, <1>2 DEF NvmTypes, Goto, local
<1>8. WitnessOf(seen'[c], dir')
  <2>1. seen[c] \in Witness /\ seen'[c] \in Witness /\ dir \in Directory
    BY <1>2, <1>4 DEF NvmTypes
  <2> QED BY <1>1, <1>2, <1>4, <2>1, WitnessStep DEF Observed
<1>9. CallInv(c)'
  BY <1>2, <1>7, <1>8
  DEF CallInv, Stage, Witnessed, Listing, Reading, ListedExactly, ReadWhole, Reported, Succeeded, OpOf
<1> QED BY <1>6, <1>9, StepKeeps

\* Where the object after the cursor is.
LEMMA AfterFacts ==
  ASSUME dir \in Directory, NEW list \in Seq(Id), \A i \in DOMAIN list : list[i] \in IdsOf(dir)
  PROVE  LET start == IF list = <<>> THEN INVALID ELSE list[Len(list)]
             p == IF list = <<>> THEN 1 ELSE PlaceOf(dir, list[Len(list)]) + 1
         IN /\ After(start) = IF p \in DOMAIN dir THEN dir[p].id ELSE INVALID
            /\ p \in DOMAIN dir <=> After(start) # INVALID
<1> DEFINE start == IF list = <<>> THEN INVALID ELSE list[Len(list)]
           p == IF list = <<>> THEN 1 ELSE PlaceOf(dir, list[Len(list)]) + 1
<1>1. list # <<>> => Len(list) \in DOMAIN list
  BY LenProperties, EmptySeq
<1>2. list # <<>> => start \in IdsOf(dir) /\ start # INVALID
  BY <1>1, DirectoryFacts, NvmAssumption
<1>3. After(start) = IF p \in DOMAIN dir THEN dir[p].id ELSE INVALID
  <2>1. CASE list = <<>>
    BY <2>1 DEF After
  <2>2. CASE list # <<>>
    <3>1. /\ start = list[Len(list)] /\ start \in IdsOf(dir) /\ start # INVALID
      BY <1>2, <2>2
    <3>2. p = PlaceOf(dir, start) + 1
      BY <2>2, <3>1
    <3> HIDE DEF start, p
    <3> QED BY <3>1, <3>2 DEF After, Exists
  <2> QED BY <2>1, <2>2
<1>4. ASSUME p \in DOMAIN dir PROVE dir[p].id # INVALID
  BY <1>4, DirectoryFacts, NvmAssumption
<1> HIDE DEF start, p
<1>5. /\ After(start) = IF p \in DOMAIN dir THEN dir[p].id ELSE INVALID
      /\ p \in DOMAIN dir <=> After(start) # INVALID
  BY <1>3, <1>4
<1> QED BY <1>5 DEF start, p

\* One reply of the listing loop keeps the invariant.
LEMMA ListStep ==
  ASSUME NvmInv, NEW c \in Client, List(c)
  PROVE  NvmInv'
<1> DEFINE list == ids[c]
           stays == Stays(c)
           p == IF list = <<>> THEN 1 ELSE PlaceOf(dir, list[Len(list)]) + 1
<1>1. /\ at[c] = "list" /\ dir' = dir /\ seen' = seen /\ job' = job /\ len' = len /\ value' = value
  BY DEF List, server
<1>2. /\ NvmTypes /\ CallInv(c) /\ job[c].op = "list" /\ dir \in Directory /\ seen[c] \in Witness
      /\ WitnessOf(seen[c], dir) /\ list \in Seq(Id)
  BY <1>1, StageFacts DEF OpOf, NvmTypes
<1>3. /\ Update(dir, dir') /\ seen' \in [Client -> Witness] /\ \A x \in Client : Observed(x)
  BY <1>1, <1>2, QuietFacts
<1>4. PICK out_id \in ListReplies(c) :
        \/ out_id = INVALID /\ Return(c, "ok") /\ UNCHANGED ids
        \/ out_id # INVALID /\ Stuck(c, out_id) /\ Return(c, "protocol_error") /\ UNCHANGED ids
        \/ /\ out_id # INVALID /\ ~Stuck(c, out_id)
           /\ ids' = [ids EXCEPT ![c] = Append(@, out_id)] /\ Goto(c, "list")
  BY DEF List
<1>5. ASSUME Listed(c) \cap seen[c].gone = {}
      PROVE  /\ ListingOf(stays, dir, list) /\ stays \subseteq IdsOf(dir)
             /\ IdsOf(dir) \subseteq IdsOf(seen[c].base) \cup seen[c].came
             /\ After(StartId(c)) = IF p \in DOMAIN dir THEN dir[p].id ELSE INVALID
             /\ p \in DOMAIN dir <=> After(StartId(c)) # INVALID
             /\ list = <<>> => p = 1
             /\ list # <<>> => p = PlaceOf(dir, list[Len(list)]) + 1
  <2>1. ListingOf(stays, dir, list)
    BY <1>1, <1>2, <1>5 DEF CallInv, Listing
  <2>2. stays \subseteq IdsOf(dir) /\ IdsOf(dir) \subseteq IdsOf(seen[c].base) \cup seen[c].came
    BY <1>2 DEF WitnessOf, Stays
  <2>3. \A i \in DOMAIN list : list[i] \in IdsOf(dir)
    BY <2>1 DEF ListingOf
  <2>4. StartId(c) = IF list = <<>> THEN INVALID ELSE list[Len(list)]
    BY DEF StartId
  <2>5. /\ After(StartId(c)) = IF p \in DOMAIN dir THEN dir[p].id ELSE INVALID
        /\ p \in DOMAIN dir <=> After(StartId(c)) # INVALID
    BY <1>2, <2>3, <2>4, AfterFacts
  <2> QED BY <2>1, <2>2, <2>5
<1>6. CASE out_id = INVALID /\ Return(c, "ok") /\ UNCHANGED ids
  <2>1. /\ at'[c] = "idle" /\ outcome'[c] = "ok" /\ job'[c].op = "list" /\ ids'[c] = list
        /\ \A x \in Client \ {c} : Still(x)
    BY <1>1, <1>2, <1>6 DEF NvmTypes, Return, Still
  <2>2. NvmTypes'
    BY <1>1, <1>2, <1>3, <1>6 DEF NvmTypes, Return, At, Outcome, Update
  <2>3. StepOf(c)
    BY <1>3, <2>1, <2>2 DEF StepOf
  <2>4. ListedExactly(c)'
    <3> SUFFICES ASSUME Listed(c) \cap seen[c].gone = {}
                 PROVE  /\ stays \subseteq {list[i] : i \in DOMAIN list}
                        /\ {list[i] : i \in DOMAIN list} \subseteq IdsOf(seen[c].base) \cup seen[c].came
                        /\ Cardinality({list[i] : i \in DOMAIN list}) = Len(list)
      BY <1>1, <2>1 DEF ListedExactly, Listed, Stays
    <3>1. After(StartId(c)) = INVALID
      BY <1>6 DEF ListReplies
    <3>2. p \notin DOMAIN dir
      BY <1>5, <3>1
    <3>3. stays \subseteq {list[i] : i \in DOMAIN list}
      BY <1>2, <1>5, <3>2, ListEnd
    <3>4. {list[i] : i \in DOMAIN list} \subseteq IdsOf(seen[c].base) \cup seen[c].came
      BY <1>5 DEF ListingOf
    <3>5. Cardinality({list[i] : i \in DOMAIN list}) = Len(list)
      BY <1>2, <1>5, ListCount DEF ListingOf
    <3> QED BY <3>3, <3>4, <3>5
  <2>5. CallInv(c)'
    BY <2>1, <2>4 DEF CallInv, Stage, Witnessed, Listing, Reading, ReadWhole, Reported
  <2> QED BY <2>3, <2>5, StepKeeps
<1>7. CASE out_id # INVALID /\ Stuck(c, out_id) /\ Return(c, "protocol_error") /\ UNCHANGED ids
  <2>1. "protocol_error" \in Outcome /\ UNCHANGED local
    BY <1>1, <1>7 DEF Outcome, local
  <2> QED BY <1>1, <1>2, <1>3, <1>7, <2>1, EndStep
<1>8. CASE /\ out_id # INVALID /\ ~Stuck(c, out_id)
           /\ ids' = [ids EXCEPT ![c] = Append(@, out_id)] /\ Goto(c, "list")
  <2>1. out_id = After(StartId(c)) /\ out_id # INVALID
    BY <1>8 DEF ListReplies, Stuck
  <2>2. out_id \in Id
    <3>1. \E i \in DOMAIN dir : out_id = dir[i].id
      BY <2>1 DEF After
    <3> QED BY <1>2, <3>1, DirectoryFacts
  <2>3. /\ at'[c] = "list" /\ job'[c] = job[c] /\ ids'[c] = Append(list, out_id)
        /\ Append(list, out_id) \in Seq(Id)
        /\ \A x \in Client \ {c} : Still(x)
    BY <1>1, <1>2, <1>8, <2>2, AppendProperties DEF NvmTypes, Goto, Still
  <2>4. NvmTypes'
    BY <1>1, <1>2, <1>3, <1>8, <2>3 DEF NvmTypes, Goto, At, Update
  <2>5. StepOf(c)
    BY <1>3, <2>3, <2>4 DEF StepOf
  <2>6. Listing(c)'
    <3> SUFFICES ASSUME Listed(c)' \cap seen[c].gone = {}
                 PROVE  ListingOf(stays, dir, Append(list, out_id))
      BY <1>1, <2>3 DEF Listing, Stays
    <3>1. Listed(c) \cap seen[c].gone = {}
      <4>1. \A i \in DOMAIN list : i \in DOMAIN Append(list, out_id) /\ Append(list, out_id)[i] = list[i]
        BY <1>2, <2>2, AppendProperties, LenProperties
      <4> QED BY <2>3, <4>1 DEF Listed
    <3>2. p \in DOMAIN dir /\ out_id = dir[p].id
      BY <1>5, <2>1, <3>1
    <3> QED BY <1>2, <1>5, <3>1, <3>2, ListNext
  <2>7. Stage(c)' /\ Witnessed(c)'
    BY <1>1, <1>2, <2>3 DEF Stage, Witnessed, OpOf
  <2>8. CallInv(c)'
    BY <2>3, <2>6, <2>7 DEF CallInv, Reading, ListedExactly, ReadWhole, Reported, Succeeded
  <2> QED BY <2>5, <2>8, StepKeeps
<1> QED BY <1>4, <1>6, <1>7, <1>8

\* A read of an object that was there at first and has not gone finds it unchanged.
LEMMA ReadFinds ==
  ASSUME NvmInv, NEW c \in Client, at[c] \in {"length", "read"},
         job[c].id \in IdsOf(seen[c].base) \ seen[c].gone
  PROVE  /\ Exists(job[c].id) /\ Content(dir, job[c].id) = Content(seen[c].base, job[c].id)
         /\ Len(Content(dir, job[c].id)) \in Nat
<1>1. /\ dir \in Directory /\ WitnessOf(seen[c], dir)
  BY StageFacts
<1>2. job[c].id \in IdsOf(dir) /\ Content(dir, job[c].id) = Content(seen[c].base, job[c].id)
  BY <1>1 DEF WitnessOf
<1>3. Content(dir, job[c].id) \in Datum
  BY <1>1, <1>2, PlaceFacts, DirectoryFacts DEF Content
<1> QED BY <1>2, <1>3, NvmAssumption DEF Exists

\* The metadata request of a read keeps the invariant.
LEMMA ReadLengthStep ==
  ASSUME NvmInv, NEW c \in Client, ReadLength(c)
  PROVE  NvmInv'
<1> DEFINE id == job[c].id
           n == DataLen(c, Len(Content(dir, id)))
           kept == id \in IdsOf(seen[c].base) \ seen[c].gone
<1>1. /\ at[c] = "length" /\ dir' = dir /\ seen' = seen /\ job' = job /\ ids' = ids /\ value' = value
  BY DEF ReadLength, server
<1>2. /\ NvmTypes /\ CallInv(c) /\ job[c].op = "read" /\ job[c] \in Job /\ dir \in Directory
      /\ WitnessOf(seen[c], dir) /\ value[c] = <<>>
  BY <1>1, StageFacts DEF OpOf, CallInv, Reading
<1>3. /\ Update(dir, dir') /\ seen' \in [Client -> Witness] /\ \A x \in Client : Observed(x)
  BY <1>1, <1>2, QuietFacts
<1>4. kept => /\ Exists(id) /\ Content(dir, id) = Content(seen[c].base, id)
              /\ Len(Content(dir, id)) \in Nat
  BY <1>1, ReadFinds
<1>5. CASE ~Exists(id) /\ Return(c, "wh_error") /\ UNCHANGED len
  <2>1. /\ at'[c] = "idle" /\ outcome'[c] = "wh_error" /\ job'[c] = job[c]
        /\ \A x \in Client \ {c} : Still(x)
    BY <1>1, <1>2, <1>5 DEF NvmTypes, Return, Still
  <2>2. NvmTypes'
    BY <1>1, <1>2, <1>3, <1>5 DEF NvmTypes, Return, At, Outcome, Update
  <2>3. ReadWhole(c)'
    BY <1>1, <1>4, <1>5, <2>1 DEF ReadWhole
  <2>4. CallInv(c)'
    BY <1>2, <2>1, <2>3 DEF CallInv, Stage, Witnessed, Listing, Reading, ListedExactly, Reported, Succeeded
  <2> QED BY <1>3, <2>1, <2>2, <2>4, StepKeeps DEF StepOf
<1>6. CASE Exists(id) /\ len' = [len EXCEPT ![c] = n]
  <2>1. Content(dir, id) \in Datum
    BY <1>2, <1>6, PlaceFacts, DirectoryFacts DEF Content, Exists
  <2>2. Len(Content(dir, id)) \in Nat /\ job[c].offset \in Nat
    BY <1>2, <2>1, NvmAssumption DEF Job
  <2>3. /\ n \in Nat /\ len'[c] = n
        /\ n = 0 => Len(Content(dir, id)) <= job[c].offset
        /\ n # 0 => job[c].offset + n = Len(Content(dir, id))
    BY <1>2, <1>6, <2>2 DEF DataLen, NvmTypes
  <2>4. CASE n = 0
    <3>1. Return(c, "ok")
      BY <1>1, <1>6, <2>3, <2>4 DEF ReadLength
    <3>2. /\ at'[c] = "idle" /\ outcome'[c] = "ok" /\ job'[c] = job[c] /\ value'[c] = <<>>
          /\ \A x \in Client \ {c} : Still(x)
      BY <1>1, <1>2, <1>6, <3>1 DEF NvmTypes, Return, Still
    <3>3. NvmTypes'
      <4>1. len' \in [Client -> Nat]
        BY <1>2, <1>6, <2>3 DEF NvmTypes
      <4> QED BY <1>1, <1>2, <1>3, <3>1, <4>1 DEF NvmTypes, Return, At, Outcome, Update
    <3>4. Rest(Content(dir, id), job[c].offset) = <<>>
      BY <2>2, <2>3, <2>4, SubSeqEmpty DEF Rest
    <3>5. ReadWhole(c)'
      BY <1>1, <1>4, <3>2, <3>4 DEF ReadWhole
    <3>6. CallInv(c)'
      BY <1>2, <3>2, <3>5 DEF CallInv, Stage, Witnessed, Listing, Reading, ListedExactly, Reported, Succeeded
    <3> QED BY <1>3, <3>2, <3>3, <3>6, StepKeeps DEF StepOf
  <2>5. CASE n # 0
    <3>1. Goto(c, "read")
      BY <1>1, <1>6, <2>3, <2>5 DEF ReadLength
    <3>2. /\ at'[c] = "read" /\ job'[c] = job[c] /\ value'[c] = <<>>
          /\ \A x \in Client \ {c} : Still(x)
      BY <1>1, <1>2, <1>6, <3>1 DEF NvmTypes, Goto, Still
    <3>3. NvmTypes'
      <4>1. len' \in [Client -> Nat]
        BY <1>2, <1>6, <2>3 DEF NvmTypes
      <4> QED BY <1>1, <1>2, <1>3, <3>1, <4>1 DEF NvmTypes, Goto, At, Update
    <3>4. Reading(c)'
      BY <1>1, <1>4, <2>3, <2>5, <3>2 DEF Reading
    <3>5. Stage(c)' /\ Witnessed(c)'
      BY <1>1, <1>2, <3>2 DEF Stage, Witnessed, OpOf
    <3>6. CallInv(c)'
      BY <3>2, <3>4, <3>5 DEF CallInv, Listing, ListedExactly, ReadWhole, Reported, Succeeded
    <3> QED BY <1>3, <3>2, <3>3, <3>6, StepKeeps DEF StepOf
  <2> QED BY <2>4, <2>5
<1> QED BY <1>5, <1>6 DEF ReadLength

\* The data request of a read keeps the invariant.
LEMMA ReadDataStep ==
  ASSUME NvmInv, NEW c \in Client, ReadData(c)
  PROVE  NvmInv'
<1> DEFINE id == job[c].id
           kept == id \in IdsOf(seen[c].base) \ seen[c].gone
<1>1. /\ at[c] = "read" /\ dir' = dir /\ seen' = seen /\ job' = job /\ ids' = ids /\ len' = len
  BY DEF ReadData, server
<1>2. /\ NvmTypes /\ CallInv(c) /\ job[c].op = "read" /\ job[c] \in Job
  BY <1>1, StageFacts DEF OpOf
<1>3. /\ Update(dir, dir') /\ seen' \in [Client -> Witness] /\ \A x \in Client : Observed(x)
  BY <1>1, <1>2, QuietFacts
<1>4. kept => /\ Exists(id) /\ Content(dir, id) = Content(seen[c].base, id)
              /\ Len(Content(dir, id)) \in Nat
              /\ job[c].offset + len[c] = Len(Content(dir, id))
  BY <1>1, <1>2, ReadFinds DEF CallInv, Reading
<1>5. kept => Within(c)
  BY <1>4 DEF Within
<1>6. PICK r \in {"ok", "wh_error"} :
        /\ Return(c, r) /\ (r = "wh_error" => ~Within(c) /\ value' = value)
        /\ r = "ok" => value' = [value EXCEPT ![c] = SubSeq(Content(dir, id), job[c].offset + 1, job[c].offset + len[c])]
  BY DEF ReadData
<1>7. DOMAIN value' = Client /\ value' = [x \in Client |-> value'[x]]
  BY <1>2, <1>6 DEF NvmTypes
<1>8. /\ at'[c] = "idle" /\ outcome'[c] = r /\ job'[c] = job[c]
      /\ \A x \in Client \ {c} : Still(x)
  BY <1>1, <1>2, <1>6 DEF NvmTypes, Return, Still
<1>9. NvmTypes'
  BY <1>1, <1>2, <1>3, <1>6, <1>7 DEF NvmTypes, Return, At, Outcome, Update
<1>10. ReadWhole(c)'
  <2> SUFFICES ASSUME kept
               PROVE  r = "ok" /\ value'[c] = Rest(Content(seen[c].base, id), job[c].offset)
    BY <1>1, <1>8 DEF ReadWhole
  <2>1. r = "ok"
    BY <1>5, <1>6
  <2>2. value'[c] = SubSeq(Content(dir, id), job[c].offset + 1, job[c].offset + len[c])
    BY <1>2, <1>6, <2>1 DEF NvmTypes
  <2> QED BY <1>4, <2>1, <2>2 DEF Rest
<1>11. CallInv(c)'
  BY <1>2, <1>8, <1>10 DEF CallInv, Stage, Witnessed, Listing, Reading, ListedExactly, Reported, Succeeded
<1> QED BY <1>3, <1>8, <1>9, <1>11, StepKeeps DEF StepOf

\* What the application gives.
LEMMA ArgumentFacts ==
  ASSUME NEW op \in Operation, NEW a \in Arguments(op)
  PROVE  /\ a[1] \in Id \cup {INVALID} /\ a[2] \in Datum \cup {<<>>} /\ a[3] \in Nat
         /\ op \in {"add", "overwrite"} => a[2] \in Datum
<1>1. 0 \in Nat /\ Offset \subseteq Nat
  BY NvmAssumption
<1>2. CASE op = "list"
  BY <1>1, <1>2 DEF Arguments
<1>3. CASE op \in {"metadata", "delete"}
  BY <1>1, <1>3 DEF Arguments
<1>4. CASE op = "read"
  BY <1>1, <1>4 DEF Arguments
<1>5. CASE op \in {"add", "overwrite"}
  BY <1>1, <1>5 DEF Arguments
<1> QED BY <1>2, <1>3, <1>4, <1>5 DEF Operation

\* A call of the application keeps the invariant.
LEMMA InvokeStep ==
  ASSUME NvmInv, NEW c \in Client, NEW op \in Operation, NEW a \in Arguments(op),
         Invoke(c, op, a[1], a[2], a[3])
  PROVE  NvmInv'
<1> DEFINE first == [base |-> dir, came |-> {}, gone |-> {}, stored |-> FALSE, destroyed |-> FALSE]
           arg == [op |-> op, id |-> a[1], data |-> a[2], offset |-> a[3]]
<1>1. /\ NvmTypes /\ dir \in Directory /\ dir' = dir /\ len' = len
  BY DEF NvmInv, NvmTypes, Invoke, server
<1>2. first \in Witness /\ arg \in Job
  BY <1>1, ArgumentFacts DEF Witness, Job
<1>3. FirstRequest(op) \in At \ {"idle", "read", "replace"} /\ OpOf(FirstRequest(op)) = op
  BY DEF FirstRequest, Operation, At, OpOf
<1>4. NvmTypes'
  <2>1. at' \in [Client -> At]
    BY <1>1, <1>3 DEF Invoke, NvmTypes, At
  <2>2. job' \in [Client -> Job] /\ seen' \in [Client -> Witness]
    BY <1>1, <1>2 DEF Invoke, NvmTypes
  <2>3. outcome' \in [Client -> Outcome]
    BY <1>1 DEF Invoke, NvmTypes, Outcome
  <2>4. ids' \in [Client -> Seq(Id)]
    BY <1>1 DEF Invoke, NvmTypes
  <2>5. DOMAIN value' = Client /\ value' = [x \in Client |-> value'[x]]
    BY <1>1 DEF Invoke, NvmTypes
  <2> QED BY <1>1, <2>1, <2>2, <2>3, <2>4, <2>5 DEF NvmTypes
<1>5. StepOf(c)
  <2>1. \A x \in Client \ {c} : Still(x) /\ seen'[x] = seen[x]
    BY <1>1 DEF NvmTypes, Invoke, Still
  <2>2. \A x \in Client \ {c} : Observed(x)
    BY <1>1, <2>1 DEF Observed, NvmTypes, Witness
  <2> QED BY <1>1, <1>4, <2>1, <2>2, NoUpdate DEF StepOf
<1>6. /\ job'[c] = arg /\ seen'[c] = first /\ ids'[c] = <<>> /\ value'[c] = <<>>
      /\ at'[c] = IF Refused(op, a[1]) THEN "idle" ELSE FirstRequest(op)
      /\ outcome'[c] = IF Refused(op, a[1]) THEN "invalid_input" ELSE "none"
  BY <1>1 DEF Invoke, NvmTypes
<1>7. CASE Refused(op, a[1])
  <2>1. at'[c] = "idle" /\ outcome'[c] = "invalid_input" /\ job'[c].op \in {"add", "overwrite"} /\ ~seen'[c].destroyed
    BY <1>6, <1>7 DEF Refused
  <2>2. CallInv(c)'
    BY <2>1 DEF CallInv, Stage, Witnessed, Listing, Reading, ListedExactly, ReadWhole, Reported, Succeeded
  <2> QED BY <1>5, <2>2, StepKeeps
<1>8. CASE ~Refused(op, a[1])
  <2>1. at'[c] = FirstRequest(op) /\ at'[c] \in At \ {"idle", "read", "replace"} /\ job'[c].op = OpOf(at'[c])
    BY <1>3, <1>6, <1>8
  <2>2. Stage(c)'
    <3>1. at'[c] \in {"add", "overwrite", "replace"} => op \in {"add", "overwrite"}
      BY <2>1, <1>3 DEF OpOf
    <3>2. op \in {"add", "overwrite"} => a[1] \in Id /\ a[2] \in Datum
      BY <1>8, ArgumentFacts DEF Refused
    <3> QED BY <1>6, <2>1, <3>1, <3>2 DEF Stage
  <2>3. Witnessed(c)'
    BY <1>1, <1>6 DEF Witnessed, WitnessOf
  <2>4. Listing(c)'
    BY <1>6 DEF Listing, ListingOf
  <2>5. Reading(c)'
    BY <1>6, <2>1 DEF Reading
  <2>6. CallInv(c)'
    BY <2>1, <2>2, <2>3, <2>4, <2>5 DEF CallInv, ListedExactly, ReadWhole, Reported, Succeeded
  <2> QED BY <1>5, <2>6, StepKeeps
<1> QED BY <1>7, <1>8

\* The initial states satisfy the invariant.
LEMMA InitInv == ASSUME NvmInit PROVE NvmInv
<1>1. dir \in Directory
  BY NvmAssumption DEF NvmInit, Directory, Unique
<1>2. <<>> \in Directory
  BY NvmAssumption, EmptySeq, LenProperties DEF Directory, Unique
<1>3. NothingSeen \in Witness /\ NoJob \in Job
  BY <1>2 DEF NothingSeen, Witness, NoJob, Job
<1>4. NvmTypes
  BY <1>1, <1>3 DEF NvmInit, NvmTypes, At, Outcome
<1>5. ASSUME NEW c \in Client PROVE CallInv(c)
  <2>1. at[c] = "idle" /\ job[c].op = "none"
    BY DEF NvmInit, NoJob
  <2> QED BY <2>1 DEF CallInv, Stage, Witnessed, Listing, Reading, ListedExactly, ReadWhole, Reported, Succeeded
<1> QED BY <1>4, <1>5 DEF NvmInv

\* The invariant is inductive, whatever the clients do between each other's requests.
THEOREM NvmInvariant == NvmSpec => []NvmInv
<1>1. NvmInit => NvmInv
  BY InitInv
<1>2. NvmInv /\ [NvmNext]_nvmVars => NvmInv'
  <2> SUFFICES ASSUME NvmInv, [NvmNext]_nvmVars PROVE NvmInv'
    OBVIOUS
  <2>1. CASE UNCHANGED nvmVars
    <3>1. NvmTypes /\ NvmTypes'
      BY <2>1 DEF nvmVars, NvmInv, NvmTypes
    <3>2. Update(dir, dir') /\ \A x \in Client : Observed(x)
      BY <2>1, <3>1, QuietFacts DEF nvmVars
    <3>3. \A x \in Client : Still(x) /\ CallInv(x)
      BY <2>1 DEF nvmVars, Still, NvmInv
    <3> QED BY <3>1, <3>2, <3>3, StillStep DEF NvmInv
  <2>2. CASE NvmNext
    <3>1. PICK c \in Client :
            \/ Request(c) \/ LoseRequest(c) \/ LoseReply(c)
            \/ \E op \in Operation : \E a \in Arguments(op) : Invoke(c, op, a[1], a[2], a[3])
      BY <2>2 DEF NvmNext
    <3>2. CASE List(c)
      BY <3>2, ListStep
    <3>3. CASE Metadata(c)
      BY <3>3, MetadataStep
    <3>4. CASE ReadLength(c)
      BY <3>4, ReadLengthStep
    <3>5. CASE ReadData(c)
      BY <3>5, ReadDataStep
    <3>6. CASE Add(c)
      BY <3>6, AddStep DEF Add
    <3>7. CASE OverwriteDelete(c)
      BY <3>7, OverwriteDeleteStep
    <3>8. CASE OverwriteAdd(c)
      BY <3>8, AddStep DEF OverwriteAdd
    <3>9. CASE Delete(c)
      BY <3>9, DeleteStep
    <3>10. CASE LoseRequest(c)
      BY <3>10, LoseRequestStep
    <3>11. CASE LoseReply(c)
      BY <3>11, LoseReplyStep
    <3>12. CASE \E op \in Operation : \E a \in Arguments(op) : Invoke(c, op, a[1], a[2], a[3])
      BY <3>12, InvokeStep
    <3> QED BY <3>1, <3>2, <3>3, <3>4, <3>5, <3>6, <3>7, <3>8, <3>9, <3>10, <3>11, <3>12 DEF Request
  <2> QED BY <2>1, <2>2
<1> QED BY <1>1, <1>2, PTL DEF NvmSpec

\* nvm_list: a list none of whose objects is deleted during the call is exact, wherever and
\* whenever the other clients add objects between its requests, and whatever else they delete.
THEOREM ListHolds == NvmSpec => []ListIsExact
<1>1. NvmInv => ListIsExact
  BY DEF NvmInv, CallInv, ListedExactly, ListIsExact, Stays
<1> QED BY <1>1, NvmInvariant, PTL

\* nvm_read: an object that nobody deletes between the two requests is read to its end.
THEOREM ReadHolds == NvmSpec => []ReadIsWhole
<1>1. NvmInv => ReadIsWhole
  BY DEF NvmInv, CallInv, ReadWhole, ReadIsWhole
<1> QED BY <1>1, NvmInvariant, PTL

\* nvm_overwrite: the loss of an object is told, whichever of its requests fails, gets lost
\* or meets other clients' objects.
THEOREM LossHolds == NvmSpec => []LossIsReported
<1>1. NvmInv => LossIsReported
  BY DEF NvmInv, CallInv, Reported, LossIsReported
<1> QED BY <1>1, NvmInvariant, PTL
=============================================================================
