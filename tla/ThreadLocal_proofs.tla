-------------------------- MODULE ThreadLocal_proofs --------------------------
(***************************************************************************)
(* Proofs about ThreadLocal, for any sets of threads and values and any    *)
(* number of keys.  That a key in use is live needs no more than that the  *)
(* task which deletes a key is the only one to run afterwards; that a      *)
(* value meets its end once follows from it having one place.              *)
(***************************************************************************)
EXTENDS ThreadLocal, SequenceTheorems, FiniteSetTheorems, WellFoundedInduction, TLAPS

\* Keys are numbered upwards, and never beyond the number of keys created.
KeyNumbers == \A i \in DOMAIN s_keys : s_keys[i].key <= created

\* Only a destructor sets a late value, and its thread does not run again.
LateIsLate == \A t \in Task : pc[t] = "run" => \A i \in DOMAIN tls[t] : ~ tls[t][i].late

\* A cleanup calls a destructor about an entry.
CallHasEntry == \A t \in Task : pc[t] = "call" => entry[t] \in ValueEntry

\* A value that is held has one place, and any other has none.
OnePlace ==
  /\ \A v \in Value, t \in Task : At(t, v) # {} => fate[v] = "held"
  /\ \A v \in Value, t, u \in Task : \A i \in At(t, v), j \in At(u, v) : t = u /\ i = j
  /\ \A v \in Value : fate[v] = "held" => \E t \in Task : At(t, v) # {}

IInv ==
  /\ TypeOK /\ KeyNumbers /\ KeyInUseIsLive
  /\ LateIsLate /\ LateValuesComeLast /\ CallHasEntry /\ OnePlace

-----------------------------------------------------------------------------
\* A set of natural numbers has a smallest one.
LEMMA MinExists ==
  ASSUME NEW I \in SUBSET Nat, I # {}
  PROVE  Min(I) \in I
<1>1. PICK m \in I : \A n \in I : ~ (<<n, m>> \in OpToRel(<, Nat))
  BY WFMin, NatLessThanWellFounded
<1>2. ASSUME NEW n \in I PROVE m <= n
  <2>1. n < m => <<n, m>> \in OpToRel(<, Nat)
    BY DEF OpToRel
  <2>2. ~ (n < m)
    BY <1>1, <2>1, Zenon
  <2> QED
    BY <2>2
<1> QED
  BY <1>2 DEF Min

\* A search finds an entry of the key, or there is none.
LEMMA IndexOfFinds ==
  ASSUME NEW S, NEW list \in Seq(S), NEW k
  PROVE  LET i == IndexOf(list, k)
         IN  IF i = 0 THEN \A j \in DOMAIN list : list[j].key # k
                      ELSE i \in DOMAIN list /\ list[i].key = k
<1> DEFINE I == {i \in 1 .. Len(list) : list[i].key = k}
<1>1. I \in SUBSET Nat
  OBVIOUS
<1>2. IndexOf(list, k) = IF I # {} THEN Min(I) ELSE 0
  BY DEF IndexOf, SelectInSeq
<1>3. I # {} => Min(I) \in I
  BY <1>1, MinExists
<1> QED
  BY <1>2, <1>3

\* A key that is found is on the list.
LEMMA FindKeyFinds ==
  ASSUME TypeOK, NEW k
  PROVE  /\ FindKey(k) \in KeyEntry \cup {Null}
         /\ FindKey(k) # Null => FindKey(k) \in ToSet(s_keys)
<1>1. CASE IndexOf(s_keys, k) = 0
  BY <1>1 DEF FindKey
<1>2. CASE IndexOf(s_keys, k) # 0
  <2>1. IndexOf(s_keys, k) \in DOMAIN s_keys
    BY <1>2, IndexOfFinds DEF TypeOK
  <2> QED
    BY <2>1 DEF FindKey, TypeOK, ToSet
<1> QED
  BY <1>1, <1>2

\* The elements behind the removed one move up by one place.
LEMMA RemoveAtShifts ==
  ASSUME NEW S, NEW w \in Seq(S), NEW i \in DOMAIN w
  PROVE  LET r == RemoveAt(w, i)
         IN  /\ r \in Seq(S) /\ Len(r) = Len(w) - 1
             /\ \A j \in 1 .. Len(r) : r[j] = w[IF j < i THEN j ELSE j + 1]
<1> DEFINE r == RemoveAt(w, i)
           a == SubSeq(w, 1, i - 1)
           b == SubSeq(w, i + 1, Len(w))
<1>1. Len(w) \in Nat /\ DOMAIN w = 1 .. Len(w) /\ \A j \in 1 .. Len(w) : w[j] \in S
  BY LenProperties, ElementOfSeq
<1>2. i \in 1 .. Len(w)
  BY <1>1
<1>3. /\ a \in Seq(S) /\ Len(a) = i - 1
      /\ \A j \in 1 .. i - 1 : a[j] = w[j]
  BY <1>1, <1>2, SubSeqProperties
<1>4. /\ b \in Seq(S) /\ Len(b) = Len(w) - i
      /\ \A j \in 1 .. Len(w) - i : b[j] = w[i + j]
  BY <1>1, <1>2, SubSeqProperties
<1>5. r = a \o b
  BY DEF RemoveAt
<1> HIDE DEF a, b, r
<1>6. /\ r \in Seq(S) /\ Len(r) = Len(w) - 1
      /\ \A j \in 1 .. Len(r) : r[j] = w[IF j < i THEN j ELSE j + 1]
  <2>1. /\ r \in Seq(S) /\ Len(r) = Len(a) + Len(b)
        /\ \A j \in 1 .. Len(a) + Len(b) :
             r[j] = IF j <= Len(a) THEN a[j] ELSE b[j - Len(a)]
    BY <1>3, <1>4, <1>5, ConcatProperties
  <2>2. Len(r) = Len(w) - 1
    BY <1>1, <1>2, <1>3, <1>4, <2>1
  <2>3. ASSUME NEW j \in 1 .. Len(r)
        PROVE  r[j] = w[IF j < i THEN j ELSE j + 1]
    <3>1. CASE j < i
      BY <1>1, <1>2, <1>3, <1>4, <2>1, <2>2, <3>1
    <3>2. CASE ~ (j < i)
      <4>1. j - Len(a) \in 1 .. Len(w) - i /\ ~ (j <= Len(a))
        BY <1>1, <1>2, <1>3, <2>2, <3>2
      <4>2. r[j] = b[j - Len(a)] /\ b[j - Len(a)] = w[i + (j - Len(a))]
        BY <1>1, <1>2, <1>4, <2>1, <2>2, <4>1
      <4>3. i + (j - Len(a)) = j + 1
        BY <1>1, <1>2, <1>3, <2>2
      <4> QED
        BY <3>2, <4>2, <4>3
    <3> QED
      BY <3>1, <3>2
  <2> QED
    BY <2>1, <2>2, <2>3
<1> QED
  BY <1>6 DEF r

\* A deleted key leaves the others in their order.
LEMMA KeysWithoutKeeps ==
  ASSUME TypeOK, KeyNumbers, NEW k
  PROVE  /\ KeysWithout(k) \in Seq(KeyEntry)
         /\ \A i, j \in DOMAIN KeysWithout(k) :
              i < j => KeysWithout(k)[i].key > KeysWithout(k)[j].key
         /\ \A i \in DOMAIN KeysWithout(k) : KeysWithout(k)[i].key <= created
<1>1. CASE IndexOf(s_keys, k) = 0
  BY <1>1 DEF KeysWithout, TypeOK, KeyNumbers
<1>2. CASE IndexOf(s_keys, k) # 0
  <2> DEFINE n == IndexOf(s_keys, k)
             r == RemoveAt(s_keys, n)
             f(j) == IF j < n THEN j ELSE j + 1
  <2>1. n \in DOMAIN s_keys
    BY <1>2, IndexOfFinds DEF TypeOK
  <2>2. /\ r \in Seq(KeyEntry) /\ Len(r) = Len(s_keys) - 1
        /\ \A j \in 1 .. Len(r) : r[j] = s_keys[f(j)]
    BY <2>1, RemoveAtShifts DEF TypeOK
  <2>3. /\ DOMAIN r = 1 .. Len(r) /\ DOMAIN s_keys = 1 .. Len(s_keys)
        /\ Len(s_keys) \in Nat
    OBVIOUS
  <2>4. KeysWithout(k) = r
    BY <1>2 DEF KeysWithout
  <2> HIDE DEF n, r
  <2>5. \A i, j \in DOMAIN r : /\ f(i) \in DOMAIN s_keys /\ f(j) \in DOMAIN s_keys
                               /\ i < j => f(i) < f(j)
    BY <2>1, <2>2
  <2> HIDE DEF f
  <2> QED
    BY <2>2, <2>3, <2>4, <2>5 DEF TypeOK, KeyNumbers
<1> QED
  BY <1>1, <1>2

-----------------------------------------------------------------------------
\* A step of one thread that gives places to new values, and takes them from
\* others whose fate it changes.
LEMMA PlacesChange ==
  ASSUME OnePlace, NEW t \in Task, NEW new \in SUBSET Value, NEW gone \in SUBSET Value,
         \A u \in Task \ {t}, v \in Value : At(u, v)' = At(u, v),
         \A v \in Value : \A i, j \in At(t, v)' : i = j,
         \A v \in Value : At(t, v)' # {} <=> v \in new \/ (At(t, v) # {} /\ v \notin gone),
         \A v \in Value : fate'[v] = "held" <=> v \in new \/ (fate[v] = "held" /\ v \notin gone),
         \A v \in new : fate[v] # "held",
         \A v \in gone : At(t, v) # {}
  PROVE  OnePlace'
  BY DEF OnePlace

\* What leaves every value where it is.
LEMMA PlacesStay ==
  ASSUME OnePlace, UNCHANGED fate, \A v \in Value, t \in Task : At(t, v)' = At(t, v)
  PROVE  OnePlace'
  BY DEF OnePlace

-----------------------------------------------------------------------------
LEMMA Starts == Init => IInv
<1> SUFFICES ASSUME Init PROVE IInv
  OBVIOUS
<1>1. TypeOK
  BY LocalAssumption DEF Init, TypeOK
<1>2. KeyNumbers /\ KeyInUseIsLive /\ LateIsLate /\ LateValuesComeLast /\ CallHasEntry
  BY
  DEF Init, KeyNumbers, KeyInUseIsLive, LateIsLate, LateValuesComeLast,
      CallHasEntry
<1>3. \A v \in Value, t \in Task : At(t, v) = {}
  BY DEF Init, At
<1>4. OnePlace
  BY <1>3 DEF Init, OnePlace
<1> QED
  BY <1>1, <1>2, <1>4 DEF IInv

\* A new key has a number above all others.
LEMMA KeyCreateKeeps ==
  ASSUME IInv, NEW t \in Task, KeyCreate(t)
  PROVE  IInv'
<1> USE DEF IInv
<1>1. PICK d \in BOOLEAN :
        s_keys' = <<[key |-> NewKeyNumber, id |-> created + 1, destructor |-> d]>> \o s_keys
  BY DEF KeyCreate
<1> DEFINE e == [key |-> NewKeyNumber, id |-> created + 1, destructor |-> d]
<1>2. /\ s_keys \in Seq(KeyEntry) /\ Len(s_keys) \in Nat
      /\ DOMAIN s_keys = 1 .. Len(s_keys) /\ created \in 0 .. MaxKeys
      /\ \A i \in 1 .. Len(s_keys) : s_keys[i] \in KeyEntry
  BY DEF TypeOK
<1>3. /\ NewKeyNumber \in 1 .. created + 1
      /\ \A i \in DOMAIN s_keys : s_keys[i].key < NewKeyNumber
  <2>1. CASE s_keys = <<>>
    BY <1>2, <2>1 DEF NewKeyNumber
  <2>2. CASE s_keys # <<>>
    <3>1. Len(s_keys) > 0 /\ Head(s_keys) = s_keys[1]
      BY <2>2
    <3>2. /\ s_keys[1].key \in 1 .. MaxKeys /\ s_keys[1].key <= created
          /\ \A i \in DOMAIN s_keys : i > 1 => s_keys[i].key < s_keys[1].key
      BY <1>2, <3>1 DEF TypeOK, KeyNumbers, KeyEntry
    <3>3. \A i \in DOMAIN s_keys : s_keys[i].key \in Nat /\ s_keys[i].key <= s_keys[1].key
      BY <1>2, <3>2 DEF KeyEntry
    <3> QED
      BY <1>2, <3>2, <3>3 DEF NewKeyNumber
  <2> QED
    BY <2>1, <2>2
<1>4. e \in KeyEntry /\ created' \in 0 .. MaxKeys /\ created' = created + 1
  BY <1>2, <1>3, LocalAssumption DEF KeyCreate, KeyEntry
<1>5. e.key = NewKeyNumber
  OBVIOUS
<1> HIDE DEF e
<1>6. /\ s_keys' \in Seq(KeyEntry) /\ Len(s_keys') = Len(s_keys) + 1
      /\ DOMAIN s_keys' = 1 .. Len(s_keys) + 1
      /\ s_keys'[1] = e /\ \A i \in DOMAIN s_keys' : i > 1 => s_keys'[i] = s_keys[i - 1]
  <2>1. <<e>> \in Seq(KeyEntry) /\ Len(<<e>>) = 1 /\ <<e>>[1] = e
    BY <1>4
  <2>2. /\ s_keys' \in Seq(KeyEntry) /\ Len(s_keys') = 1 + Len(s_keys)
        /\ \A i \in 1 .. 1 + Len(s_keys) :
             s_keys'[i] = IF i <= 1 THEN <<e>>[i] ELSE s_keys[i - 1]
    BY <1>1, <1>2, <2>1 DEF e
  <2> QED
    BY <2>2
<1>7. TypeOK'
  <2>1. ASSUME NEW i \in DOMAIN s_keys', NEW j \in DOMAIN s_keys', i < j
        PROVE  s_keys'[i].key > s_keys'[j].key
    <3>1. j - 1 \in DOMAIN s_keys /\ s_keys'[j] = s_keys[j - 1]
      BY <1>6, <2>1
    <3>2. CASE i = 1
      BY <1>3, <1>5, <1>6, <3>1, <3>2
    <3>3. CASE i > 1
      <4>1. i - 1 \in DOMAIN s_keys /\ i - 1 < j - 1 /\ s_keys'[i] = s_keys[i - 1]
        BY <1>6, <2>1, <3>3
      <4> QED
        BY <3>1, <4>1 DEF TypeOK
    <3> QED
      BY <1>6, <3>2, <3>3
  <2> QED
    BY <1>4, <1>6, <2>1 DEF KeyCreate, TypeOK
<1>8. KeyNumbers'
  <2>1. ASSUME NEW i \in DOMAIN s_keys'
        PROVE  s_keys'[i].key <= created'
    <3>1. CASE i = 1
      BY <1>3, <1>4, <1>5, <1>6, <3>1
    <3>2. CASE i > 1
      <4>1. i - 1 \in DOMAIN s_keys /\ s_keys'[i] = s_keys[i - 1]
        BY <1>6, <3>2
      <4> QED
        BY <1>2, <1>4, <4>1 DEF KeyNumbers, KeyEntry
    <3> QED
      BY <1>2, <3>1, <3>2
  <2> QED
    BY <2>1 DEF KeyNumbers
<1>9. KeyInUseIsLive'
  <2>1. \A x \in ToSet(s_keys) : x \in ToSet(s_keys)'
    <3>1. \A i \in DOMAIN s_keys : i + 1 \in DOMAIN s_keys' /\ s_keys'[i + 1] = s_keys[i]
      BY <1>6
    <3> QED
      BY <3>1 DEF ToSet
  <2> QED
    BY <2>1 DEF KeyCreate, KeyInUseIsLive, Runs
<1>10. LateIsLate' /\ LateValuesComeLast' /\ CallHasEntry'
  BY DEF KeyCreate, LateIsLate, LateValuesComeLast, CallHasEntry
<1>11. OnePlace'
  BY PlacesStay DEF KeyCreate, At
<1> QED
  BY <1>7, <1>8, <1>9, <1>10, <1>11

\* Whoever deletes a key is the only one that runs from then on.
LEMMA KeyDeleteKeeps ==
  ASSUME IInv, NEW t \in Task, KeyDelete(t)
  PROVE  IInv'
<1> USE DEF IInv
<1>1. TypeOK' /\ KeyNumbers'
  BY KeysWithoutKeeps DEF KeyDelete, TypeOK, KeyNumbers
<1>2. KeyInUseIsLive'
  BY LocalAssumption DEF KeyDelete, InUserCode, KeyInUseIsLive, Runs
<1>3. LateIsLate' /\ LateValuesComeLast' /\ CallHasEntry'
  BY DEF KeyDelete, LateIsLate, LateValuesComeLast, CallHasEntry
<1>4. OnePlace'
  BY PlacesStay DEF KeyDelete, At
<1> QED
  BY <1>1, <1>2, <1>3, <1>4

\* A thread's list of values, and the place of an entry of it.
LEMMA ValueLists ==
  ASSUME TypeOK, NEW t \in Task
  PROVE  /\ tls[t] \in Seq(ValueEntry) /\ Len(tls[t]) \in Nat
         /\ DOMAIN tls[t] = 1 .. Len(tls[t])
         /\ \A i \in DOMAIN tls[t] : tls[t][i] \in ValueEntry
  BY DEF TypeOK

\* In the thread's own code a value is on its list or nowhere in the thread.
LEMMA AtInUserCode ==
  ASSUME NEW t \in Task, NEW v, pc[t] # "call"
  PROVE  At(t, v) = {i \in DOMAIN tls[t] : tls[t][i].value = v}
  BY DEF At

\* The value of an entry on a list has no second place on it.
LEMMA ValuesDiffer ==
  ASSUME TypeOK, OnePlace, NEW t \in Task,
         NEW i \in DOMAIN tls[t], NEW j \in DOMAIN tls[t], tls[t][i].value = tls[t][j].value
  PROVE  i = j
<1>1. tls[t][i].value \in Value
  BY ValueLists DEF ValueEntry
<1>2. i \in At(t, tls[t][i].value) /\ j \in At(t, tls[t][i].value)
  BY DEF At
<1> QED
  BY <1>1, <1>2 DEF OnePlace

\* A value replaces another in its entry.
LEMMA ReplaceKeeps ==
  ASSUME IInv, NEW t \in Task, NEW k \in 1 .. MaxKeys, NEW v \in Value,
         SetSpecific(t, k, v), IndexOf(tls[t], k) # 0
  PROVE  IInv'
<1> USE DEF IInv
<1> DEFINE i == IndexOf(tls[t], k)
           old == tls[t][i].value
           e == [tls[t][i] EXCEPT !.value = v]
<1>1. i \in DOMAIN tls[t]
  BY IndexOfFinds, ValueLists
<1>2. tls[t][i] \in ValueEntry
  BY <1>1, ValueLists
<1>3. e \in ValueEntry /\ e.value = v /\ e.late = tls[t][i].late /\ old \in Value
  BY <1>2 DEF ValueEntry
<1>4. /\ tls' = [tls EXCEPT ![t] = [tls[t] EXCEPT ![i] = e]]
      /\ fate' = [fate EXCEPT ![v] = "held", ![old] = "dropped"]
  BY DEF SetSpecific
<1>5. /\ pc[t] # "call" /\ fate[v] = "unused"
      /\ UNCHANGED <<s_keys, created, pc, entry, key, masked>>
  BY DEF SetSpecific, InUserCode
<1> HIDE DEF i, e
<1>6. /\ tls'[t] \in Seq(ValueEntry) /\ DOMAIN tls'[t] = DOMAIN tls[t]
      /\ \A j \in DOMAIN tls[t] : tls'[t][j] = IF j = i THEN e ELSE tls[t][j]
      /\ tls' \in [Task -> Seq(ValueEntry)]
      /\ \A u \in Task \ {t} : tls'[u] = tls[u]
  BY <1>1, <1>3, <1>4 DEF TypeOK
<1>7. TypeOK'
  BY <1>4, <1>5, <1>6 DEF TypeOK
<1>8. KeyNumbers' /\ KeyInUseIsLive' /\ CallHasEntry'
  BY <1>5 DEF KeyNumbers, KeyInUseIsLive, CallHasEntry, Runs
<1>9. LateIsLate' /\ LateValuesComeLast'
  <2>1. \A j \in DOMAIN tls[t] : tls'[t][j].late = tls[t][j].late
    BY <1>3, <1>6
  <2> QED
    BY <1>5, <1>6, <2>1 DEF LateIsLate, LateValuesComeLast
<1>10. OnePlace'
  <2>1. i \in At(t, old)
    BY <1>1 DEF At
  <2>2. At(t, v) = {}
    BY <1>5 DEF OnePlace
  <2>3. \A x \in Value : At(t, x)' = {j \in DOMAIN tls[t] : tls'[t][j].value = x}
    BY <1>5, <1>6 DEF At
  <2>4. \A x \in Value : At(t, x) = {j \in DOMAIN tls[t] : tls[t][j].value = x}
    BY <1>5, AtInUserCode
  <2>5. ASSUME NEW x \in Value, NEW j \in DOMAIN tls[t]
        PROVE  tls'[t][j].value = x <=>
                 \/ j = i /\ x = v
                 \/ tls[t][j].value = x /\ x # old
    <3>1. CASE j = i
      BY <1>3, <1>6, <3>1
    <3>2. CASE j # i
      <4>1. tls[t][j].value # old
        BY <1>1, <3>2, ValuesDiffer
      <4> QED
        BY <1>6, <4>1
    <3> QED
      BY <3>1, <3>2
  <2>6. ASSUME NEW x \in Value, x # v
        PROVE  At(t, x)' = IF x = old THEN {} ELSE At(t, x)
    <3>1. \A j : j \in At(t, x)' <=> j \in DOMAIN tls[t] /\ tls[t][j].value = x /\ x # old
      BY <2>3, <2>5, <2>6
    <3>2. \A j : j \in At(t, x) <=> j \in DOMAIN tls[t] /\ tls[t][j].value = x
      BY <2>4
    <3> HIDE DEF old
    <3> QED
      BY <3>1, <3>2
  <2>7. At(t, v)' = {i}
    BY <1>1, <2>2, <2>3, <2>4, <2>5
  <2> DEFINE new == {v}
             gone == {old}
  <2>8. /\ new \in SUBSET Value /\ gone \in SUBSET Value
        /\ \A x \in Value : x \in new <=> x = v
        /\ \A x \in Value : x \in gone <=> x = old
    BY <1>3
  <2> HIDE DEF old, new, gone
  <2>9. \A u \in Task \ {t}, x \in Value : At(u, x)' = At(u, x)
    BY <1>5, <1>6 DEF At
  <2>10. \A x \in Value : \A a, b \in At(t, x)' : a = b
    BY <2>6, <2>7 DEF OnePlace
  <2>11. \A x \in Value : At(t, x)' # {} <=> x \in new \/ (At(t, x) # {} /\ x \notin gone)
    BY <2>6, <2>7, <2>8
  <2>12. \A x \in Value : fate'[x] = "held" <=> x \in new \/ (fate[x] = "held" /\ x \notin gone)
    BY <1>4, <2>8 DEF TypeOK
  <2>13. (\A x \in new : fate[x] # "held") /\ (\A x \in gone : At(t, x) # {})
    BY <1>5, <2>1, <2>8
  <2> QED
    BY <2>8, <2>9, <2>10, <2>11, <2>12, <2>13, PlacesChange
<1> QED
  BY <1>7, <1>8, <1>9, <1>10

\* A value gets an entry at the end of the list.
LEMMA InsertKeeps ==
  ASSUME IInv, NEW t \in Task, NEW k \in 1 .. MaxKeys, NEW v \in Value,
         SetSpecific(t, k, v), IndexOf(tls[t], k) = 0
  PROVE  IInv'
<1> USE DEF IInv
<1> DEFINE e == [key |-> k, value |-> v, late |-> pc[t] = "destructor"]
           n == Len(tls[t]) + 1
<1>1. e \in ValueEntry /\ e.value = v /\ e.late = (pc[t] = "destructor")
  BY DEF ValueEntry
<1>2. /\ tls' = [tls EXCEPT ![t] = Append(tls[t], e)]
      /\ fate' = [fate EXCEPT ![v] = "held"]
  BY DEF SetSpecific, InsertLast
<1>3. /\ pc[t] \in {"run", "destructor"} /\ fate[v] = "unused"
      /\ UNCHANGED <<s_keys, created, pc, entry, key, masked>>
  BY DEF SetSpecific, InUserCode
<1> HIDE DEF e
<1>4. /\ tls'[t] \in Seq(ValueEntry) /\ DOMAIN tls'[t] = 1 .. n /\ n \in Nat \ {0}
      /\ DOMAIN tls[t] = 1 .. n - 1 /\ tls'[t][n] = e
      /\ \A j \in DOMAIN tls[t] : tls'[t][j] = tls[t][j]
      /\ tls' \in [Task -> Seq(ValueEntry)]
      /\ \A u \in Task \ {t} : tls'[u] = tls[u]
  BY <1>1, <1>2 DEF TypeOK
<1> HIDE DEF n
<1>5. TypeOK'
  BY <1>2, <1>3, <1>4 DEF TypeOK
<1>6. KeyNumbers' /\ KeyInUseIsLive' /\ CallHasEntry'
  BY <1>3 DEF KeyNumbers, KeyInUseIsLive, CallHasEntry, Runs
<1>7. LateIsLate'
  <2>1. ASSUME pc[t] = "run", NEW j \in 1 .. n
        PROVE  ~ tls'[t][j].late
    <3>1. CASE j = n
      BY <1>1, <1>4, <2>1, <3>1
    <3>2. CASE j # n
      BY <1>4, <2>1, <3>2 DEF LateIsLate
    <3> QED
      BY <3>1, <3>2
  <2> QED
    BY <1>3, <1>4, <2>1 DEF LateIsLate
<1>8. LateValuesComeLast'
  <2>1. ASSUME NEW i \in 1 .. n, NEW j \in 1 .. n, i < j, tls'[t][i].late
        PROVE  tls'[t][j].late
    <3>1. i \in DOMAIN tls[t] /\ tls[t][i].late
      BY <1>4, <2>1
    <3>2. CASE j = n
      BY <1>1, <1>3, <1>4, <3>1, <3>2 DEF LateIsLate
    <3>3. CASE j # n
      BY <1>4, <2>1, <3>3 DEF LateValuesComeLast
    <3> QED
      BY <3>2, <3>3
  <2> QED
    BY <1>4, <2>1 DEF LateValuesComeLast
<1>9. OnePlace'
  <2>1. At(t, v) = {}
    BY <1>3 DEF OnePlace
  <2>2. \A x \in Value : At(t, x)' = {j \in 1 .. n : tls'[t][j].value = x}
    BY <1>3, <1>4 DEF At
  <2>3. \A x \in Value : At(t, x) = {j \in DOMAIN tls[t] : tls[t][j].value = x}
    BY <1>3, AtInUserCode
  <2>4. ASSUME NEW x \in Value, NEW j \in 1 .. n
        PROVE  tls'[t][j].value = x <=>
                 (j = n /\ x = v) \/ (j \in DOMAIN tls[t] /\ tls[t][j].value = x)
    BY <1>1, <1>4
  <2>5. ASSUME NEW x \in Value, x # v
        PROVE  At(t, x)' = At(t, x)
    <3>1. DOMAIN tls[t] \subseteq 1 .. n
      BY <1>4
    <3>2. \A j : j \in At(t, x)' <=> j \in DOMAIN tls[t] /\ tls[t][j].value = x
      BY <2>2, <2>4, <2>5, <3>1
    <3>3. \A j : j \in At(t, x) <=> j \in DOMAIN tls[t] /\ tls[t][j].value = x
      BY <2>3
    <3> QED
      BY <3>2, <3>3
  <2>6. At(t, v)' = {n}
    <3>1. \A j \in DOMAIN tls[t] : tls[t][j].value # v
      BY <2>1, <2>3
    <3>2. n \in 1 .. n
      BY <1>4
    <3>3. \A j : j \in At(t, v)' <=> j = n
      BY <2>2, <2>4, <3>1, <3>2
    <3> QED
      BY <3>3
  <2> DEFINE new == {v}
  <2>7. new \in SUBSET Value /\ \A x \in Value : x \in new <=> x = v
    OBVIOUS
  <2> HIDE DEF new
  <2>8. \A u \in Task \ {t}, x \in Value : At(u, x)' = At(u, x)
    BY <1>3, <1>4 DEF At
  <2>9. \A x \in Value : \A a, b \in At(t, x)' : a = b
    BY <2>5, <2>6 DEF OnePlace
  <2>10. \A x \in Value : At(t, x)' # {} <=> x \in new \/ (At(t, x) # {} /\ x \notin {})
    BY <2>5, <2>6, <2>7
  <2>11. \A x \in Value : fate'[x] = "held" <=> x \in new \/ (fate[x] = "held" /\ x \notin {})
    BY <1>2, <2>7 DEF TypeOK
  <2>12. \A x \in new : fate[x] # "held"
    BY <1>3, <2>7
  <2> QED
    BY <2>7, <2>8, <2>9, <2>10, <2>11, <2>12, PlacesChange
<1> QED
  BY <1>5, <1>6, <1>7, <1>8, <1>9

\* A value set to NULL loses its entry, and the entries behind it move up.
LEMMA ClearKeeps ==
  ASSUME IInv, NEW t \in Task, NEW k \in 1 .. MaxKeys, ClearSpecific(t, k)
  PROVE  IInv'
<1> USE DEF IInv
<1> DEFINE i == IndexOf(tls[t], k)
           old == tls[t][i].value
           f(j) == IF j < i THEN j ELSE j + 1
<1>1. i \in DOMAIN tls[t]
  BY IndexOfFinds, ValueLists DEF ClearSpecific
<1>2. old \in Value
  BY <1>1, ValueLists DEF ValueEntry
<1>3. /\ tls' = [tls EXCEPT ![t] = RemoveAt(tls[t], i)]
      /\ fate' = [fate EXCEPT ![old] = "dropped"]
      /\ pc[t] # "call" /\ UNCHANGED <<s_keys, created, pc, entry, key, masked>>
  BY DEF ClearSpecific, InUserCode
<1> HIDE DEF i
<1>4. /\ tls'[t] \in Seq(ValueEntry) /\ Len(tls'[t]) = Len(tls[t]) - 1
      /\ \A j \in 1 .. Len(tls'[t]) : tls'[t][j] = tls[t][f(j)]
      /\ tls' \in [Task -> Seq(ValueEntry)]
      /\ \A u \in Task \ {t} : tls'[u] = tls[u]
  BY <1>1, <1>3, RemoveAtShifts DEF TypeOK
<1>5. /\ Len(tls[t]) \in Nat /\ DOMAIN tls[t] = 1 .. Len(tls[t])
      /\ DOMAIN tls'[t] = 1 .. Len(tls[t]) - 1
  BY <1>4
<1>6. /\ \A j \in DOMAIN tls'[t] : /\ f(j) \in DOMAIN tls[t] \ {i}
                                   /\ tls'[t][j] = tls[t][f(j)]
      /\ \A a, b \in DOMAIN tls'[t] : a < b <=> f(a) < f(b)
  BY <1>1, <1>4
<1>7. \A m \in DOMAIN tls[t] \ {i} : \E j \in DOMAIN tls'[t] : f(j) = m
  <2>1. ASSUME NEW m \in DOMAIN tls[t], m # i
        PROVE  \E j \in DOMAIN tls'[t] : f(j) = m
    <3>1. CASE m > i
      <4>1. m - 1 \in DOMAIN tls'[t] /\ f(m - 1) = m
        BY <1>1, <1>5, <3>1
      <4> HIDE DEF f
      <4> QED
        BY <4>1
    <3> QED
      BY <1>1, <1>5, <2>1, <3>1
  <2> QED
    BY <2>1
<1> HIDE DEF f
<1>8. TypeOK'
  BY <1>3, <1>4 DEF TypeOK
<1>9. KeyNumbers' /\ KeyInUseIsLive' /\ CallHasEntry'
  BY <1>3 DEF KeyNumbers, KeyInUseIsLive, CallHasEntry, Runs
<1>10. LateIsLate' /\ LateValuesComeLast'
  <2>1. \A a, b \in DOMAIN tls'[t] : a < b /\ tls'[t][a].late => tls'[t][b].late
    <3>1. ASSUME NEW a \in DOMAIN tls'[t], NEW b \in DOMAIN tls'[t], a < b, tls'[t][a].late
          PROVE  tls'[t][b].late
      BY <1>6, <3>1 DEF LateValuesComeLast
    <3> QED
      BY <3>1
  <2>2. LateValuesComeLast'
    BY <1>3, <2>1 DEF LateValuesComeLast
  <2>3. LateIsLate'
    BY <1>3, <1>6 DEF LateIsLate
  <2> QED
    BY <2>2, <2>3
<1>11. OnePlace'
  <2>1. \A x \in Value : At(t, x)' = {j \in DOMAIN tls'[t] : tls'[t][j].value = x}
    BY <1>3 DEF At
  <2>2. \A x \in Value : At(t, x) = {j \in DOMAIN tls[t] : tls[t][j].value = x}
    BY <1>3, AtInUserCode
  <2>3. ASSUME NEW x \in Value, NEW a \in At(t, x)', NEW b \in At(t, x)'
        PROVE  a = b
    <3>1. f(a) = f(b)
      BY <1>6, <2>1, ValuesDiffer
    <3>2. ~ (a < b) /\ ~ (b < a) /\ a \in Int /\ b \in Int
      BY <1>5, <1>6, <2>1, <3>1
    <3> QED
      BY <3>2
  <2> DEFINE gone == {old}
  <2>4. gone \in SUBSET Value /\ \A x \in Value : x \in gone <=> x = old
    BY <1>2
  <2>5. i \in At(t, old)
    BY <1>1 DEF At
  <2>6. \A m \in DOMAIN tls[t] \ {i} : tls[t][m].value # old
    BY <1>1, ValuesDiffer
  <2> HIDE DEF old, gone
  <2>7. ASSUME NEW x \in Value
        PROVE  At(t, x)' # {} <=> x \in {} \/ (At(t, x) # {} /\ x \notin gone)
    <3>1. CASE x = old
      BY <1>6, <2>1, <2>4, <2>6, <3>1
    <3>2. CASE x # old
      <4>1. \A m \in At(t, x) : m \in DOMAIN tls[t] \ {i}
        BY <2>2, <3>2 DEF old
      <4> QED
        BY <1>6, <1>7, <2>1, <2>2, <2>4, <3>2, <4>1
    <3> QED
      BY <3>1, <3>2
  <2>8. \A u \in Task \ {t}, x \in Value : At(u, x)' = At(u, x)
    BY <1>3 DEF At
  <2>9. \A x \in Value : fate'[x] = "held" <=> x \in {} \/ (fate[x] = "held" /\ x \notin gone)
    BY <1>3, <2>4 DEF TypeOK
  <2>10. \A x \in gone : At(t, x) # {}
    BY <2>4, <2>5
  <2> QED
    BY <2>3, <2>4, <2>7, <2>8, <2>9, <2>10, PlacesChange
<1> QED
  BY <1>8, <1>9, <1>10, <1>11

-----------------------------------------------------------------------------
\* A cleanup begins, ends, or comes back from a destructor.
LEMMA ExitKeeps ==
  ASSUME IInv, NEW t \in Task, Exit(t) \/ DestructorReturns(t) \/ CleanupDone(t)
  PROVE  IInv'
<1> USE DEF IInv
<1>1. PICK p \in {"cleanup", "done"} : pc' = [pc EXCEPT ![t] = p]
  BY DEF Exit, DestructorReturns, CleanupDone
<1>2. pc[t] # "call" /\ UNCHANGED <<s_keys, created, tls, entry, key, fate, masked>>
  BY DEF Exit, DestructorReturns, CleanupDone
<1>3. TypeOK' /\ KeyNumbers' /\ KeyInUseIsLive'
  BY <1>1, <1>2 DEF TypeOK, KeyNumbers, KeyInUseIsLive, Runs
<1>4. LateIsLate' /\ LateValuesComeLast' /\ CallHasEntry'
  BY <1>1, <1>2 DEF LateIsLate, LateValuesComeLast, CallHasEntry
<1>5. OnePlace'
  BY <1>1, <1>2, PlacesStay DEF At
<1> QED
  BY <1>3, <1>4, <1>5

\* The first entry goes from the list to the cleanup's hands.
LEMMA TakeEntryKeeps ==
  ASSUME IInv, NEW t \in Task, TakeEntry(t)
  PROVE  IInv'
<1> USE DEF IInv
<1> DEFINE e == Head(tls[t])
           n == Len(tls[t])
<1>1. /\ n \in Nat \ {0} /\ DOMAIN tls[t] = 1 .. n /\ e = tls[t][1] /\ e \in ValueEntry
  BY ValueLists DEF TakeEntry
<1>2. /\ tls' = [tls EXCEPT ![t] = Tail(tls[t])] /\ entry' = [entry EXCEPT ![t] = e]
      /\ key' = [key EXCEPT ![t] = FindKey(e.key)] /\ pc' = [pc EXCEPT ![t] = "call"]
      /\ pc[t] = "cleanup" /\ UNCHANGED <<s_keys, created, fate, masked>>
  BY DEF TakeEntry
<1> HIDE DEF e
<1>3. /\ tls'[t] \in Seq(ValueEntry) /\ DOMAIN tls'[t] = 1 .. n - 1
      /\ \A j \in 1 .. n - 1 : tls'[t][j] = tls[t][j + 1]
      /\ tls' \in [Task -> Seq(ValueEntry)]
      /\ \A u \in Task \ {t} : tls'[u] = tls[u]
  BY <1>1, <1>2 DEF TypeOK
<1> HIDE DEF n
<1>4. FindKey(e.key) \in KeyEntry \cup {Null}
  BY FindKeyFinds
<1>5. TypeOK'
  BY <1>1, <1>2, <1>4 DEF TypeOK
<1>6. KeyNumbers' /\ CallHasEntry'
  BY <1>1, <1>2 DEF TypeOK, KeyNumbers, CallHasEntry
<1>7. KeyInUseIsLive'
  BY <1>2, FindKeyFinds DEF TypeOK, KeyInUseIsLive, Runs
<1>8. LateIsLate'
  BY <1>2 DEF LateIsLate
<1>9. LateValuesComeLast'
  <2>1. ASSUME NEW i \in 1 .. n - 1, NEW j \in 1 .. n - 1, i < j, tls'[t][i].late
        PROVE  tls'[t][j].late
    <3>1. i + 1 \in DOMAIN tls[t] /\ j + 1 \in DOMAIN tls[t] /\ i + 1 < j + 1
      BY <1>1, <2>1
    <3> QED
      BY <1>3, <2>1, <3>1 DEF LateValuesComeLast
  <2> QED
    BY <1>3, <2>1 DEF LateValuesComeLast
<1>10. OnePlace'
  <2>1. ASSUME NEW x \in Value
        PROVE  \A j : j \in At(t, x)' <=> \/ j = 0 /\ e.value = x
                                          \/ j \in 1 .. n - 1 /\ tls[t][j + 1].value = x
    BY <1>2, <1>3 DEF TypeOK, At
  <2>2. \A x \in Value : At(t, x) = {j \in 1 .. n : tls[t][j].value = x}
    BY <1>1, <1>2, AtInUserCode
  <2>3. ASSUME NEW x \in Value, NEW j
        PROVE  j \in At(t, x)' <=> j \in 0 .. n - 1 /\ j + 1 \in At(t, x)
    BY <1>1, <2>1, <2>2
  <2>4. ASSUME NEW x \in Value, NEW a \in At(t, x)', NEW b \in At(t, x)'
        PROVE  a = b
    <3>1. a + 1 = b + 1 /\ a \in Int /\ b \in Int
      BY <2>3 DEF OnePlace
    <3> QED
      BY <3>1
  <2>5. ASSUME NEW x \in Value
        PROVE  At(t, x)' # {} <=> At(t, x) # {}
    <3>1. \A m \in At(t, x) : m - 1 \in 0 .. n - 1 /\ m - 1 + 1 = m
      BY <1>1, <2>2
    <3> QED
      BY <2>3, <3>1
  <2>6. \A u \in Task \ {t}, x \in Value : At(u, x)' = At(u, x)
    BY <1>2 DEF At
  <2>7. \A x \in Value : At(t, x)' # {} <=> x \in {} \/ (At(t, x) # {} /\ x \notin {})
    BY <2>5
  <2>8. \A x \in Value : fate'[x] = "held" <=> x \in {} \/ (fate[x] = "held" /\ x \notin {})
    BY <1>2
  <2> QED
    BY <2>4, <2>6, <2>7, <2>8, PlacesChange
<1> QED
  BY <1>5, <1>6, <1>7, <1>8, <1>9, <1>10

\* The value leaves the cleanup's hands, to its destructor or for good.
LEMMA CallDestructorKeeps ==
  ASSUME IInv, NEW t \in Task, CallDestructor(t)
  PROVE  IInv'
<1> USE DEF IInv
<1> DEFINE old == entry[t].value
<1>1. PICK p \in {"destructor", "cleanup"}, d \in {"destroyed", "dropped"} :
        pc' = [pc EXCEPT ![t] = p] /\ fate' = [fate EXCEPT ![old] = d]
  BY DEF CallDestructor
<1>2. /\ pc[t] = "call" /\ entry' = [entry EXCEPT ![t] = Null]
      /\ key' = [key EXCEPT ![t] = Null] /\ UNCHANGED <<s_keys, created, tls, masked>>
  BY DEF CallDestructor
<1>3. old \in Value
  BY <1>2 DEF CallHasEntry, ValueEntry
<1>4. TypeOK'
  BY <1>1, <1>2 DEF TypeOK
<1>5. KeyNumbers' /\ KeyInUseIsLive' /\ CallHasEntry'
  BY <1>1, <1>2 DEF TypeOK, KeyNumbers, KeyInUseIsLive, CallHasEntry, Runs
<1>6. LateIsLate' /\ LateValuesComeLast'
  BY <1>1, <1>2 DEF LateIsLate, LateValuesComeLast
<1>7. OnePlace'
  <2>1. 0 \in At(t, old)
    BY <1>2 DEF At
  <2>2. ASSUME NEW x \in Value
        PROVE  At(t, x)' = IF x = old THEN {} ELSE At(t, x)
    <3>1. \A j : j \in At(t, x)' <=> j \in DOMAIN tls[t] /\ tls[t][j].value = x
      BY <1>1, <1>2 DEF TypeOK, At
    <3>2. \A j : j \in At(t, x) <=> \/ j \in DOMAIN tls[t] /\ tls[t][j].value = x
                                    \/ j = 0 /\ x = old
      BY <1>2 DEF At
    <3>3. 0 \notin DOMAIN tls[t]
      BY ValueLists
    <3>4. x = old => \A j \in At(t, x) : j = 0
      BY <2>1 DEF OnePlace
    <3> HIDE DEF old
    <3> QED
      BY <3>1, <3>2, <3>3, <3>4
  <2> DEFINE gone == {old}
  <2>3. gone \in SUBSET Value /\ \A x \in Value : x \in gone <=> x = old
    BY <1>3
  <2>4. \A u \in Task \ {t}, x \in Value : At(u, x)' = At(u, x)
    BY <1>1, <1>2 DEF At
  <2> HIDE DEF old, gone
  <2>5. \A x \in Value : \A a, b \in At(t, x)' : a = b
    BY <2>2 DEF OnePlace
  <2>6. \A x \in Value : At(t, x)' # {} <=> x \in {} \/ (At(t, x) # {} /\ x \notin gone)
    BY <2>2, <2>3
  <2>7. \A x \in Value : fate'[x] = "held" <=> x \in {} \/ (fate[x] = "held" /\ x \notin gone)
    BY <1>1, <2>3 DEF TypeOK
  <2>8. \A x \in gone : At(t, x) # {}
    BY <2>1, <2>3
  <2> QED
    BY <2>3, <2>4, <2>5, <2>6, <2>7, <2>8, PlacesChange
<1> QED
  BY <1>4, <1>5, <1>6, <1>7

-----------------------------------------------------------------------------
LEMMA StepKeeps == IInv /\ [Next]_vars => IInv'
<1> SUFFICES ASSUME IInv, [Next]_vars PROVE IInv'
  OBVIOUS
<1>1. CASE UNCHANGED vars
  <2>1. \A v \in Value, t \in Task : At(t, v)' = At(t, v)
    BY <1>1 DEF vars, At
  <2>2. OnePlace'
    BY <1>1, <2>1, PlacesStay DEF vars, IInv
  <2> QED
    BY <1>1, <2>2
    DEF vars, IInv, TypeOK, KeyNumbers, KeyInUseIsLive, LateIsLate,
        LateValuesComeLast, CallHasEntry, Runs
<1>2. CASE Next
  BY <1>2, KeyCreateKeeps, KeyDeleteKeeps, ReplaceKeeps, InsertKeeps,
     ClearKeeps, ExitKeeps, TakeEntryKeeps, CallDestructorKeeps
  DEF Next, Cleanup
<1> QED
  BY <1>1, <1>2

\* The inductive invariant of the keys and of the threads' values.
THEOREM Invariance == Spec => []IInv
  BY Starts, StepKeeps, PTL DEF Spec

\* Types, and numbers that tell the keys on the list apart.
THEOREM TypeCorrect == Spec => []TypeOK
<1>1. IInv => TypeOK
  BY DEF IInv
<1> QED
  BY <1>1, Invariance, PTL

\* pthread_setspecific, called back from a destructor, adds behind all other
\* values.
THEOREM LateValuesAreLast == Spec => []LateValuesComeLast
<1>1. IInv => LateValuesComeLast
  BY DEF IInv
<1> QED
  BY <1>1, Invariance, PTL

\* The cleanup reads the destructor of a key that pthread_key_delete has not
\* freed.
THEOREM KeysInUseAreLive == Spec => []KeyInUseIsLive
<1>1. IInv => KeyInUseIsLive
  BY DEF IInv
<1> QED
  BY <1>1, Invariance, PTL

\* The values of pthread_setspecific reach one destructor or none: a value
\* that is held has one place, whatever the destructors set meanwhile.
THEOREM ValuesEndOnce == Spec => []ValuesMeetTheirEnd
<1>1. ASSUME OnePlace, NEW v \in Value
      PROVE  Cardinality(Places(v)) = IF fate[v] = "held" THEN 1 ELSE 0
  <2>1. CASE fate[v] = "held"
    <3>1. PICK t \in Task : At(t, v) # {}
      BY <1>1, <2>1 DEF OnePlace
    <3>2. PICK i : i \in At(t, v)
      BY <3>1
    <3>3. \A u \in Task : \A j \in At(u, v) : u = t /\ j = i
      BY <1>1, <3>2 DEF OnePlace
    <3>4. Places(v) = {<<t, i>>}
      <4>1. \A p \in Places(v) : p = <<t, i>>
        BY <3>3 DEF Places
      <4>2. <<t, i>> \in Places(v)
        BY <3>2 DEF Places
      <4> QED
        BY <4>1, <4>2
    <3> QED
      BY <2>1, <3>4, FS_Singleton
  <2>2. CASE fate[v] # "held"
    <3>1. \A u \in Task : At(u, v) = {}
      BY <1>1, <2>2 DEF OnePlace
    <3>2. Places(v) = {}
      BY <3>1 DEF Places
    <3> QED
      BY <2>2, <3>2, FS_EmptySet
  <2> QED
    BY <2>1, <2>2
<1>2. IInv => ValuesMeetTheirEnd
  BY <1>1 DEF IInv, ValuesMeetTheirEnd
<1> QED
  BY <1>2, Invariance, PTL
=============================================================================
