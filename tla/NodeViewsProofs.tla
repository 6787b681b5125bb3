-------------------------- MODULE NodeViewsProofs ---------------------------
(***************************************************************************)
(* Iterators, Length and lookups of a view agree, whatever the node: the   *)
(* safety part of ReadServes, and DoneExactly, for lists of any length;    *)
(* and what a representation gives stands for the node it is of.           *)
(***************************************************************************)
EXTENDS NodeViews, FiniteSetTheorems, TLAPS

\* The iterator has given exactly what shows up to idx.
IndexInv ==
  /\ ViewTypeOK
  /\ end = EndOf(view)
  /\ seen = {i \in Shown(view) : i <= idx}

LEMMA Sizes ==
  ASSUME NEW v \in Views
  PROVE  /\ Size(v) \in Nat
         /\ v.kind = "PBLink" => Size(v) = 3 /\ Fields(v) = <<"Hash", "Name", "Tsize">>
         /\ v.kind = "PBNode" => Size(v) = 2 /\ Fields(v) = <<"Links", "Data">>
BY ViewsAssumption DEF Size, Fields

\* What shows, kind by kind.
LEMMA Showing ==
  ASSUME NEW v \in Views
  PROVE  /\ v.level = "type" \/ v.kind = "PBLinks" => Shown(v) = 1..Size(v)
         /\ v.level = "repr" /\ v.kind = "PBLink" =>
              Shown(v) = {1} \cup (IF v.value.Name = Unset THEN {} ELSE {2})
                             \cup (IF v.value.Tsize = Unset THEN {} ELSE {3})
         /\ v.level = "repr" /\ v.kind = "PBNode" =>
              Shown(v) = {1} \cup (IF v.value.Data = Unset THEN {} ELSE {2})
<1>1. v.level = "type" \/ v.kind = "PBLinks" => Shown(v) = 1..Size(v)
  BY DEF Shown, Skipped, Missing
<1>2. ASSUME v.level = "repr", v.kind = "PBLink"
      PROVE  Shown(v) = {1} \cup (IF v.value.Name = Unset THEN {} ELSE {2})
                            \cup (IF v.value.Tsize = Unset THEN {} ELSE {3})
  <2>1. Size(v) = 3 /\ Fields(v) = <<"Hash", "Name", "Tsize">>
    BY <1>2, Sizes
  <2>2. ~Skipped(v, 1) /\ (Skipped(v, 2) <=> v.value.Name = Unset)
        /\ (Skipped(v, 3) <=> v.value.Tsize = Unset)
    BY <1>2, <2>1 DEF Skipped, Missing, Optional
  <2> QED BY <2>1, <2>2 DEF Shown
<1>3. ASSUME v.level = "repr", v.kind = "PBNode"
      PROVE  Shown(v) = {1} \cup (IF v.value.Data = Unset THEN {} ELSE {2})
  <2>1. Size(v) = 2 /\ Fields(v) = <<"Links", "Data">>
    BY <1>3, Sizes
  <2>2. ~Skipped(v, 1) /\ (Skipped(v, 2) <=> v.value.Data = Unset)
    BY <1>3, <2>1 DEF Skipped, Missing, Optional
  <2> QED BY <2>1, <2>2 DEF Shown
<1> QED BY <1>1, <1>2, <1>3

\* Nothing shows from end on, and the last before it does.
LEMMA EndIsLast ==
  ASSUME NEW v \in Views
  PROVE  /\ EndOf(v) \in 0..Size(v)
         /\ \A i \in Shown(v) : i <= EndOf(v)
         /\ EndOf(v) > 0 => EndOf(v) \in Shown(v)
<1>1. CASE v.level = "repr" /\ v.kind = "PBLink"
  BY <1>1, Showing, Sizes DEF EndOf, LinkEnd
<1>2. CASE v.level = "repr" /\ v.kind = "PBNode"
  BY <1>2, Showing, Sizes DEF EndOf, NodeEnd
<1>3. CASE v.level = "type" \/ v.kind = "PBLinks"
  BY <1>3, Showing, Sizes DEF EndOf
<1> QED BY <1>1, <1>2, <1>3, ViewsAssumption

LEMMA OneOrTwo ==
  /\ IsFiniteSet({1}) /\ Cardinality({1}) = 1
  /\ IsFiniteSet({1} \cup {2}) /\ Cardinality({1} \cup {2}) = 2
<1>1. IsFiniteSet({1}) /\ Cardinality({1}) = 1
  BY FS_Singleton
<1>2. 2 \notin {1}
  OBVIOUS
<1>3. IsFiniteSet({1} \cup {2}) /\ Cardinality({1} \cup {2}) = Cardinality({1}) + 1
  BY <1>1, <1>2, FS_AddElement
<1> QED BY <1>1, <1>3

LEMMA LengthCounts ==
  ASSUME NEW v \in Views
  PROVE  IsFiniteSet(Shown(v)) /\ Cardinality(Shown(v)) = Length(v)
<1>1. CASE v.level = "repr" /\ v.kind = "PBLink"
  <2> DEFINE N == IF v.value.Name = Unset THEN {1} ELSE {1} \cup {2}
  <2>1. IsFiniteSet(N) /\ Cardinality(N) = 1 + One(v.value.Name)
    BY OneOrTwo DEF One
  <2>2. Shown(v) = IF v.value.Tsize = Unset THEN N ELSE N \cup {3}
    BY <1>1, Showing
  <2>3. 3 \notin N
    OBVIOUS
  <2> HIDE DEF N
  <2>4. IsFiniteSet(Shown(v)) /\ Cardinality(Shown(v)) = Cardinality(N) + One(v.value.Tsize)
    BY <2>1, <2>2, <2>3, FS_AddElement DEF One
  <2> QED BY <1>1, <2>1, <2>4 DEF Length, LinkLength
<1>2. CASE v.level = "repr" /\ v.kind = "PBNode"
  <2>1. Shown(v) = IF v.value.Data = Unset THEN {1} ELSE {1} \cup {2}
    BY <1>2, Showing
  <2>2. IsFiniteSet(Shown(v)) /\ Cardinality(Shown(v)) = 1 + One(v.value.Data)
    BY <2>1, OneOrTwo DEF One
  <2> QED BY <1>2, <2>2 DEF Length, NodeLength
<1>3. CASE v.level = "type" \/ v.kind = "PBLinks"
  <2>1. Shown(v) = 1..Size(v) /\ Size(v) \in Nat
    BY <1>3, Showing, Sizes
  <2>2. IsFiniteSet(Shown(v)) /\ Cardinality(Shown(v)) = Size(v)
    BY <2>1, FS_Interval
  <2> QED BY <1>3, <2>2 DEF Length
<1> QED BY <1>1, <1>2, <1>3, ViewsAssumption

LEMMA ViewStarts == ViewInit => IndexInv
<1> SUFFICES ASSUME ViewInit PROVE IndexInv
  OBVIOUS
<1>1. EndOf(view) \in 0..Size(view) /\ Size(view) \in Nat
  BY EndIsLast, Sizes DEF ViewInit
<1>2. \A i \in Shown(view) : ~(i <= 0)
  BY <1>1 DEF Shown
<1> QED BY <1>1, <1>2 DEF ViewInit, IndexInv, ViewTypeOK

LEMMA NextKeeps == ASSUME IndexInv, Next PROVE IndexInv'
<1> USE DEF IndexInv, ViewTypeOK
<1>1. Size(view) \in Nat /\ view' = view /\ end' = end
  BY Sizes DEF Next
<1>2. Ahead = {i \in Shown(view) : idx < i} /\ Shown(view) \subseteq 1..Size(view)
  BY <1>1 DEF Ahead, Shown
<1>3. CASE Ahead = {} /\ idx' = Size(view) /\ seen' = seen
  BY <1>1, <1>2, <1>3
<1>4. ASSUME NEW i \in Ahead, \A j \in Ahead : i <= j, idx' = i, seen' = seen \cup {i}
      PROVE  IndexInv'
  <2>1. seen' = {j \in Shown(view) : j <= i}
    BY <1>1, <1>2, <1>4
  <2> QED BY <1>1, <1>2, <1>4, <2>1
<1> QED BY <1>3, <1>4 DEF Next

LEMMA ReadKeeps == IndexInv /\ [Read]_viewVars => IndexInv'
<1> SUFFICES ASSUME IndexInv, [Read]_viewVars PROVE IndexInv'
  OBVIOUS
<1>1. CASE Next
  BY <1>1, NextKeeps
<1>2. CASE UNCHANGED <<view, idx, end, seen>>
  BY <1>2 DEF IndexInv, ViewTypeOK
<1>3. CASE ~Next /\ Read
  BY <1>3, <1>2 DEF Read, SayDone, AskLength, Lookup
<1> QED BY <1>1, <1>2, <1>3 DEF viewVars

\* After any calls the iterator has given exactly what shows up to idx.
THEOREM Given == ReadSystem => []IndexInv
BY ViewStarts, ReadKeeps, PTL DEF ReadSystem

\* An iterator never leaves its node, however often Next is called.
THEOREM ViewTypeCorrect == ReadSystem => []ViewTypeOK
<1>1. IndexInv => ViewTypeOK
  BY DEF IndexInv
<1> QED BY <1>1, Given, PTL

LEMMA DoneIsAll == IndexInv => DoneExactly
<1> SUFFICES ASSUME IndexInv PROVE DoneExactly
  OBVIOUS
<1> USE DEF IndexInv, ViewTypeOK
<1>1. EndOf(view) \in 0..Size(view) /\ Size(view) \in Nat /\ Shown(view) \subseteq 1..Size(view)
  BY EndIsLast, Sizes DEF Shown
<1>2. CASE idx >= end
  BY <1>1, <1>2, EndIsLast DEF DoneExactly, Done
<1>3. CASE ~(idx >= end)
  <2>1. end \in Shown(view) /\ end \notin seen
    BY <1>1, <1>3, EndIsLast
  <2> QED BY <1>3, <2>1 DEF DoneExactly, Done
<1> QED BY <1>2, <1>3

\* Done says so exactly when every field or row that shows has been given.
THEOREM DoneCorrect == ReadSystem => []DoneExactly
BY DoneIsAll, Given, PTL

-----------------------------------------------------------------------------
LEMMA SameNumber == \A S : Reader!Cardinality(S) = Cardinality(S)
BY DEF Reader!Cardinality, Cardinality

LEMMA SameFinite == \A S : Reader!IsFiniteSet(S) <=> IsFiniteSet(S)
BY DEF Reader!IsFiniteSet, IsFiniteSet

\* One call of the view is one call of the service.
LEMMA Steps ==
  ASSUME IndexInv, [Read]_viewVars
  PROVE  [Reader!SpecNext]_(Reader!specVars)
<1> DEFINE E == [i \in Shown(view) |-> Entry(view, i)]
           L == Shown(view) \ seen
<1> USE DEF IndexInv, ViewTypeOK
<1>1. Size(view) \in Nat /\ Shown(view) \subseteq 1..Size(view)
  BY Sizes DEF Shown
<1>2. CASE Next
  <2>1. view' = view /\ E' = E /\ Ahead = L
    BY <1>1, <1>2 DEF Next, Ahead, Shown
  <2>2. ASSUME Ahead = {}, answer' = [call |-> "Next"], seen' = seen
        PROVE  Reader!Overread
    BY <2>1, <2>2 DEF Reader!Overread
  <2>3. ASSUME NEW i \in Ahead, \A j \in Ahead : i <= j, seen' = seen \cup {i},
               answer' = [call |-> "Next", entry |-> Entry(view, i)]
        PROVE  Reader!Give
    <3>1. L' = L \ {i} /\ i \in L /\ E[i] = Entry(view, i)
      BY <2>1, <2>3
    <3> QED BY <2>1, <2>3, <3>1 DEF Reader!Give
  <2> QED BY <1>2, <2>2, <2>3 DEF Next, Reader!SpecNext
<1>3. CASE SayDone
  <2>1. Done <=> L = {}
    BY DoneIsAll DEF DoneExactly, Shown
  <2>2. UNCHANGED <<E, L>>
    BY <1>3 DEF SayDone
  <2> QED BY <1>3, <2>1, <2>2 DEF SayDone, Reader!SayDone, Reader!SpecNext
<1>4. CASE AskLength
  <2>1. Length(view) = Cardinality(Shown(view)) /\ Shown(view) = DOMAIN E
    BY LengthCounts
  <2>2. UNCHANGED <<E, L>>
    BY <1>4 DEF AskLength
  <2>3. Reader!Count
    BY <1>4, <2>1, <2>2, SameNumber DEF AskLength, Reader!Count
  <2> QED BY <2>3 DEF Reader!SpecNext
<1>5. ASSUME NEW k \in Asked, Lookup(k)
      PROVE  Reader!SpecNext
  <2>1. UNCHANGED <<E, L>>
    BY <1>5 DEF Lookup
  <2>2. ASSUME NEW i \in Shown(view), Entry(view, i).key = k,
               answer' = [call |-> "Lookup", key |-> k, value |-> Value(view, i)]
        PROVE  Reader!SpecNext
    BY <2>1, <2>2 DEF Reader!Find, Reader!SpecNext, Entry
  <2>3. ASSUME NEW failed \in {"error", "panic"},
               failed = "panic" => "index" \in DOMAIN k /\ k.index < 0,
               \A i \in Shown(view) : Entry(view, i).key # k,
               answer' = [call |-> "Lookup", key |-> k, failed |-> failed]
        PROVE  Reader!SpecNext
    BY <2>1, <2>3 DEF Reader!FindNone, Reader!Has, Reader!SpecNext
  <2>4. CASE view.kind # "PBLinks" /\ k \in [field : STRING] /\ IsField(k)
    <3>1. \A i \in Shown(view) : Entry(view, i).key = [field |-> Fields(view)[i]]
      BY <2>4 DEF Entry, Key
    <3>2. LookupByString(k)
      BY <1>5, <2>4 DEF Lookup
    <3>3. CASE \A i \in 1..Size(view) : Fields(view)[i] = k.field => Skipped(view, i)
      <4>1. \A i \in Shown(view) : Fields(view)[i] # k.field
        BY <3>3 DEF Shown
      <4>2. answer' = [call |-> "Lookup", key |-> k, failed |-> "error"]
        BY <3>2, <3>3 DEF LookupByString
      <4>3. \A i \in Shown(view) : [field |-> Fields(view)[i]] # k
        BY <4>1
      <4>4. \A i \in Shown(view) : Entry(view, i).key # k
        BY <3>1, <4>3
      <4> QED BY <4>2, <4>4, <2>3
    <3>4. ASSUME NEW i \in 1..Size(view), Fields(view)[i] = k.field, ~Skipped(view, i),
                 answer' = [call |-> "Lookup", key |-> k, value |-> Value(view, i)]
          PROVE  Reader!SpecNext
      <4>1. i \in Shown(view) /\ Entry(view, i).key = k
        BY <2>4, <3>1, <3>4 DEF Shown
      <4> QED BY <3>4, <4>1, <2>2
    <3> QED BY <3>2, <3>3, <3>4 DEF LookupByString
  <2>5. CASE view.kind = "PBLinks" /\ k \in [index : Int] /\ ~IsField(k)
    <3>1. \A i \in 1..Size(view) : Entry(view, i).key = [index |-> i - 1]
      BY <2>5 DEF Entry, Key
    <3>2. LookupByIndex(k)
      BY <1>5, <2>5 DEF Lookup
    <3>3. CASE k.index >= Size(view) \/ k.index < 0
      <4>0. \A i \in 1..Size(view) : i - 1 # k.index
        BY <1>1, <2>5, <3>3
      <4>1. \A i \in 1..Size(view) : [index |-> i - 1] # k
        BY <4>0
      <4>2. \A i \in Shown(view) : Entry(view, i).key # k
        BY <1>1, <3>1, <4>1
      <4>3. "index" \in DOMAIN k
        BY <2>5
      <4> QED BY <1>1, <2>5, <3>2, <3>3, <4>2, <4>3, <2>3 DEF LookupByIndex
    <3>4. CASE k.index \in 0..(Size(view) - 1)
      <4>1. k.index + 1 \in Shown(view)
        BY <1>1, <2>5, <3>4 DEF Shown, Skipped, Missing
      <4>2. Entry(view, k.index + 1).key = k
        BY <1>1, <2>5, <3>1, <4>1
      <4>3. answer' = [call |-> "Lookup", key |-> k, value |-> Value(view, k.index + 1)]
        BY <1>1, <2>5, <3>2, <3>4 DEF LookupByIndex, Value
      <4> QED BY <4>1, <4>2, <4>3, <2>2
    <3> QED BY <1>1, <2>5, <3>3, <3>4
  <2>6. CASE view.kind = "PBLinks" <=> IsField(k)
    <3>1. answer' = [call |-> "Lookup", key |-> k, failed |-> "error"]
      BY <1>5, <2>6 DEF Lookup, LookupMisused
    <3>2. \A i \in Shown(view) : IsField(Entry(view, i).key) <=> view.kind # "PBLinks"
      BY DEF Entry, Key, IsField
    <3>3. \A i \in Shown(view) : Entry(view, i).key # k
      BY <2>6, <3>2
    <3> QED BY <3>1, <3>3, <2>3
  <2>7. k \in [field : STRING] => IsField(k)
    BY DEF IsField
  <2>8. k \in [index : Int] => ~IsField(k)
    BY DEF IsField
  <2> QED BY <2>4, <2>5, <2>6, <2>7, <2>8, AskedAssumption
<1>6. CASE UNCHANGED viewVars
  BY <1>6 DEF viewVars, Reader!specVars
<1> QED BY <1>2, <1>3, <1>4, <1>5, <1>6 DEF Read

LEMMA Starts == ViewInit => Reader!SpecInit
<1> DEFINE E == [i \in Shown(view) |-> Entry(view, i)]
<1> SUFFICES ASSUME ViewInit PROVE Reader!SpecInit
  OBVIOUS
<1>1. Size(view) \in Nat /\ Shown(view) \subseteq 1..Size(view) /\ DOMAIN E = Shown(view)
  BY Sizes DEF ViewInit, Shown
<1>2. Reader!IsFiniteSet(Shown(view))
  BY LengthCounts, SameFinite DEF ViewInit
<1>3. Shown(view) \ seen = DOMAIN E
  BY <1>1 DEF ViewInit
<1> QED BY <1>1, <1>2, <1>3 DEF ViewInit, Reader!SpecInit

\* A view serves its readers: an iterator gives every entry once, in order, and Done,
\* Length and the lookups tell of the same entries.
THEOREM ViewImplements ==
  ReadSystem => Reader!SpecInit /\ [][Reader!SpecNext]_(Reader!specVars)
<1>1. IndexInv /\ [Read]_viewVars => [Reader!SpecNext]_(Reader!specVars)
  BY Steps
<1> QED BY <1>1, Starts, Given, PTL DEF ReadSystem

-----------------------------------------------------------------------------
(* What AssignNode makes of a view *)

\* The place of i in the order an iterator gives S in, and what it gives at place n.
Rank(S, i) == Cardinality({j \in S : j < i})
At(S, n) == CHOOSE i \in S : Rank(S, i) = n - 1

LEMMA Placed ==
  ASSUME NEW S, S \subseteq Nat, IsFiniteSet(S)
  PROVE  /\ Cardinality(S) \in Nat
         /\ \A n \in 1..Cardinality(S) : At(S, n) \in S
         /\ \A n, m \in 1..Cardinality(S) : At(S, n) = At(S, m) => n = m
         /\ \A i \in S : \E n \in 1..Cardinality(S) : At(S, n) = i
<1>1. Cardinality(S) \in Nat
  BY FS_CardinalityType
<1>2. ASSUME NEW i \in S PROVE Rank(S, i) \in 0..(Cardinality(S) - 1)
  <2> DEFINE B == {j \in S : j < i}
  <2>1. B \in SUBSET S /\ B # S
    BY <1>2
  <2>2. IsFiniteSet(B) /\ Cardinality(B) <= Cardinality(S) /\ Cardinality(B) # Cardinality(S)
    <3> HIDE DEF B
    <3> QED BY <2>1, FS_Subset, Zenon
  <2>3. Cardinality(B) \in Nat
    <3> HIDE DEF B
    <3> QED BY <2>2, FS_CardinalityType
  <2> QED BY <1>1, <2>2, <2>3 DEF Rank
<1>3. ASSUME NEW i \in S, NEW k \in S, i < k PROVE Rank(S, i) # Rank(S, k)
  <2> DEFINE B == {j \in S : j < i}
             C == {j \in S : j < k}
  <2>1. B \in SUBSET C /\ B # C /\ C \in SUBSET S
    <3>1. i \in Nat /\ k \in Nat /\ \A j \in S : j \in Nat
      OBVIOUS
    <3>2. \A j \in S : j < i => j < k
      BY <1>3, <3>1
    <3>3. i \in C /\ i \notin B
      BY <1>3, <3>1
    <3> QED BY <3>2, <3>3
  <2> HIDE DEF B, C
  <2>2. IsFiniteSet(C)
    BY <2>1, FS_Subset
  <2>3. Cardinality(B) # Cardinality(C)
    BY <2>1, <2>2, FS_Subset, Zenon
  <2> QED BY <2>3 DEF Rank, B, C
<1>4. \A i, k \in S : Rank(S, i) = Rank(S, k) => i = k
  <2> SUFFICES ASSUME NEW i \in S, NEW k \in S, i # k PROVE Rank(S, i) # Rank(S, k)
    OBVIOUS
  <2>1. i < k \/ k < i
    OBVIOUS
  <2> QED BY <1>3, <2>1
<1>5. \A n \in 1..Cardinality(S) : \E i \in S : Rank(S, i) = n - 1
  <2> DEFINE T == 0..(Cardinality(S) - 1)
             r == [i \in S |-> Rank(S, i)]
  <2>1. r \in [S -> T] /\ \A i \in S : r[i] = Rank(S, i)
    BY <1>2
  <2>2. IsFiniteSet(T) /\ Cardinality(T) = Cardinality(S)
    <3>1. 0 \in Int /\ Cardinality(S) - 1 \in Int
      BY <1>1
    <3>2. IsFiniteSet(T)
      BY <3>1, FS_Interval
    <3>3. Cardinality(T) = IF 0 > Cardinality(S) - 1 THEN 0 ELSE (Cardinality(S) - 1) - 0 + 1
      BY <3>1, FS_Interval
    <3> QED BY <1>1, <3>2, <3>3
  <2>3. \A n \in 1..Cardinality(S) : n - 1 \in T
    BY <1>1
  <2> HIDE DEF r, T
  <2>4. r \in Injection(S, T)
    BY <1>4, <2>1 DEF Injection, IsInjective
  <2>5. r \in Surjection(S, T)
    BY <2>2, <2>4, FS_Injection, Zenon
  <2> QED BY <2>1, <2>3, <2>5 DEF Surjection
<1>6. ASSUME NEW n \in 1..Cardinality(S) PROVE At(S, n) \in S /\ Rank(S, At(S, n)) = n - 1
  BY <1>5 DEF At
<1>7. ASSUME NEW n \in 1..Cardinality(S), NEW m \in 1..Cardinality(S), At(S, n) = At(S, m)
      PROVE  n = m
  <2>1. n - 1 = m - 1
    BY <1>6, <1>7
  <2> QED BY <2>1
<1>8. ASSUME NEW i \in S PROVE \E n \in 1..Cardinality(S) : At(S, n) = i
  <2>1. PICK n : n = Rank(S, i) + 1
    OBVIOUS
  <2>2. n \in 1..Cardinality(S) /\ Rank(S, i) = n - 1
    BY <1>1, <1>2, <2>1
  <2>3. Rank(S, At(S, n)) = Rank(S, i) /\ At(S, n) \in S
    BY <1>6, <2>2
  <2> QED BY <1>4, <2>2, <2>3
<1> QED BY <1>1, <1>6, <1>7, <1>8

\* All of a list is given in its order.
LEMMA PlacedInOrder ==
  ASSUME NEW n \in Nat, NEW k \in 1..n
  PROVE  At(1..n, k) = k
<1>1. ASSUME NEW i \in 1..n PROVE Rank(1..n, i) = i - 1
  <2>1. {j \in 1..n : j < i} = 1..(i - 1)
    BY <1>1
  <2>2. 1 \in Int /\ i - 1 \in Int
    OBVIOUS
  <2>3. Cardinality(1..(i - 1)) = IF 1 > i - 1 THEN 0 ELSE (i - 1) - 1 + 1
    BY <2>2, FS_Interval
  <2>4. Cardinality(1..(i - 1)) = i - 1
    BY <2>3
  <2> QED BY <2>1, <2>4, Zenon DEF Rank
<1>2. \A i \in 1..n : Rank(1..n, i) = k - 1 <=> i = k
  BY <1>1
<1> QED BY <1>2 DEF At

LEMMA ReprShows ==
  /\ \A l : /\ Fields(Repr("PBLink", l)) = <<"Hash", "Name", "Tsize">>
            /\ Shown(Repr("PBLink", l)) =
                 {1} \cup (IF l.Name = Unset THEN {} ELSE {2})
                     \cup (IF l.Tsize = Unset THEN {} ELSE {3})
  /\ \A n : /\ Fields(Repr("PBNode", n)) = <<"Links", "Data">>
            /\ Shown(Repr("PBNode", n)) = {1} \cup (IF n.Data = Unset THEN {} ELSE {2})
  /\ \A xs : Shown(Repr("PBLinks", xs)) = 1..Len(xs)
<1>1. ASSUME NEW l
      PROVE  /\ Fields(Repr("PBLink", l)) = <<"Hash", "Name", "Tsize">>
             /\ Shown(Repr("PBLink", l)) =
                  {1} \cup (IF l.Name = Unset THEN {} ELSE {2})
                      \cup (IF l.Tsize = Unset THEN {} ELSE {3})
  <2> DEFINE v == Repr("PBLink", l)
  <2>1. v.kind = "PBLink" /\ v.level = "repr" /\ v.value = l
    BY DEF Repr
  <2> HIDE DEF v
  <2>2. Fields(v) = <<"Hash", "Name", "Tsize">> /\ Size(v) = 3
    BY <2>1 DEF Fields, Size
  <2>3. ~Skipped(v, 1) /\ (Skipped(v, 2) <=> l.Name = Unset) /\ (Skipped(v, 3) <=> l.Tsize = Unset)
    BY <2>1, <2>2 DEF Skipped, Missing, Optional
  <2> QED BY <2>2, <2>3 DEF Shown, v
<1>2. ASSUME NEW n
      PROVE  /\ Fields(Repr("PBNode", n)) = <<"Links", "Data">>
             /\ Shown(Repr("PBNode", n)) = {1} \cup (IF n.Data = Unset THEN {} ELSE {2})
  <2> DEFINE v == Repr("PBNode", n)
  <2>1. v.kind = "PBNode" /\ v.level = "repr" /\ v.value = n
    BY DEF Repr
  <2> HIDE DEF v
  <2>2. Fields(v) = <<"Links", "Data">> /\ Size(v) = 2
    BY <2>1 DEF Fields, Size
  <2>3. ~Skipped(v, 1) /\ (Skipped(v, 2) <=> n.Data = Unset)
    BY <2>1, <2>2 DEF Skipped, Missing, Optional
  <2> QED BY <2>2, <2>3 DEF Shown, v
<1>3. ASSUME NEW xs PROVE Shown(Repr("PBLinks", xs)) = 1..Len(xs)
  BY DEF Repr, Shown, Skipped, Missing, Size
<1> QED BY <1>1, <1>2, <1>3

LEMMA Few ==
  ASSUME NEW S, S \subseteq 1..3
  PROVE  IsFiniteSet(S) /\ S \subseteq Nat
<1>1. \A a, b \in Int : IsFiniteSet(a..b)
  BY FS_Interval
<1>2. 1 \in Int /\ 3 \in Int /\ S \in SUBSET (1..3)
  OBVIOUS
<1>3. IsFiniteSet(1..3)
  BY <1>1, <1>2, Zenon
<1>4. IsFiniteSet(S)
  BY <1>2, <1>3, FS_Subset, Zenon
<1> QED BY <1>4

LEMMA Lengths ==
  ASSUME NEW c \in Nat, NEW s, DOMAIN s = 1..c, s = [n \in 1..c |-> s[n]]
  PROVE  Len(s) = c
<1>1. s \in Seq({s[n] : n \in 1..c})
  OBVIOUS
<1> QED BY <1>1

\* What AssignNode sees of a link: its fields that show, each once.
LEMMA LinkSeen ==
  ASSUME NEW l \in PBLink
  PROVE  LET S == Shown(Repr("PBLink", l))
             s == LinkSource(l, S)
             c == Cardinality(S)
         IN /\ s.kind = "map" /\ s.broken = FALSE
            /\ c \in Nat /\ Len(s.entries) = c
            /\ \A n \in 1..c :
                 LET f == <<"Hash", "Name", "Tsize">>[At(S, n)]
                 IN s.entries[n] = [key |-> f, value |-> [kind |-> KindOf[f], value |-> l[f]]]
<1> DEFINE v == Repr("PBLink", l)
           S == Shown(v)
           c == Cardinality(S)
           E == [n \in 1..c |->
                  LET f == Fields(v)[At(S, n)]
                  IN [key |-> f, value |-> Leaf(f, Value(v, At(S, n)))]]
<1>1. v.kind = "PBLink" /\ v.value = l
  BY DEF Repr
<1>2. LinkSource(l, S).entries = E /\ LinkSource(l, S).kind = "map"
      /\ LinkSource(l, S).broken = FALSE
  BY <1>1 DEF LinkSource, Drained, At, Rank
<1>3. S \subseteq Nat /\ IsFiniteSet(S) /\ S \subseteq 1..3
  <2>1. S \subseteq 1..3
    BY ReprShows
  <2> HIDE DEF S
  <2> QED BY <2>1, Few
<1>4. c \in Nat
  <2> HIDE DEF S
  <2> QED BY <1>3, Placed
<1>5. Len(E) = c
  <2> HIDE DEF c, v, S
  <2> QED BY <1>4, Lengths
<1>6. ASSUME NEW n \in 1..c
      PROVE  LET f == <<"Hash", "Name", "Tsize">>[At(S, n)]
             IN E[n] = [key |-> f, value |-> [kind |-> KindOf[f], value |-> l[f]]]
  <2>1. Fields(v) = <<"Hash", "Name", "Tsize">>
    BY ReprShows
  <2> HIDE DEF v, S, c
  <2> QED BY <1>1, <2>1 DEF Leaf, Value
<1> QED BY <1>2, <1>4, <1>5, <1>6

LEMMA LinkCopied ==
  ASSUME NEW l \in PBLink
  PROVE  LET s == LinkSource(l, Shown(Repr("PBLink", l)))
         IN IsALink(s) /\ LinkOf(s) = l
<1>1. PICK S, c, s, F : /\ S = Shown(Repr("PBLink", l)) /\ c = Cardinality(S)
                        /\ s = LinkSource(l, S) /\ F = <<"Hash", "Name", "Tsize">>
  OBVIOUS
<1>2. /\ S = {1} \cup (IF l.Name = Unset THEN {} ELSE {2}) \cup (IF l.Tsize = Unset THEN {} ELSE {3})
      /\ S \subseteq Nat /\ IsFiniteSet(S) /\ S \subseteq 1..3 /\ 1 \in S
  <2>1. S = {1} \cup (IF l.Name = Unset THEN {} ELSE {2}) \cup (IF l.Tsize = Unset THEN {} ELSE {3})
    BY <1>1, ReprShows
  <2>2. S \subseteq 1..3 /\ 1 \in S
    BY <2>1
  <2> QED BY <2>1, <2>2, Few
<1>3. /\ s.kind = "map" /\ s.broken = FALSE
      /\ c \in Nat /\ Len(s.entries) = c
      /\ \A n \in 1..c :
           LET f == F[At(S, n)]
           IN s.entries[n] = [key |-> f, value |-> [kind |-> KindOf[f], value |-> l[f]]]
  BY <1>1, LinkSeen
<1>4. /\ \A n \in 1..c : At(S, n) \in S
      /\ \A n, m \in 1..c : At(S, n) = At(S, m) => n = m
      /\ \A i \in S : \E n \in 1..c : At(S, n) = i
  BY <1>1, <1>2, Placed
<1>5. /\ F[1] = "Hash" /\ F[2] = "Name" /\ F[3] = "Tsize"
      /\ \A i, j \in 1..3 : F[i] = F[j] => i = j
      /\ \A i \in 1..3 : F[i] \in LinkFields
  BY <1>1 DEF LinkFields
<1>6. \A n \in 1..c : /\ s.entries[n].key = F[At(S, n)]
                     /\ s.entries[n].key \in LinkFields
                     /\ s.entries[n].value.kind = KindOf[s.entries[n].key]
                     /\ s.entries[n].value.value = l[F[At(S, n)]]
  <2> SUFFICES ASSUME NEW n \in 1..c
               PROVE  /\ s.entries[n].key = F[At(S, n)]
                      /\ s.entries[n].key \in LinkFields
                      /\ s.entries[n].value.kind = KindOf[s.entries[n].key]
                      /\ s.entries[n].value.value = l[F[At(S, n)]]
    OBVIOUS
  <2>1. PICK f : f = F[At(S, n)]
    OBVIOUS
  <2>2. s.entries[n] = [key |-> f, value |-> [kind |-> KindOf[f], value |-> l[f]]]
    BY <1>3, <2>1
  <2>3. At(S, n) \in 1..3
    BY <1>2, <1>4
  <2>4. f \in LinkFields
    BY <1>5, <2>1, <2>3
  <2> QED BY <2>1, <2>2, <2>4
<1>7. ASSUME NEW n \in 1..c, NEW m \in 1..c, s.entries[n].key = s.entries[m].key
      PROVE  n = m
  <2>1. F[At(S, n)] = F[At(S, m)] /\ At(S, n) \in 1..3 /\ At(S, m) \in 1..3
    BY <1>2, <1>4, <1>6, <1>7
  <2>2. At(S, n) = At(S, m)
    BY <1>5, <2>1
  <2> QED BY <1>4, <2>2
<1>8. \E n \in 1..c : s.entries[n].key = "Hash"
  BY <1>2, <1>4, <1>5, <1>6
<1>9. IsALink(s)
  BY <1>3, <1>6, <1>7, <1>8 DEF IsALink, IsStruct
<1>10. ASSUME NEW i \in 1..3 PROVE Field(s, F[i], LAMBDA x : x.value) = l[F[i]]
  <2>1. CASE i \in S
    <3>1. PICK n \in 1..c : At(S, n) = i
      BY <1>4, <2>1
    <3>2. s.entries[n].key = F[i] /\ s.entries[n].value.value = l[F[i]]
      BY <1>6, <3>1
    <3>3. (CHOOSE m \in 1..c : s.entries[m].key = F[i]) = n
      BY <1>7, <3>2
    <3> QED BY <1>3, <3>2, <3>3 DEF Field
  <2>2. CASE i \notin S
    <3>1. ASSUME NEW n \in 1..c PROVE s.entries[n].key # F[i]
      <4>1. At(S, n) \in 1..3 /\ At(S, n) # i
        BY <1>2, <1>4, <2>2
      <4>2. F[At(S, n)] # F[i]
        BY <1>5, <4>1
      <4> QED BY <1>6, <4>2
    <3>2. l[F[i]] = Unset
      BY <1>2, <1>5, <2>2
    <3> QED BY <1>3, <3>1, <3>2 DEF Field
  <2> QED BY <2>1, <2>2
<1>11. LinkOf(s) = l
  <2>1. /\ Field(s, "Hash", LAMBDA x : x.value) = l.Hash
        /\ Field(s, "Name", LAMBDA x : x.value) = l.Name
        /\ Field(s, "Tsize", LAMBDA x : x.value) = l.Tsize
    BY <1>5, <1>10
  <2>2. l = [k \in LinkFields |-> l[k]]
    BY DEF PBLink, LinkFields
  <2>3. \A k \in LinkFields : Field(s, k, LAMBDA x : x.value) = l[k]
    BY <2>1 DEF LinkFields
  <2>4. s.kind # "own"
    BY <1>3
  <2> QED BY <2>2, <2>3, <2>4 DEF LinkOf
<1> QED BY <1>1, <1>9, <1>11

LEMMA ListCopied ==
  ASSUME NEW xs \in Seq(PBLink)
  PROVE  LET s == ListSource(xs)
         IN IsAList(s) /\ s.kind = "list" /\ ListOf(s) = xs
<1> DEFINE v == Repr("PBLinks", xs)
           n == Len(xs)
           E == [k \in 1..n |-> [key |-> NoKey,
                   value |-> LinkSource(xs[k], Shown(Repr("PBLink", xs[k])))]]
<1>1. n \in Nat /\ Shown(v) = 1..n /\ v.kind = "PBLinks"
  BY ReprShows DEF Repr
<1>2. Cardinality(1..n) = n
  <2>1. 1 \in Int /\ n \in Int
    BY <1>1
  <2>2. Cardinality(1..n) = IF 1 > n THEN 0 ELSE n - 1 + 1
    BY <2>1, FS_Interval
  <2> QED BY <1>1, <2>2
<1>3. /\ ListSource(xs).kind = "list" /\ ListSource(xs).broken = FALSE
      /\ ListSource(xs).entries =
           [k \in 1..Cardinality(Shown(v)) |-> [key |-> NoKey,
              value |-> LinkSource(xs[At(Shown(v), k)],
                                   Shown(Repr("PBLink", xs[At(Shown(v), k)])))]]
  <2> HIDE DEF n, E
  <2> QED BY <1>1 DEF ListSource, Drained, At, Rank
<1>4. ListSource(xs).entries = E
  <2>1. \A k \in 1..n : At(1..n, k) = k
    BY <1>1, PlacedInOrder
  <2>2. ListSource(xs).entries =
           [k \in 1..n |-> [key |-> NoKey,
              value |-> LinkSource(xs[At(1..n, k)], Shown(Repr("PBLink", xs[At(1..n, k)])))]]
    <3> HIDE DEF n, E, v
    <3> QED BY <1>1, <1>2, <1>3
  <2> HIDE DEF n, v
  <2> QED BY <2>1, <2>2
<1>5. Len(E) = n
  <2> HIDE DEF n
  <2> QED BY <1>1, Lengths
<1>6. \A k \in 1..n : E[k].value = LinkSource(xs[k], Shown(Repr("PBLink", xs[k])))
  OBVIOUS
<1> HIDE DEF E
<1>7. \A k \in 1..n : IsALink(E[k].value) /\ LinkOf(E[k].value) = xs[k]
  <2> SUFFICES ASSUME NEW k \in 1..n PROVE IsALink(E[k].value) /\ LinkOf(E[k].value) = xs[k]
    OBVIOUS
  <2>1. xs[k] \in PBLink
    OBVIOUS
  <2> QED BY <1>6, <2>1, LinkCopied
<1>8. IsAList(ListSource(xs))
  BY <1>3, <1>4, <1>5, <1>7 DEF IsAList
<1>9. ListOf(ListSource(xs)) = [k \in 1..n |-> xs[k]]
  BY <1>3, <1>4, <1>5, <1>7 DEF ListOf
<1> QED BY <1>3, <1>8, <1>9

LEMMA NodeSeen ==
  ASSUME NEW n \in PBNode
  PROVE  LET S == Shown(Repr("PBNode", n))
             s == NodeSource(n, S)
             c == Cardinality(S)
         IN /\ s.kind = "map" /\ s.broken = FALSE
            /\ c \in Nat /\ Len(s.entries) = c
            /\ \A k \in 1..c :
                 LET f == <<"Links", "Data">>[At(S, k)]
                 IN s.entries[k] = [key |-> f, value |-> IF f = "Links" THEN ListSource(n.Links)
                                                         ELSE Leaf("Data", n.Data)]
<1> DEFINE v == Repr("PBNode", n)
           S == Shown(v)
           c == Cardinality(S)
           E == [k \in 1..c |->
                  LET f == Fields(v)[At(S, k)]
                  IN [key |-> f, value |-> IF f = "Links" THEN ListSource(n.Links)
                                           ELSE Leaf("Data", n.Data)]]
<1>1. v.kind = "PBNode" /\ v.value = n
  BY DEF Repr
<1>2. NodeSource(n, S).entries = E /\ NodeSource(n, S).kind = "map"
      /\ NodeSource(n, S).broken = FALSE
  BY <1>1 DEF NodeSource, Drained, At, Rank
<1>3. S \subseteq Nat /\ IsFiniteSet(S)
  <2>1. S \subseteq 1..3
    BY ReprShows
  <2> HIDE DEF S
  <2> QED BY <2>1, Few
<1>4. c \in Nat
  <2> HIDE DEF S
  <2> QED BY <1>3, Placed
<1>5. Len(E) = c
  <2> HIDE DEF c, v, S
  <2> QED BY <1>4, Lengths
<1>6. ASSUME NEW k \in 1..c
      PROVE  LET f == <<"Links", "Data">>[At(S, k)]
             IN E[k] = [key |-> f, value |-> IF f = "Links" THEN ListSource(n.Links)
                                             ELSE Leaf("Data", n.Data)]
  <2>1. Fields(v) = <<"Links", "Data">>
    BY ReprShows
  <2> HIDE DEF v, S, c
  <2> QED BY <2>1
<1> QED BY <1>2, <1>4, <1>5, <1>6

LEMMA NodeCopied ==
  ASSUME NEW n \in PBNode
  PROVE  LET s == NodeSource(n, Shown(Repr("PBNode", n)))
         IN IsANode(s) /\ NodeOf(s) = n
<1>1. PICK S, c, s, F : /\ S = Shown(Repr("PBNode", n)) /\ c = Cardinality(S)
                        /\ s = NodeSource(n, S) /\ F = <<"Links", "Data">>
  OBVIOUS
<1>2. /\ S = {1} \cup (IF n.Data = Unset THEN {} ELSE {2})
      /\ S \subseteq Nat /\ IsFiniteSet(S) /\ S \subseteq 1..2 /\ 1 \in S
  <2>1. S = {1} \cup (IF n.Data = Unset THEN {} ELSE {2})
    BY <1>1, ReprShows
  <2>2. S \subseteq 1..2 /\ S \subseteq 1..3 /\ 1 \in S
    BY <2>1
  <2> QED BY <2>1, <2>2, Few
<1>3. /\ s.kind = "map" /\ s.broken = FALSE
      /\ c \in Nat /\ Len(s.entries) = c
      /\ \A k \in 1..c :
           LET f == F[At(S, k)]
           IN s.entries[k] = [key |-> f, value |-> IF f = "Links" THEN ListSource(n.Links)
                                                   ELSE Leaf("Data", n.Data)]
  BY <1>1, NodeSeen
<1>4. /\ \A k \in 1..c : At(S, k) \in S
      /\ \A k, m \in 1..c : At(S, k) = At(S, m) => k = m
      /\ \A i \in S : \E k \in 1..c : At(S, k) = i
  BY <1>1, <1>2, Placed
<1>5. F[1] = "Links" /\ F[2] = "Data"
  BY <1>1
<1>6. PICK L, D : L = ListSource(n.Links) /\ D = Leaf("Data", n.Data)
  OBVIOUS
<1>7. /\ IsAList(L) /\ ListOf(L) = n.Links
      /\ D.kind = "bytes" /\ D.value = n.Data
  <2>1. n.Links \in Seq(PBLink)
    BY DEF PBNode
  <2>2. IsAList(L) /\ ListOf(L) = n.Links
    BY <1>6, <2>1, ListCopied
  <2>3. D.kind = "bytes" /\ D.value = n.Data
    BY <1>6 DEF Leaf, KindOf
  <2> QED BY <2>2, <2>3
<1>8. ASSUME NEW k \in 1..c
      PROVE  \/ /\ At(S, k) = 1 /\ s.entries[k].key = "Links" /\ s.entries[k].value = L
             \/ /\ At(S, k) = 2 /\ n.Data # Unset
                /\ s.entries[k].key = "Data" /\ s.entries[k].value = D
  <2>1. PICK f : f = F[At(S, k)]
    OBVIOUS
  <2>2. s.entries[k] = [key |-> f, value |-> IF f = "Links" THEN L ELSE D]
    BY <1>3, <1>6, <2>1
  <2>3. At(S, k) = 1 \/ (At(S, k) = 2 /\ n.Data # Unset)
    BY <1>2, <1>4
  <2>4. \/ f = "Links" /\ At(S, k) = 1
        \/ f = "Data" /\ At(S, k) = 2 /\ n.Data # Unset
    BY <1>5, <2>1, <2>3
  <2> QED BY <2>2, <2>4
<1>9. ASSUME NEW k \in 1..c, NEW m \in 1..c, s.entries[k].key = s.entries[m].key
      PROVE  k = m
  <2>1. At(S, k) = At(S, m)
    BY <1>8, <1>9
  <2> QED BY <1>4, <2>1
<1>10. PICK k \in 1..c : At(S, k) = 1
  BY <1>2, <1>4
<1>11. s.entries[k].key = "Links" /\ s.entries[k].value = L
  BY <1>8, <1>10
<1>12. IsANode(s)
  BY <1>3, <1>7, <1>8, <1>9, <1>11 DEF IsANode, IsStruct
<1>13. Field(s, "Links", ListOf) = n.Links
  <2>1. (CHOOSE m \in 1..c : s.entries[m].key = "Links") = k
    BY <1>9, <1>11
  <2> QED BY <1>3, <1>7, <1>11, <2>1 DEF Field
<1>14. Field(s, "Data", LAMBDA x : x.value) = n.Data
  <2>1. CASE n.Data = Unset
    <3>1. \A m \in 1..c : s.entries[m].key # "Data"
      BY <1>8, <2>1
    <3> QED BY <1>3, <2>1, <3>1 DEF Field
  <2>2. CASE n.Data # Unset
    <3>1. PICK m \in 1..c : At(S, m) = 2
      BY <1>2, <1>4, <2>2
    <3>2. s.entries[m].key = "Data" /\ s.entries[m].value = D
      BY <1>8, <3>1
    <3>3. (CHOOSE j \in 1..c : s.entries[j].key = "Data") = m
      BY <1>9, <3>2
    <3> QED BY <1>3, <1>7, <3>2, <3>3 DEF Field
  <2> QED BY <2>1, <2>2
<1>15. NodeOf(s) = n
  <2>1. n = [Links |-> n.Links, Data |-> n.Data]
    BY DEF PBNode
  <2> QED BY <1>3, <1>13, <1>14, <2>1 DEF NodeOf
<1> QED BY <1>1, <1>12, <1>15

\* A node drained through its representation's iterators conforms to the schema and stands
\* for the node itself: absent fields that do not show are not lost, and those behind them
\* are not either.
THEOREM ReprIsCopied == ReadSystem => []ReprCopies
<1>1. ASSUME IndexInv PROVE ReprCopies
  <2> SUFFICES ASSUME view.level = "repr", Done PROVE ReprCopies
    BY DEF ReprCopies
  <2>1. seen = Shown(view) /\ view \in Views
    BY <1>1, DoneIsAll DEF DoneExactly, IndexInv, ViewTypeOK
  <2>2. CASE view.kind = "PBLink"
    <3>1. view.value \in PBLink
      BY <2>1, <2>2, ViewsAssumption
    <3>2. seen = Shown(Repr("PBLink", view.value))
      BY <2>1, <2>2, Showing, ReprShows
    <3> QED BY <2>2, <3>1, <3>2, LinkCopied DEF ReprCopies
  <2>3. CASE view.kind = "PBNode"
    <3>1. view.value \in PBNode
      BY <2>1, <2>3, ViewsAssumption
    <3>2. seen = Shown(Repr("PBNode", view.value))
      BY <2>1, <2>3, Showing, ReprShows
    <3> QED BY <2>3, <3>1, <3>2, NodeCopied DEF ReprCopies
  <2>4. CASE view.kind = "PBLinks"
    <3>1. view.value \in Seq(PBLink)
      BY <2>1, <2>4, ViewsAssumption
    <3> QED BY <2>4, <3>1, ListCopied DEF ReprCopies
  <2> QED BY <2>1, <2>2, <2>3, <2>4, ViewsAssumption
<1> QED BY <1>1, Given, PTL
=============================================================================
