---------------------------- MODULE StoreProofs ----------------------------
(***************************************************************************)
(* The store of the tests does what the store on MongoDB may do.           *)
(*                                                                         *)
(* The inductive invariant is StoreInv: records have the fields they       *)
(* should have, no two of a collection have the same id, no id is greater  *)
(* than the counter, and a map is keyed by the ids of its values.  With it *)
(* a place in a slice stands for one document, and each operation has a    *)
(* lemma that makes it a step of MongoStore's operation of that name.      *)
(*                                                                         *)
(* For the queries the slices matter too: Ranked enumerates a set of       *)
(* places in a strict order, which is that of the documents, and a cursor  *)
(* cuts the list of events where the page ends.                            *)
(***************************************************************************)
EXTENDS MemStore, FiniteSetTheorems, SequenceTheorems, WellFoundedInduction, TLAPS

-----------------------------------------------------------------------------
(* Sequences as sets of their elements.                                    *)

\* A sequence is a function on its places.
LEMMA SeqIs ==
  ASSUME NEW S, NEW s \in Seq(S)
  PROVE  /\ Len(s) \in Nat /\ DOMAIN s = 1..Len(s)
         /\ \A i \in 1..Len(s) : s[i] \in S
         /\ s \in [1..Len(s) -> S]
  OBVIOUS

\* The elements of a sequence.
LEMMA RangeIs ==
  ASSUME NEW S, NEW s \in Seq(S)
  PROVE  Range(s) \subseteq S /\ \A x : x \in Range(s) <=> \E i \in DOMAIN s : s[i] = x
BY SeqIs DEF Range

\* No two elements have the same id.
IdsDiffer(s) == \A i, j \in DOMAIN s : s[i].id = s[j].id => i = j

\* An append adds a last place and its element.
LEMMA AppendIs ==
  ASSUME NEW S, NEW s \in Seq(S), NEW x \in S
  PROVE  /\ Append(s, x) \in Seq(S)
         /\ DOMAIN Append(s, x) = 1..(Len(s) + 1)
         /\ \A i \in DOMAIN s : Append(s, x)[i] = s[i]
         /\ Append(s, x)[Len(s) + 1] = x
         /\ Range(Append(s, x)) = Range(s) \cup {x}
<1>1. /\ Append(s, x) \in Seq(S) /\ Len(Append(s, x)) = Len(s) + 1
      /\ \A i \in 1..Len(s) : Append(s, x)[i] = s[i]
      /\ Append(s, x)[Len(s) + 1] = x
  OBVIOUS
<1> DEFINE t == Append(s, x)
<1>2. Len(s) \in Nat /\ DOMAIN s = 1..Len(s) /\ DOMAIN t = 1..(Len(s) + 1)
  BY <1>1, SeqIs
<1> HIDE DEF t
<1>3. Range(t) = Range(s) \cup {x}
  BY <1>1, <1>2, SMT DEF Range, t
<1> QED
  BY <1>1, <1>2, <1>3 DEF t

\* Where ids differ, a change of one place replaces one element.
LEMMA UpdateIs ==
  ASSUME NEW S, NEW s \in Seq(S), NEW i \in DOMAIN s, NEW x \in S, IdsDiffer(s), x.id = s[i].id
  PROVE  /\ [s EXCEPT ![i] = x] \in Seq(S)
         /\ DOMAIN [s EXCEPT ![i] = x] = DOMAIN s
         /\ IdsDiffer([s EXCEPT ![i] = x])
         /\ Range([s EXCEPT ![i] = x]) = (Range(s) \ {s[i]}) \cup {x}
<1> DEFINE t == [s EXCEPT ![i] = x]
<1>1. Len(s) \in Nat /\ DOMAIN s = 1..Len(s) /\ s \in [1..Len(s) -> S]
  BY SeqIs
<1>2. /\ t \in [1..Len(s) -> S] /\ DOMAIN t = DOMAIN s /\ t[i] = x
      /\ \A j \in DOMAIN s : j # i => t[j] = s[j]
  BY <1>1
<1>3. t \in Seq(S)
  BY <1>1, <1>2
<1> HIDE DEF t
<1>4. IdsDiffer(t)
  BY <1>2 DEF IdsDiffer
<1>5. \A j \in DOMAIN s : s[j] = s[i] => j = i
  BY DEF IdsDiffer
<1>6. Range(t) = (Range(s) \ {s[i]}) \cup {x}
  BY <1>2, <1>5 DEF Range
<1> QED
  BY <1>2, <1>3, <1>4, <1>6 DEF t

\* Where ids differ, slices.Delete of one place takes one element away.
LEMMA RemoveIs ==
  ASSUME NEW S, NEW s \in Seq(S), NEW i \in DOMAIN s, IdsDiffer(s)
  PROVE  /\ RemoveAt(s, i) \in Seq(S)
         /\ IdsDiffer(RemoveAt(s, i))
         /\ Range(RemoveAt(s, i)) = Range(s) \ {s[i]}
<1> DEFINE t == RemoveAt(s, i)
<1>1. Len(s) \in Nat /\ DOMAIN s = 1..Len(s) /\ s \in [1..Len(s) -> S] /\ i \in 1..Len(s)
  BY SeqIs
<1> DEFINE a == SubSeq(s, 1, i - 1)
<1> DEFINE b == SubSeq(s, i + 1, Len(s))
<1>a. a \in Seq(S) /\ Len(a) = i - 1 /\ \A j \in 1..(i - 1) : a[j] = s[j]
  <2>1. \A j \in 1..(i - 1) : s[j] \in S
    BY <1>1
  <2>2. 1 \in Int /\ i - 1 \in Int
    BY <1>1
  <2>3. /\ a \in Seq(S) /\ Len(a) = IF 1 <= i - 1 THEN (i - 1) - 1 + 1 ELSE 0
        /\ \A j \in 1..((i - 1) - 1 + 1) : a[j] = s[1 + j - 1]
    BY <2>1, <2>2, SubSeqProperties
  <2> QED
    BY <1>1, <2>3
<1>b. b \in Seq(S) /\ Len(b) = Len(s) - i /\ \A j \in 1..(Len(s) - i) : b[j] = s[i + j]
  <2>1. \A j \in (i + 1)..Len(s) : s[j] \in S
    BY <1>1
  <2>2. i + 1 \in Int /\ Len(s) \in Int
    BY <1>1
  <2>3. /\ b \in Seq(S) /\ Len(b) = IF i + 1 <= Len(s) THEN Len(s) - (i + 1) + 1 ELSE 0
        /\ \A j \in 1..(Len(s) - (i + 1) + 1) : b[j] = s[(i + 1) + j - 1]
    BY <2>1, <2>2, SubSeqProperties
  <2> QED
    BY <1>1, <2>3
<1>c. t = a \o b
  BY DEF RemoveAt
<1> HIDE DEF a, b, t
<1>d. t \in Seq(S) /\ Len(t) = Len(a) + Len(b)
      /\ \A j \in 1..(Len(a) + Len(b)) : t[j] = IF j <= Len(a) THEN a[j] ELSE b[j - Len(a)]
  BY <1>a, <1>b, <1>c, ConcatProperties
<1>2. /\ t \in Seq(S) /\ Len(t) = Len(s) - 1
      /\ \A j \in 1..(Len(s) - 1) : t[j] = IF j < i THEN s[j] ELSE s[j + 1]
  <2>1. Len(t) = Len(s) - 1
    BY <1>1, <1>a, <1>b, <1>d
  <2>2. ASSUME NEW j \in 1..(Len(s) - 1) PROVE t[j] = IF j < i THEN s[j] ELSE s[j + 1]
    <3>1. CASE j < i
      BY <3>1, <1>1, <1>a, <1>b, <1>d
    <3>2. CASE ~ (j < i)
      <4>1. j - (i - 1) \in 1..(Len(s) - i) /\ i + (j - (i - 1)) = j + 1
        BY <3>2, <1>1
      <4>2. t[j] = b[j - (i - 1)]
        BY <3>2, <1>1, <1>a, <1>b, <1>d
      <4> QED
        BY <3>2, <4>1, <4>2, <1>b
    <3> QED
      BY <3>1, <3>2
  <2> QED
    BY <1>d, <2>1, <2>2
<1>3. DOMAIN t = 1..(Len(s) - 1)
  BY <1>2, SeqIs
<1> HIDE DEF t
<1> DEFINE At(j) == IF j < i THEN j ELSE j + 1
<1>4. \A j \in DOMAIN t : At(j) \in DOMAIN s /\ At(j) # i /\ t[j] = s[At(j)]
  BY <1>1, <1>2, <1>3
<1>5. \A j, k \in DOMAIN t : At(j) = At(k) => j = k
  BY <1>1, <1>3
<1>6. \A j \in DOMAIN s : j # i => \E k \in DOMAIN t : At(k) = j
  <2> SUFFICES ASSUME NEW j \in DOMAIN s, j # i PROVE \E k \in DOMAIN t : At(k) = j
    OBVIOUS
  <2>1. CASE j < i
    <3>1. j \in DOMAIN t /\ At(j) = j
      BY <2>1, <1>1, <1>3
    <3> QED
      BY <3>1
  <2>2. CASE j > i
    <3>1. j - 1 \in DOMAIN t /\ At(j - 1) = j
      BY <2>2, <1>1, <1>3
    <3> QED
      BY <3>1
  <2> QED
    BY <2>1, <2>2, <1>1
<1> HIDE DEF At
<1>7. IdsDiffer(t)
  BY <1>4, <1>5 DEF IdsDiffer
<1>8. \A j \in DOMAIN s : s[j] = s[i] => j = i
  BY DEF IdsDiffer
<1>9. Range(t) = Range(s) \ {s[i]}
  <2>1. ASSUME NEW x \in Range(t) PROVE x \in Range(s) \ {s[i]}
    BY <2>1, <1>4, <1>8 DEF Range
  <2>2. ASSUME NEW x \in Range(s) \ {s[i]} PROVE x \in Range(t)
    <3>1. PICK j \in DOMAIN s : s[j] = x
      BY <2>2 DEF Range
    <3>2. PICK k \in DOMAIN t : At(k) = j
      BY <3>1, <2>2, <1>6
    <3> QED
      BY <3>1, <3>2, <1>4 DEF Range
  <2> QED
    BY <2>1, <2>2
<1> QED
  BY <1>2, <1>7, <1>9 DEF t

-----------------------------------------------------------------------------
(* The records, and the ids.                                               *)

Counts == 0..MaxCount
Dates == {Mongo!Never} \cup Mongo!Times

Doc(c) ==
  CASE c = "workspaces" ->
         [id : Nat, key : Names, name : Names, settings : Settings]
    [] c = "events" ->
         [id : Nat, workspace : Names, starts : Mongo!Times, status : Mongo!EventStatuses,
          channel : Nat, messages : Counts, count : Counts]
    [] c = "participations" ->
         [id : Nat, event : Names, user : Names, role : Mongo!Roles,
          status : Mongo!PartStatuses, joined : Mongo!Times, expires : Dates, peeks : Nat]
    [] c = "jobs" ->
         [id : Nat, event : Names, kind : Mongo!JobKinds, key : Nat, runAt : Mongo!Times,
          status : {"pending", "running", "done", "failed", "canceled"}, attempts : Counts,
          lease : Int, finished : Dates]
    [] c = "logs" ->
         [id : Nat, event : Names, sequence : Counts, at : Mongo!Times, sent : Mongo!Times]
    [] c = "users" -> [id : Nat, sub : Names, login : Mongo!Times]
    [] c = "identities" ->
         [id : Nat, user : Names, workspace : Names, chat : Names, linked : Mongo!Times]
    [] c = "tokens" ->
         [id : Names, chat : Names, expires : Mongo!Times, consumed : Dates]
    [] c = "sessions" ->
         [id : Names, user : Names, expires : Mongo!Times, seen : Mongo!Times]
    [] c = "states" -> [id : Names, expires : Mongo!Times]

Fields == {"seq", "provider", "schema"} \cup Slices \cup Maps

SliceOK(c, s, n) ==
  /\ s \in Seq(Doc(c))
  /\ IdsDiffer(s)
  /\ \A i \in DOMAIN s : s[i].id <= n

MapOK(c, f) ==
  /\ f = [k \in DOMAIN f |-> f[k]]
  /\ DOMAIN f \subseteq Names
  /\ \A k \in DOMAIN f : f[k] \in Doc(c) /\ f[k].id = k

MemOK(m) ==
  /\ m = [f \in Fields |-> m[f]]
  /\ m.seq \in Nat
  /\ m.provider \in {NoProvider} \cup {<<p>> : p \in [value : Settings, first : Mongo!Times]}
  /\ m.schema \in Counts
  /\ \A c \in Slices : SliceOK(c, m[c], m.seq)
  /\ \A c \in Maps : MapOK(c, m[c])

StoreInv == MemOK(mem) /\ now \in Mongo!Times

\* The empty store is typed.
LEMMA InitStore == ASSUME Init PROVE StoreInv
BY MemStoreAssumption
   DEF Init, StoreInv, MemOK, SliceOK, MapOK, IdsDiffer, Fields, Slices, Maps, Counts, Mongo!Times,
       NoProvider

-----------------------------------------------------------------------------
(* What a write does to the documents.                                     *)

Provider(m) == [id |-> "provider", value |-> m.value, first |-> m.first]

\* The collections are fields of the store, each of one kind.
LEMMA FieldsDiffer ==
  /\ \A c \in Slices : c \in Fields /\ c \notin Maps /\ c \notin {"meta", "seq", "provider", "schema"}
  /\ \A c \in Maps : c \in Fields /\ c \notin Slices /\ c \notin {"meta", "seq", "provider", "schema"}
  /\ {"seq", "provider", "schema"} \subseteq Fields
BY DEF Fields, Slices, Maps

\* What the inductive invariant says of the fields.
LEMMA StoreFacts ==
  ASSUME StoreInv
  PROVE  /\ mem = [f \in Fields |-> mem[f]]
         /\ mem.seq \in Nat /\ Id \in Nat /\ Id = mem.seq + 1
         /\ \A c \in Slices : SliceOK(c, mem[c], mem.seq)
         /\ \A c \in Maps : MapOK(c, mem[c])
<1>1. MemOK(mem)
  BY DEF StoreInv
<1>2. mem.seq \in Nat
  BY <1>1 DEF MemOK
<1>3. Id \in Nat /\ Id = mem.seq + 1
  BY <1>2 DEF Id
<1>4. mem = [f \in Fields |-> mem[f]]
  BY <1>1, Zenon DEF MemOK
<1>5. /\ \A c \in Slices : SliceOK(c, mem[c], mem.seq)
      /\ \A c \in Maps : MapOK(c, mem[c])
  BY <1>1 DEF MemOK
<1> QED
  BY <1>2, <1>3, <1>4, <1>5

\* Records of slices have numbers as ids.
LEMMA DocIds ==
  ASSUME NEW c \in Slices
  PROVE  \A d \in Doc(c) : d.id \in Nat
BY DEF Doc, Slices

\* SliceOK, place by place.
LEMMA SliceFacts ==
  ASSUME NEW c \in Slices, NEW s, NEW n \in Nat
  PROVE  SliceOK(c, s, n) <=>
           /\ s \in Seq(Doc(c)) /\ Len(s) \in Nat /\ DOMAIN s = 1..Len(s)
           /\ IdsDiffer(s)
           /\ \A i \in DOMAIN s : s[i] \in Doc(c) /\ s[i].id \in Nat /\ s[i].id <= n
<1> DEFINE D == Doc(c)
<1>1. \A d \in D : d.id \in Nat
  BY DocIds
<1>2. s \in Seq(D) => /\ Len(s) \in Nat /\ DOMAIN s = 1..Len(s)
                      /\ \A i \in DOMAIN s : s[i] \in D
  <2> HIDE DEF D
  <2> QED
    BY SeqIs
<1> HIDE DEF D
<1> QED
  BY <1>1, <1>2 DEF SliceOK, D

\* SliceOK from its parts.
LEMMA SliceMade ==
  ASSUME NEW c, NEW s \in Seq(Doc(c)), NEW n, IdsDiffer(s), \A i \in DOMAIN s : s[i].id <= n
  PROVE  SliceOK(c, s, n)
BY DEF SliceOK

\* The collection c becomes t.
Wrote(c, t, n) ==
  /\ mem' = [f \in Fields |-> mem'[f]]
  /\ mem'[c] = t
  /\ \A f \in Fields : f # c /\ f # "seq" => mem'[f] = mem[f]
  /\ mem'.seq = n
  /\ now' = now

\* Writing one slice, and the counter, changes the documents of that collection alone.
LEMMA WriteSlice ==
  ASSUME StoreInv, NEW c \in Slices, NEW t, NEW n \in Nat, n >= mem.seq,
         SliceOK(c, t, n), Wrote(c, t, n)
  PROVE  StoreInv' /\ Documents' = [Documents EXCEPT ![c] = Range(t)]
<1>1. /\ mem' = [f \in Fields |-> mem'[f]]
      /\ mem'.seq = n /\ mem'.provider = mem.provider /\ mem'.schema = mem.schema
      /\ mem'[c] = t
      /\ \A d \in Slices : d # c => mem'[d] = mem[d]
      /\ \A d \in Maps : mem'[d] = mem[d]
      /\ now' = now
  BY FieldsDiffer DEF Wrote
<1>2. \A d \in Slices : SliceOK(d, mem'[d], n)
  <2>1. ASSUME NEW d \in Slices, d # c PROVE SliceOK(d, mem[d], n)
    <3>1. SliceOK(d, mem[d], mem.seq) /\ mem.seq \in Nat
      BY StoreFacts
    <3> QED
      BY <3>1, SliceFacts
  <2> QED
    BY <2>1, <1>1
<1>3. StoreInv'
  BY <1>1, <1>2 DEF StoreInv, MemOK
<1>4. Documents' = [Documents EXCEPT ![c] = Range(t)]
  <2> DEFINE meta(m) == {[id |-> "provider", value |-> p.value, first |-> p.first] : p \in Range(m.provider)}
                        \cup {[id |-> "schema", value |-> n_1, first |-> 0] : n_1 \in {m.schema} \ {0}}
  <2> DEFINE map(m, d) == {m[d][k] : k \in DOMAIN m[d]}
  <2>1. Documents = [d \in Slices \cup Maps \cup {"meta"} |->
                       IF d \in Slices THEN Range(mem[d])
                       ELSE IF d \in Maps THEN map(mem, d) ELSE meta(mem)]
    BY DEF Documents
  <2>2. Documents' = [d \in Slices \cup Maps \cup {"meta"} |->
                       IF d \in Slices THEN Range(mem'[d])
                       ELSE IF d \in Maps THEN map(mem', d) ELSE meta(mem')]
    BY DEF Documents
  <2>3. meta(mem') = meta(mem)
    BY <1>1
  <2>4. \A d \in Maps : map(mem', d) = map(mem, d)
    BY <1>1
  <2> HIDE DEF meta, map
  <2> QED
    BY <1>1, <2>1, <2>2, <2>3, <2>4
<1> QED
  BY <1>3, <1>4

\* The same with the counter as it was.
LEMMA RewriteSlice ==
  ASSUME StoreInv, NEW c \in Slices, NEW t, SliceOK(c, t, mem.seq), Wrote(c, t, mem.seq)
  PROVE  StoreInv' /\ Documents' = [Documents EXCEPT ![c] = Range(t)]
<1> DEFINE n == mem.seq
<1>1. n \in Nat /\ n >= mem.seq /\ SliceOK(c, t, n) /\ Wrote(c, t, n)
  BY StoreFacts
<1> HIDE DEF n
<1> QED
  BY <1>1, WriteSlice

\* The id of a new record is greater than every other.
LEMMA AppendKeeps ==
  ASSUME NEW c \in Slices, NEW s, NEW m \in Nat, SliceOK(c, s, m),
         NEW doc \in Doc(c), doc.id = m + 1,
         NEW t \in Seq(Doc(c)), DOMAIN t = 1..(Len(s) + 1),
         \A i \in DOMAIN s : t[i] = s[i],
         t[Len(s) + 1] = doc
  PROVE  SliceOK(c, t, m + 1)
<1>1. /\ Len(s) \in Nat /\ DOMAIN s = 1..Len(s)
      /\ IdsDiffer(s)
      /\ \A i \in DOMAIN s : s[i].id \in Nat /\ s[i].id <= m
  BY SliceFacts
<1>2. \A i \in DOMAIN t : i \in DOMAIN s \/ (i = Len(s) + 1)
  BY <1>1
<1>3. \A i \in DOMAIN s : t[i].id = s[i].id
  OBVIOUS
<1>4. t[Len(s) + 1].id = m + 1
  OBVIOUS
<1>5. \A i \in DOMAIN t : t[i].id <= m + 1
  BY <1>1, <1>2, <1>3, <1>4
<1>6. IdsDiffer(t)
  BY <1>1, <1>2, <1>3, <1>4 DEF IdsDiffer
<1> QED
  BY <1>5, <1>6 DEF SliceOK

\* A record is inserted under a fresh id.
LEMMA AppendStep ==
  ASSUME StoreInv, NEW c \in Slices, NEW n, n = mem.seq + 1,
         NEW doc \in Doc(c), doc.id = n, mem.seq < MaxId,
         NEW t, t = Append(mem[c], doc), Wrote(c, t, n)
  PROVE  /\ StoreInv'
         /\ Documents' = [Documents EXCEPT ![c] = Documents[c] \cup {doc}]
         /\ n \in Mongo!Fresh
         /\ mem'.seq = n
<1>1. /\ mem.seq \in Nat /\ n \in Nat /\ n >= mem.seq /\ SliceOK(c, mem[c], mem.seq)
      /\ mem = [f \in Fields |-> mem[f]]
  BY StoreFacts
<1>2. mem[c] \in Seq(Doc(c)) /\ Len(mem[c]) \in Nat /\ DOMAIN mem[c] = 1..Len(mem[c])
  BY <1>1, SliceFacts
<1>3. /\ t \in Seq(Doc(c)) /\ DOMAIN t = 1..(Len(mem[c]) + 1)
      /\ \A i \in DOMAIN mem[c] : t[i] = mem[c][i]
      /\ t[Len(mem[c]) + 1] = doc /\ Range(t) = Range(mem[c]) \cup {doc}
  <2> DEFINE S == Doc(c)
  <2> DEFINE s == mem[c]
  <2>1. s \in Seq(S) /\ doc \in S
    BY <1>2
  <2> HIDE DEF S, s
  <2>2. /\ Append(s, doc) \in Seq(S)
        /\ DOMAIN Append(s, doc) = 1..(Len(s) + 1)
        /\ \A i \in DOMAIN s : Append(s, doc)[i] = s[i]
        /\ Append(s, doc)[Len(s) + 1] = doc
        /\ Range(Append(s, doc)) = Range(s) \cup {doc}
    BY <2>1, AppendIs
  <2>3. t = Append(s, doc)
    BY DEF s
  <2> QED
    BY <2>2, <2>3, Zenon DEF S, s
<1>4. SliceOK(c, t, n)
  <2>1. SliceOK(c, t, mem.seq + 1)
    BY <1>1, <1>3, AppendKeeps
  <2> QED
    BY <2>1
<1>5. StoreInv' /\ Documents' = [Documents EXCEPT ![c] = Range(t)]
  BY <1>1, <1>4, WriteSlice
<1>6. Documents[c] = Range(mem[c])
  BY DEF Documents
<1>7. mem'.seq = n
  BY DEF Wrote
<1>8. n \in Mongo!Fresh
  BY <1>1, MemStoreAssumption DEF Mongo!Fresh, Mongo!Ids
<1> QED
  BY <1>1, <1>3, <1>5, <1>6, <1>7, <1>8

\* A record is replaced by one with its id.
LEMMA UpdateStep ==
  ASSUME StoreInv, NEW c \in Slices, NEW i \in DOMAIN mem[c], NEW x \in Doc(c),
         x.id = mem[c][i].id, NEW t, t = [mem[c] EXCEPT ![i] = x], Wrote(c, t, mem.seq)
  PROVE  /\ StoreInv'
         /\ Documents' = [Documents EXCEPT ![c] = (Documents[c] \ {mem[c][i]}) \cup {x}]
         /\ mem[c][i] \in Documents[c]
         /\ mem'.seq = mem.seq
<1>1. mem.seq \in Nat /\ SliceOK(c, mem[c], mem.seq) /\ mem = [f \in Fields |-> mem[f]]
  BY StoreFacts
<1>2. /\ mem[c] \in Seq(Doc(c)) /\ IdsDiffer(mem[c])
      /\ \A j \in DOMAIN mem[c] : mem[c][j].id <= mem.seq
  BY <1>1 DEF SliceOK
<1>3. /\ t \in Seq(Doc(c)) /\ DOMAIN t = DOMAIN mem[c] /\ IdsDiffer(t)
      /\ Range(t) = (Range(mem[c]) \ {mem[c][i]}) \cup {x}
  BY <1>2, UpdateIs
<1>4. \A j \in DOMAIN t : t[j].id <= mem.seq
  BY <1>2, <1>3
<1>5. SliceOK(c, t, mem.seq)
  BY <1>3, <1>4, SliceMade
<1>6. StoreInv' /\ Documents' = [Documents EXCEPT ![c] = Range(t)]
  BY <1>5, RewriteSlice
<1>7. Documents[c] = Range(mem[c])
  BY DEF Documents
<1>8. mem'.seq = mem.seq
  BY DEF Wrote
<1> QED
  BY <1>3, <1>6, <1>7, <1>8 DEF Range

\* The ids given out, with one more.
LEMMA IntervalGrows ==
  ASSUME NEW m \in Nat
  PROVE  1..(m + 1) = (1..m) \cup {m + 1}
OBVIOUS

\* Append1 inserts one document.
LEMMA FromAppend ==
  ASSUME StoreInv, NEW c \in Slices, NEW op, NEW doc \in Doc(c), doc.id = Id,
         Append1(op, c, doc)
  PROVE  /\ StoreInv'
         /\ Documents' = [Documents EXCEPT ![c] = Documents[c] \cup {doc}]
         /\ doc.id \in Mongo!Fresh
         /\ (1..mem.seq)' = (1..mem.seq) \cup {doc.id}
         /\ now' = now
         /\ ans' = [op |-> op, err |-> "none", docs |-> <<doc>>, n |-> 1]
<1> DEFINE t == Append(mem[c], doc)
<1> DEFINE n == mem.seq + 1
<1>1. /\ mem.seq < MaxId
      /\ mem' = [mem EXCEPT ![c] = t, !.seq = n]
      /\ now' = now
      /\ ans' = [op |-> op, err |-> "none", docs |-> <<doc>>, n |-> 1]
      /\ t = Append(mem[c], doc) /\ n = mem.seq + 1 /\ doc.id = n
  BY DEF Append1, Return, Id
<1> HIDE DEF t, n
<1>2. mem = [f \in Fields |-> mem[f]] /\ mem.seq \in Nat
  BY StoreFacts
<1>3. Wrote(c, t, n)
  BY <1>1, <1>2, FieldsDiffer DEF Wrote
<1>4. /\ StoreInv'
      /\ Documents' = [Documents EXCEPT ![c] = Documents[c] \cup {doc}]
      /\ n \in Mongo!Fresh
      /\ mem'.seq = n
  BY <1>1, <1>3, AppendStep
<1>5. (1..mem.seq)' = (1..mem.seq) \cup {n}
  <2>1. (1..mem.seq)' = 1..n
    BY <1>4
  <2>2. n = mem.seq + 1
    BY <1>1
  <2>3. 1..(mem.seq + 1) = (1..mem.seq) \cup {mem.seq + 1}
    BY <1>2, IntervalGrows
  <2> QED
    BY <2>1, <2>2, <2>3, Zenon
<1> QED
  BY <1>1, <1>4, <1>5

\* Changing a place replaces one document.
LEMMA FromChange ==
  ASSUME StoreInv, NEW c \in Slices, NEW i \in DOMAIN mem[c], NEW x \in Doc(c),
         x.id = mem[c][i].id,
         mem' = [mem EXCEPT ![c][i] = x], now' = now
  PROVE  StoreInv' /\ Mongo!Store(c, (Documents[c] \ {mem[c][i]}) \cup {x})
<1> DEFINE t == [mem[c] EXCEPT ![i] = x]
<1>1. mem = [f \in Fields |-> mem[f]]
  BY StoreFacts
<1>2. mem' = [mem EXCEPT ![c] = t] /\ t = [mem[c] EXCEPT ![i] = x]
  BY <1>1, FieldsDiffer
<1> HIDE DEF t
<1>3. Wrote(c, t, mem.seq)
  BY <1>1, <1>2, FieldsDiffer DEF Wrote
<1>4. /\ StoreInv'
      /\ Documents' = [Documents EXCEPT ![c] = (Documents[c] \ {mem[c][i]}) \cup {x}]
      /\ mem[c][i] \in Documents[c]
      /\ mem'.seq = mem.seq
  BY <1>2, <1>3, UpdateStep
<1>5. (1..mem.seq)' = 1..mem.seq
  BY <1>4
<1> QED
  BY <1>4, <1>5 DEF Mongo!Store, Mongo!Write

\* An operation that fails changes nothing.
LEMMA Failing ==
  ASSUME StoreInv, NEW op, NEW err, Fail(op, err)
  PROVE  StoreInv' /\ Mongo!Refuse(op, err)
<1>1. /\ mem' = mem /\ now' = now
      /\ ans' = [op |-> op, err |-> err, docs |-> << >>, n |-> 0]
  BY DEF Fail
<1>2. StoreInv'
  BY <1>1 DEF StoreInv
<1>3. Documents' = Documents
  BY <1>1 DEF Documents
<1>4. (1..mem.seq)' = 1..mem.seq
  BY <1>1
<1> QED
  BY <1>1, <1>2, <1>3, <1>4 DEF Mongo!Refuse

\* A set of numbers has a least one.
LEMMA Least ==
  ASSUME NEW S \in SUBSET Nat, S # {}
  PROVE  Min(S) \in S /\ \A k \in S : Min(S) <= k
<1>1. PICK x \in S : \A y \in S : ~ (<<y, x>> \in OpToRel(<, Nat))
  BY NatLessThanWellFounded, WFMin
<1>2. ASSUME NEW y \in S PROVE x <= y
  <2>1. ~ (<<y, x>> \in {ss \in Nat \X Nat : ss[1] < ss[2]})
    BY <1>1 DEF OpToRel
  <2>2. <<y, x>> \in Nat \X Nat /\ <<y, x>>[1] = y /\ <<y, x>>[2] = x
    OBVIOUS
  <2> QED
    BY <2>1, <2>2
<1> QED
  BY <1>2 DEF Min

\* What SelectInSeq makes of the places that match.
Place(I) == IF I # {} THEN Min(I) ELSE 0

\* The place is the least that matches, and 0 when none does.
LEMMA PlaceIs ==
  ASSUME NEW s, NEW n \in Nat, DOMAIN s = 1..n, NEW I \in SUBSET (1..n)
  PROVE  /\ Place(I) = 0 <=> I = {}
         /\ I # {} => Place(I) \in DOMAIN s /\ Place(I) \in I /\ \A k \in I : Place(I) <= k
<1>1. I # {} => Min(I) \in I /\ \A k \in I : Min(I) <= k
  <2>1. I \in SUBSET Nat
    OBVIOUS
  <2> QED
    BY <2>1, Least
<1>2. CASE I = {}
  BY <1>2 DEF Place
<1>3. CASE I # {}
  <2>1. Place(I) = Min(I)
    BY <1>3 DEF Place
  <2>2. Min(I) \in I
    BY <1>1, <1>3
  <2>3. Min(I) \in 1..n
    BY <2>2
  <2>4. Min(I) # 0
    BY <2>3
  <2> QED
    BY <1>1, <1>3, <2>1, <2>2, <2>3, <2>4
<1> QED
  BY <1>2, <1>3

\* The documents of a slice are its elements.
LEMMA SliceDocs ==
  ASSUME StoreInv, NEW c \in Slices
  PROVE  /\ Documents[c] = Range(mem[c])
         /\ Len(mem[c]) \in Nat /\ DOMAIN mem[c] = 1..Len(mem[c])
         /\ \A i \in 1..Len(mem[c]) : mem[c][i] \in Documents[c] /\ mem[c][i] \in Doc(c)
         /\ \A d \in Documents[c] : d \in Doc(c) /\ \E i \in 1..Len(mem[c]) : mem[c][i] = d
<1>1. mem.seq \in Nat /\ SliceOK(c, mem[c], mem.seq)
  BY StoreFacts
<1>2. /\ Len(mem[c]) \in Nat /\ DOMAIN mem[c] = 1..Len(mem[c])
      /\ \A i \in DOMAIN mem[c] : mem[c][i] \in Doc(c)
  BY <1>1, SliceFacts
<1>3. Documents[c] = Range(mem[c])
  BY DEF Documents
<1> QED
  BY <1>2, <1>3 DEF Range

\* First finds a document of the collection.
LEMMA FirstIs ==
  ASSUME StoreInv, NEW c \in Slices, NEW I \in SUBSET (1..Len(mem[c])), NEW i, i = Place(I)
  PROVE  /\ i = 0 <=> I = {}
         /\ i # 0 => i \in I /\ i \in DOMAIN mem[c] /\ mem[c][i] \in Documents[c]
                     /\ mem[c][i] \in Doc(c)
<1>1. /\ Len(mem[c]) \in Nat /\ DOMAIN mem[c] = 1..Len(mem[c])
      /\ \A k \in 1..Len(mem[c]) : mem[c][k] \in Documents[c] /\ mem[c][k] \in Doc(c)
  BY SliceDocs
<1>2. /\ Place(I) = 0 <=> I = {}
      /\ I # {} => Place(I) \in DOMAIN mem[c] /\ Place(I) \in I
  BY <1>1, PlaceIs
<1> QED
  BY <1>1, <1>2

\* FindId finds the only document with the id.
LEMMA FindIdIs ==
  ASSUME StoreInv, NEW c \in Slices, NEW id, NEW i, i = FindId(c, id)
  PROVE  /\ i # 0 => i \in DOMAIN mem[c]
         /\ i = 0 => Mongo!WithId(c, id) = {}
         /\ i # 0 => /\ mem[c][i].id = id
                     /\ Mongo!WithId(c, id) = {mem[c][i]}
<1> DEFINE s == mem[c]
<1> DEFINE I == {k \in 1..Len(s) : s[k].id = id}
<1>1. i = Place(I)
  BY DEF FindId, First, SelectInSeq, Place
<1>2. /\ Documents[c] = Range(s) /\ Len(s) \in Nat /\ DOMAIN s = 1..Len(s)
      /\ \A k \in 1..Len(s) : s[k] \in Documents[c]
      /\ \A d \in Documents[c] : \E k \in 1..Len(s) : s[k] = d
  BY SliceDocs
<1>3. IdsDiffer(s)
  BY StoreFacts DEF SliceOK
<1>4. Mongo!WithId(c, id) = {d \in Documents[c] : d.id = id}
  BY DEF Mongo!WithId
<1> HIDE DEF s
<1>5. /\ Place(I) = 0 <=> I = {}
      /\ I # {} => Place(I) \in DOMAIN s /\ Place(I) \in I
  BY <1>2, PlaceIs
<1>6. CASE I = {}
  BY <1>1, <1>2, <1>4, <1>5, <1>6
<1>7. CASE I # {}
  <2>1. i # 0 /\ i \in DOMAIN s /\ s[i].id = id
    BY <1>1, <1>5, <1>7
  <2>2. \A d \in Documents[c] : d.id = id => d = s[i]
    BY <1>2, <1>3, <2>1 DEF IdsDiffer
  <2>3. Mongo!WithId(c, id) = {s[i]}
    BY <1>2, <1>4, <2>1, <2>2
  <2> QED
    BY <2>1, <2>3 DEF s
<1> QED
  BY <1>6, <1>7

\* Change and ChangeAndGet, of the document x.
ChangeTo(op, c, i, x, docs) ==
  IF i = 0 THEN Fail(op, "ErrNotFound")
  ELSE mem' = [mem EXCEPT ![c][i] = x] /\ now' = now
       /\ ans' = [op |-> op, err |-> "none", docs |-> docs, n |-> 1]

\* MongoDB changes the document d.
MongoChanges(op, c, d, x, docs) ==
  /\ d \in Documents[c]
  /\ Mongo!Reply(op, docs, 1)
  /\ Mongo!Store(c, (Documents[c] \ {d}) \cup {x})

\* A change at a place that was found is one of MongoDB's.
LEMMA ByPlace ==
  ASSUME StoreInv, NEW c \in Slices, NEW op, NEW docs, NEW x,
         NEW i, i # 0 => i \in DOMAIN mem[c],
         i # 0 /\ mem[c][i] \in Doc(c) => x \in Doc(c) /\ x.id = mem[c][i].id,
         ChangeTo(op, c, i, x, docs)
  PROVE  /\ StoreInv'
         /\ i = 0 => Mongo!Refuse(op, "ErrNotFound")
         /\ i # 0 => MongoChanges(op, c, mem[c][i], x, docs)
<1>1. CASE i = 0
  BY <1>1, Failing DEF ChangeTo
<1>2. CASE i # 0
  <2>1. mem[c][i] \in Documents[c] /\ mem[c][i] \in Doc(c)
    BY <1>2, SliceDocs
  <2>2. /\ mem' = [mem EXCEPT ![c][i] = x] /\ now' = now
        /\ ans' = [op |-> op, err |-> "none", docs |-> docs, n |-> 1]
    BY <1>2 DEF ChangeTo
  <2>3. StoreInv' /\ Mongo!Store(c, (Documents[c] \ {mem[c][i]}) \cup {x})
    BY <1>2, <2>1, <2>2, FromChange
  <2> QED
    BY <1>2, <2>1, <2>2, <2>3 DEF MongoChanges, Mongo!Reply
<1> QED
  BY <1>1, <1>2

\* A change of the record with an id is one of MongoDB's.
LEMMA ById ==
  ASSUME StoreInv, NEW c \in Slices, NEW op, NEW docs, NEW x, NEW id,
         NEW i, i = FindId(c, id),
         i # 0 /\ mem[c][i] \in Doc(c) => x \in Doc(c) /\ x.id = mem[c][i].id,
         ChangeTo(op, c, i, x, docs)
  PROVE  /\ StoreInv'
         /\ \/ Mongo!WithId(c, id) = {} /\ Mongo!Refuse(op, "ErrNotFound")
            \/ /\ Mongo!WithId(c, id) = {mem[c][i]}
               /\ MongoChanges(op, c, mem[c][i], x, docs)
BY FindIdIs, ByPlace

-----------------------------------------------------------------------------
(* An operation that makes a record.                                       *)

\* Times are numbers.
LEMMA TimesIs == Mongo!Times \subseteq Int /\ Mongo!Never \in Int
BY MemStoreAssumption DEF Mongo!Times, Mongo!Never

LEMMA CreateEventStep ==
  ASSUME StoreInv, NEW workspace \in Names, NEW starts \in Mongo!Times,
         CreateEvent(workspace, starts)
  PROVE  StoreInv' /\ Mongo!CreateEvent(workspace, starts)
<1> DEFINE doc == [id |-> Id, workspace |-> workspace, starts |-> starts, status |-> "open",
                   channel |-> 0, messages |-> 0, count |-> 0]
<1>1. doc \in Doc("events")
  BY StoreFacts, MemStoreAssumption DEF Doc, Mongo!EventStatuses, Counts
<1>2. Append1("CreateEvent", "events", doc) /\ doc.id = Id /\ "events" \in Slices
  BY DEF CreateEvent, Slices
<1> HIDE DEF doc
<1>3. /\ StoreInv'
      /\ Documents' = [Documents EXCEPT !["events"] = Documents["events"] \cup {doc}]
      /\ doc.id \in Mongo!Fresh
      /\ (1..mem.seq)' = (1..mem.seq) \cup {doc.id}
      /\ now' = now
      /\ ans' = [op |-> "CreateEvent", err |-> "none", docs |-> <<doc>>, n |-> 1]
  BY <1>1, <1>2, FromAppend
<1>4. doc = [id |-> doc.id, workspace |-> workspace, starts |-> starts, status |-> "open",
             channel |-> Mongo!None, messages |-> 0, count |-> 0]
  BY DEF doc, Mongo!None
<1> QED
  BY <1>3, <1>4 DEF Mongo!CreateEvent, Mongo!Insert, Mongo!Write, Mongo!Reply

-----------------------------------------------------------------------------
(* The operations that change the record with an id.                       *)

LEMMA UpdateEventStep ==
  ASSUME StoreInv, NEW id, NEW starts \in Mongo!Times, NEW status \in Mongo!EventStatuses,
         UpdateEvent(id, starts, status)
  PROVE  StoreInv' /\ Mongo!UpdateEvent(id, starts, status)
<1> DEFINE i == FindId("events", id)
<1> DEFINE d == mem["events"][i]
<1> DEFINE x == [d EXCEPT !.starts = starts, !.status = status]
<1>1. "events" \in Slices /\ i = FindId("events", id)
  BY DEF Slices
<1>2. d \in Doc("events") => x \in Doc("events") /\ x.id = d.id
  BY MemStoreAssumption, TimesIs DEF Doc
<1>3. ChangeTo("UpdateEvent", "events", i, x, << >>)
  BY DEF UpdateEvent, FindEvent, Change, Return, ChangeTo
<1> HIDE DEF i
<1>4. /\ StoreInv'
      /\ \/ Mongo!WithId("events", id) = {} /\ Mongo!Refuse("UpdateEvent", "ErrNotFound")
         \/ /\ Mongo!WithId("events", id) = {d}
            /\ MongoChanges("UpdateEvent", "events", d, x, << >>)
  <2> HIDE DEF x
  <2> QED
    BY <1>1, <1>2, <1>3, ById
<1> QED
  BY <1>4 DEF Mongo!UpdateEvent, Mongo!ChangeEvent, Mongo!UpdateOne, MongoChanges

LEMMA SetChannelStep ==
  ASSUME StoreInv, NEW id, NEW channel \in Names,
         SetChannel(id, channel)
  PROVE  StoreInv' /\ Mongo!SetChannel(id, channel)
<1> DEFINE i == FindId("events", id)
<1> DEFINE d == mem["events"][i]
<1> DEFINE x == [d EXCEPT !.channel = channel]
<1>1. "events" \in Slices /\ i = FindId("events", id)
  BY DEF Slices
<1>2. d \in Doc("events") => x \in Doc("events") /\ x.id = d.id
  BY MemStoreAssumption, TimesIs DEF Doc
<1>3. ChangeTo("SetChannel", "events", i, x, << >>)
  BY DEF SetChannel, FindEvent, Change, Return, ChangeTo
<1> HIDE DEF i
<1>4. /\ StoreInv'
      /\ \/ Mongo!WithId("events", id) = {} /\ Mongo!Refuse("SetChannel", "ErrNotFound")
         \/ /\ Mongo!WithId("events", id) = {d}
            /\ MongoChanges("SetChannel", "events", d, x, << >>)
  <2> HIDE DEF x
  <2> QED
    BY <1>1, <1>2, <1>3, ById
<1> QED
  BY <1>4 DEF Mongo!SetChannel, Mongo!ChangeEvent, Mongo!UpdateOne, MongoChanges

LEMMA SetMessagesStep ==
  ASSUME StoreInv, NEW id, NEW n \in Counts,
         SetMessages(id, n)
  PROVE  StoreInv' /\ Mongo!SetMessages(id, n)
<1> DEFINE i == FindId("events", id)
<1> DEFINE d == mem["events"][i]
<1> DEFINE x == [d EXCEPT !.messages = n]
<1>1. "events" \in Slices /\ i = FindId("events", id)
  BY DEF Slices
<1>2. d \in Doc("events") => x \in Doc("events") /\ x.id = d.id
  BY MemStoreAssumption, TimesIs DEF Doc
<1>3. ChangeTo("SetMessages", "events", i, x, << >>)
  BY DEF SetMessages, FindEvent, Change, Return, ChangeTo
<1> HIDE DEF i
<1>4. /\ StoreInv'
      /\ \/ Mongo!WithId("events", id) = {} /\ Mongo!Refuse("SetMessages", "ErrNotFound")
         \/ /\ Mongo!WithId("events", id) = {d}
            /\ MongoChanges("SetMessages", "events", d, x, << >>)
  <2> HIDE DEF x
  <2> QED
    BY <1>1, <1>2, <1>3, ById
<1> QED
  BY <1>4 DEF Mongo!SetMessages, Mongo!ChangeEvent, Mongo!UpdateOne, MongoChanges

LEMMA AddParticipantCountStep ==
  ASSUME StoreInv, NEW id, NEW delta \in {-1, 1},
         AddParticipantCount(id, delta)
  PROVE  StoreInv' /\ Mongo!AddParticipantCount(id, delta)
<1> DEFINE i == FindId("events", id)
<1> DEFINE d == mem["events"][i]
<1> DEFINE x == [d EXCEPT !.count = @ + delta]
<1>1. "events" \in Slices /\ i = FindId("events", id)
  BY DEF Slices
<1>2. i # 0 /\ d \in Doc("events") => x \in Doc("events") /\ x.id = d.id
  <2> SUFFICES ASSUME i # 0, d \in Doc("events") PROVE x \in Doc("events") /\ x.id = d.id
    OBVIOUS
  <2>1. d \in Range(mem.events) /\ d.id = id
    BY <1>1, FindIdIs DEF Range
  <2>2. \A e \in Range(mem.events) : e.id = id => e.count + delta \in 0..MaxCount
    BY DEF AddParticipantCount
  <2>3. d.count + delta \in Counts
    BY <2>1, <2>2, MemStoreAssumption DEF Doc, Counts
  <2> HIDE DEF i, d
  <2> QED
    BY <2>3, TimesIs DEF Doc, Mongo!Never
<1>3. ChangeTo("AddParticipantCount", "events", i, x, << >>)
  BY DEF AddParticipantCount, FindEvent, Change, Return, ChangeTo
<1> HIDE DEF i
<1>4. /\ StoreInv'
      /\ \/ Mongo!WithId("events", id) = {} /\ Mongo!Refuse("AddParticipantCount", "ErrNotFound")
         \/ /\ Mongo!WithId("events", id) = {d}
            /\ MongoChanges("AddParticipantCount", "events", d, x, << >>)
  <2> HIDE DEF x
  <2> QED
    BY <1>1, <1>2, <1>3, ById
<1> QED
  BY <1>4 DEF Mongo!AddParticipantCount, Mongo!ChangeEvent, Mongo!UpdateOne, MongoChanges

LEMMA SetStatusStep ==
  ASSUME StoreInv, NEW id, NEW status \in Mongo!PartStatuses,
         SetStatus(id, status)
  PROVE  StoreInv' /\ Mongo!SetStatus(id, status)
<1> DEFINE i == FindId("participations", id)
<1> DEFINE d == mem["participations"][i]
<1> DEFINE x == [d EXCEPT !.status = status,
                          !.expires = IF status # "active" THEN Mongo!Never ELSE @]
<1>1. "participations" \in Slices /\ i = FindId("participations", id)
  BY DEF Slices
<1>2. d \in Doc("participations") => x \in Doc("participations") /\ x.id = d.id
  BY MemStoreAssumption, TimesIs DEF Doc, Dates
<1>3. ChangeTo("SetStatus", "participations", i, x, << >>)
  BY DEF SetStatus, Change, Return, ChangeTo
<1> HIDE DEF i
<1>4. /\ StoreInv'
      /\ \/ Mongo!WithId("participations", id) = {} /\ Mongo!Refuse("SetStatus", "ErrNotFound")
         \/ /\ Mongo!WithId("participations", id) = {d}
            /\ MongoChanges("SetStatus", "participations", d, x, << >>)
  <2> HIDE DEF x
  <2> QED
    BY <1>1, <1>2, <1>3, ById
<1> QED
  BY <1>4 DEF Mongo!SetStatus, Mongo!UpdateOne, MongoChanges

LEMMA CompleteStep ==
  ASSUME StoreInv, NEW id,
         Complete(id)
  PROVE  StoreInv' /\ Mongo!Complete(id)
<1> DEFINE i == FindId("jobs", id)
<1> DEFINE d == mem["jobs"][i]
<1> DEFINE x == [d EXCEPT !.status = "done", !.finished = now, !.lease = Mongo!Never]
<1>1. "jobs" \in Slices /\ i = FindId("jobs", id)
  BY DEF Slices
<1>2. d \in Doc("jobs") => x \in Doc("jobs") /\ x.id = d.id
  BY MemStoreAssumption, TimesIs DEF Doc, Dates, Mongo!Never, StoreInv
<1>3. ChangeTo("Complete", "jobs", i, x, << >>)
  BY DEF Complete, UpdateJob, Change, Return, ChangeTo
<1> HIDE DEF i
<1>4. /\ StoreInv'
      /\ \/ Mongo!WithId("jobs", id) = {} /\ Mongo!Refuse("Complete", "ErrNotFound")
         \/ /\ Mongo!WithId("jobs", id) = {d}
            /\ MongoChanges("Complete", "jobs", d, x, << >>)
  <2> HIDE DEF x
  <2> QED
    BY <1>1, <1>2, <1>3, ById
<1> QED
  BY <1>4 DEF Mongo!Complete, Mongo!ChangeJob, Mongo!UpdateOne, MongoChanges

LEMMA FailJobStep ==
  ASSUME StoreInv, NEW id,
         FailJob(id)
  PROVE  StoreInv' /\ Mongo!Fail(id)
<1> DEFINE i == FindId("jobs", id)
<1> DEFINE d == mem["jobs"][i]
<1> DEFINE x == [d EXCEPT !.status = "failed", !.finished = now, !.lease = Mongo!Never]
<1>1. "jobs" \in Slices /\ i = FindId("jobs", id)
  BY DEF Slices
<1>2. d \in Doc("jobs") => x \in Doc("jobs") /\ x.id = d.id
  BY MemStoreAssumption, TimesIs DEF Doc, Dates, Mongo!Never, StoreInv
<1>3. ChangeTo("Fail", "jobs", i, x, << >>)
  BY DEF FailJob, UpdateJob, Change, Return, ChangeTo
<1> HIDE DEF i
<1>4. /\ StoreInv'
      /\ \/ Mongo!WithId("jobs", id) = {} /\ Mongo!Refuse("Fail", "ErrNotFound")
         \/ /\ Mongo!WithId("jobs", id) = {d}
            /\ MongoChanges("Fail", "jobs", d, x, << >>)
  <2> HIDE DEF x
  <2> QED
    BY <1>1, <1>2, <1>3, ById
<1> QED
  BY <1>4 DEF Mongo!Fail, Mongo!ChangeJob, Mongo!UpdateOne, MongoChanges

LEMMA RetryStep ==
  ASSUME StoreInv, NEW id, NEW runAt \in Mongo!Times,
         Retry(id, runAt)
  PROVE  StoreInv' /\ Mongo!Retry(id, runAt)
<1> DEFINE i == FindId("jobs", id)
<1> DEFINE d == mem["jobs"][i]
<1> DEFINE x == [d EXCEPT !.status = "pending", !.runAt = runAt, !.lease = Mongo!Never]
<1>1. "jobs" \in Slices /\ i = FindId("jobs", id)
  BY DEF Slices
<1>2. d \in Doc("jobs") => x \in Doc("jobs") /\ x.id = d.id
  BY MemStoreAssumption, TimesIs DEF Doc, Dates, Mongo!Never, StoreInv
<1>3. ChangeTo("Retry", "jobs", i, x, << >>)
  BY DEF Retry, UpdateJob, Change, Return, ChangeTo
<1> HIDE DEF i
<1>4. /\ StoreInv'
      /\ \/ Mongo!WithId("jobs", id) = {} /\ Mongo!Refuse("Retry", "ErrNotFound")
         \/ /\ Mongo!WithId("jobs", id) = {d}
            /\ MongoChanges("Retry", "jobs", d, x, << >>)
  <2> HIDE DEF x
  <2> QED
    BY <1>1, <1>2, <1>3, ById
<1> QED
  BY <1>4 DEF Mongo!Retry, Mongo!ChangeJob, Mongo!UpdateOne, MongoChanges

LEMMA RescheduleStep ==
  ASSUME StoreInv, NEW id, NEW runAt \in Mongo!Times,
         Reschedule(id, runAt)
  PROVE  StoreInv' /\ Mongo!Reschedule(id, runAt)
<1> DEFINE i == FindId("jobs", id)
<1> DEFINE d == mem["jobs"][i]
<1> DEFINE x == [d EXCEPT !.status = "pending", !.runAt = runAt, !.lease = Mongo!Never,
                          !.attempts = @ - 1]
<1>1. "jobs" \in Slices /\ i = FindId("jobs", id)
  BY DEF Slices
<1>2. i # 0 /\ d \in Doc("jobs") => x \in Doc("jobs") /\ x.id = d.id
  <2> SUFFICES ASSUME i # 0, d \in Doc("jobs") PROVE x \in Doc("jobs") /\ x.id = d.id
    OBVIOUS
  <2>1. d \in Range(mem.jobs) /\ d.id = id
    BY <1>1, FindIdIs DEF Range
  <2>2. \A j \in Range(mem.jobs) : j.id = id => j.attempts > 0
    BY DEF Reschedule
  <2>3. d.attempts - 1 \in Counts
    BY <2>1, <2>2, MemStoreAssumption DEF Doc, Counts, Mongo!Never
  <2> HIDE DEF i, d
  <2> QED
    BY <2>3, TimesIs DEF Doc, Mongo!Never
<1>3. ChangeTo("Reschedule", "jobs", i, x, << >>)
  BY DEF Reschedule, UpdateJob, Change, Return, ChangeTo
<1> HIDE DEF i
<1>4. /\ StoreInv'
      /\ \/ Mongo!WithId("jobs", id) = {} /\ Mongo!Refuse("Reschedule", "ErrNotFound")
         \/ /\ Mongo!WithId("jobs", id) = {d}
            /\ MongoChanges("Reschedule", "jobs", d, x, << >>)
  <2> HIDE DEF x
  <2> QED
    BY <1>1, <1>2, <1>3, ById
<1> QED
  BY <1>4 DEF Mongo!Reschedule, Mongo!ChangeJob, Mongo!UpdateOne, MongoChanges

LEMMA TouchLoginStep ==
  ASSUME StoreInv, NEW id,
         TouchLogin(id)
  PROVE  StoreInv' /\ Mongo!TouchLogin(id)
<1> DEFINE i == FindId("users", id)
<1> DEFINE d == mem["users"][i]
<1> DEFINE x == [d EXCEPT !.login = now]
<1>1. "users" \in Slices /\ i = FindId("users", id)
  BY DEF Slices
<1>2. d \in Doc("users") => x \in Doc("users") /\ x.id = d.id
  BY MemStoreAssumption, TimesIs DEF Doc, StoreInv
<1>3. ChangeTo("TouchLogin", "users", i, x, << >>)
  BY DEF TouchLogin, Change, Return, ChangeTo
<1> HIDE DEF i
<1>4. /\ StoreInv'
      /\ \/ Mongo!WithId("users", id) = {} /\ Mongo!Refuse("TouchLogin", "ErrNotFound")
         \/ /\ Mongo!WithId("users", id) = {d}
            /\ MongoChanges("TouchLogin", "users", d, x, << >>)
  <2> HIDE DEF x
  <2> QED
    BY <1>1, <1>2, <1>3, ById
<1> QED
  BY <1>4 DEF Mongo!TouchLogin, Mongo!UpdateOne, MongoChanges

LEMMA UpdateSettingsStep ==
  ASSUME StoreInv, NEW id, NEW s \in Settings,
         UpdateSettings(id, s)
  PROVE  StoreInv' /\ Mongo!UpdateSettings(id, s)
<1> DEFINE i == FindId("workspaces", id)
<1> DEFINE d == mem["workspaces"][i]
<1> DEFINE x == [d EXCEPT !.settings = s]
<1>1. "workspaces" \in Slices /\ i = FindId("workspaces", id)
  BY DEF Slices
<1>2. d \in Doc("workspaces") => x \in Doc("workspaces") /\ x.id = d.id
  BY MemStoreAssumption, TimesIs DEF Doc
<1>3. ChangeTo("UpdateSettings", "workspaces", i, x, <<x>>)
  BY DEF UpdateSettings, ChangeAndGet, Return, ChangeTo
<1> HIDE DEF i
<1>4. /\ StoreInv'
      /\ \/ Mongo!WithId("workspaces", id) = {} /\ Mongo!Refuse("UpdateSettings", "ErrNotFound")
         \/ /\ Mongo!WithId("workspaces", id) = {d}
            /\ MongoChanges("UpdateSettings", "workspaces", d, x, <<x>>)
  <2> HIDE DEF x
  <2> QED
    BY <1>1, <1>2, <1>3, ById
<1> QED
  BY <1>4 DEF Mongo!UpdateSettings, Mongo!FindOneAndUpdate, MongoChanges

-----------------------------------------------------------------------------
(* The operations that look a record up by its key, and make it.           *)

\* The workspace with the key is renamed, or made.
LEMMA UpsertWorkspaceStep ==
  ASSUME StoreInv, NEW key \in Names, NEW name \in Names, UpsertWorkspace(key, name)
  PROVE  StoreInv' /\ Mongo!UpsertWorkspace(key, name)
<1> DEFINE I == {k \in 1..Len(mem["workspaces"]) : mem["workspaces"][k].key = key}
<1> DEFINE i == Place(I)
<1> DEFINE d == mem["workspaces"][i]
<1> DEFINE x == [d EXCEPT !.name = name]
<1>1. "workspaces" \in Slices /\ I \in SUBSET (1..Len(mem["workspaces"]))
  BY DEF Slices
<1>2. FindWorkspace(key) = i
  BY DEF FindWorkspace, First, SelectInSeq, Place
<1>3. /\ i = 0 <=> I = {}
      /\ i # 0 => /\ i \in I /\ i \in DOMAIN mem["workspaces"]
                  /\ d \in Documents["workspaces"] /\ d \in Doc("workspaces")
  BY <1>1, FirstIs
<1>4. Mongo!WithKey(key) = {e \in Documents["workspaces"] : e.key = key}
  BY DEF Mongo!WithKey
<1>5. CASE i # 0
  <2>1. ChangeTo("UpsertWorkspace", "workspaces", i, x, <<x>>)
    BY <1>2, <1>5 DEF UpsertWorkspace, ChangeAndGet, Return, ChangeTo
  <2>2. d \in Doc("workspaces") => x \in Doc("workspaces") /\ x.id = d.id
    BY DEF Doc
  <2>3. d \in Mongo!WithKey(key)
    BY <1>3, <1>4, <1>5
  <2> HIDE DEF i
  <2>4. StoreInv' /\ MongoChanges("UpsertWorkspace", "workspaces", d, x, <<x>>)
    <3> HIDE DEF x
    <3> QED
      BY <1>1, <1>3, <1>5, <2>1, <2>2, ByPlace
  <2> QED
    BY <2>3, <2>4 DEF Mongo!UpsertWorkspace, Mongo!FindOneAndUpdate, MongoChanges
<1>6. CASE i = 0
  <2>1. PICK s \in Settings :
          Append1("UpsertWorkspace", "workspaces",
                  [id |-> Id, key |-> key, name |-> name, settings |-> s])
    BY <1>2, <1>6 DEF UpsertWorkspace
  <2> DEFINE doc == [id |-> Id, key |-> key, name |-> name, settings |-> s]
  <2>2. doc \in Doc("workspaces") /\ doc.id = Id
    BY StoreFacts DEF Doc
  <2>3. Append1("UpsertWorkspace", "workspaces", doc)
    BY <2>1
  <2>4. doc = [id |-> doc.id, key |-> key, name |-> name, settings |-> s]
    OBVIOUS
  <2> HIDE DEF doc
  <2>5. /\ StoreInv'
        /\ Documents' = [Documents EXCEPT !["workspaces"] = Documents["workspaces"] \cup {doc}]
        /\ doc.id \in Mongo!Fresh
        /\ (1..mem.seq)' = (1..mem.seq) \cup {doc.id}
        /\ now' = now
        /\ ans' = [op |-> "UpsertWorkspace", err |-> "none", docs |-> <<doc>>, n |-> 1]
    BY <1>1, <2>2, <2>3, FromAppend
  <2>6. Mongo!WithKey(key) = {}
    <3>1. \A e \in Documents["workspaces"] : \E k \in 1..Len(mem["workspaces"]) :
            mem["workspaces"][k] = e
      BY <1>1, SliceDocs
    <3> QED
      BY <3>1, <1>3, <1>4, <1>6
  <2> QED
    BY <2>4, <2>5, <2>6
       DEF Mongo!UpsertWorkspace, Mongo!Insert, Mongo!Write, Mongo!Reply
<1> QED
  BY <1>5, <1>6

\* Both stores make the same of a participation when a button is pressed.
LEMMA PressedIs ==
  ASSUME NEW p \in Doc("participations"), NEW role \in Mongo!Roles, NEW expires \in Dates
  PROVE  /\ Pressed(p, role, expires) \in Doc("participations")
         /\ Pressed(p, role, expires).id = p.id
         /\ Pressed(p, role, expires) = Mongo!Pressed(p, role, expires)
<1> DEFINE q == [p EXCEPT !.status = "active"]
<1> DEFINE x == [q EXCEPT !.role = role, !.expires = expires,
                          !.peeks = @ + PeekIncrement(role)]
<1> DEFINE y == [p EXCEPT !.status = "active", !.role = role, !.expires = expires,
                          !.peeks = IF role = "peeker" THEN @ + 1 ELSE @]
<1>1. p \in [id : Nat, event : Names, user : Names, role : Mongo!Roles,
             status : Mongo!PartStatuses, joined : Mongo!Times, expires : Dates, peeks : Nat]
  BY DEF Doc
<1>2. q \in Doc("participations") /\ q.id = p.id /\ q.peeks = p.peeks /\ p.peeks \in Nat
  BY <1>1 DEF Doc, Mongo!PartStatuses
<1>3. p.status = "active" => q = p
  BY <1>1
<1>4. PeekIncrement(role) \in Nat
  BY DEF PeekIncrement
<1> DEFINE n == p.peeks + PeekIncrement(role)
<1>5. n \in Nat /\ n = IF role = "peeker" THEN p.peeks + 1 ELSE p.peeks
  BY <1>2, <1>4 DEF PeekIncrement
<1> DEFINE z == [p EXCEPT !.status = "active", !.role = role, !.expires = expires, !.peeks = n]
<1>6. x = z /\ y = z /\ z \in Doc("participations") /\ z.id = p.id
  <2>1. x = [q EXCEPT !.role = role, !.expires = expires, !.peeks = n]
    BY <1>1
  <2>2. y = [p EXCEPT !.status = "active", !.role = role, !.expires = expires, !.peeks = n]
    BY <1>5
  <2> HIDE DEF n
  <2>3. z \in Doc("participations") /\ z.id = p.id
    BY <1>1, <1>5 DEF Doc, Mongo!PartStatuses
  <2>4. x = z
    BY <1>1, <2>1
  <2> QED
    BY <2>2, <2>3, <2>4
<1>7. Pressed(p, role, expires) = IF p.role = "participant" /\ p.status = "active" THEN q ELSE x
  BY DEF Pressed, KeepsParticipant
<1>8. Mongo!Pressed(p, role, expires) =
        IF p.role = "participant" /\ p.status = "active" THEN p ELSE y
  BY DEF Mongo!Pressed
<1> HIDE DEF q, x, y, z
<1> QED
  BY <1>2, <1>3, <1>6, <1>7, <1>8

\* The participation of the user is pressed, or made.
LEMMA UpsertParticipationStep ==
  ASSUME StoreInv, NEW event \in Names, NEW user \in Names, NEW role \in Mongo!Roles,
         NEW expires \in Dates, UpsertParticipation(event, user, role, expires)
  PROVE  StoreInv' /\ Mongo!UpsertParticipation(event, user, role, expires)
<1> DEFINE I == {k \in 1..Len(mem["participations"]) :
                   /\ mem["participations"][k].event = event
                   /\ mem["participations"][k].user = user}
<1> DEFINE i == Place(I)
<1> DEFINE d == mem["participations"][i]
<1> DEFINE x == Pressed(d, role, expires)
<1>1. "participations" \in Slices /\ I \in SUBSET (1..Len(mem["participations"]))
  BY DEF Slices
<1>2. FindParticipation(event, user) = i
  BY DEF FindParticipation, First, SelectInSeq, Place
<1>3. /\ i = 0 <=> I = {}
      /\ i # 0 => /\ i \in I /\ i \in DOMAIN mem["participations"]
                  /\ d \in Documents["participations"] /\ d \in Doc("participations")
  BY <1>1, FirstIs
<1>4. Mongo!OfUser(event, user) =
        {e \in Documents["participations"] : e.event = event /\ e.user = user}
  BY DEF Mongo!OfUser
<1>5. CASE i # 0
  <2>1. ChangeTo("UpsertParticipation", "participations", i, x, <<d, x>>)
    BY <1>2, <1>5 DEF UpsertParticipation, Return, ChangeTo
  <2>2. d \in Doc("participations") =>
          /\ x \in Doc("participations") /\ x.id = d.id
          /\ x = Mongo!Pressed(d, role, expires)
    BY PressedIs
  <2>3. d \in Mongo!OfUser(event, user)
    BY <1>3, <1>4, <1>5
  <2> HIDE DEF i
  <2>4. StoreInv' /\ MongoChanges("UpsertParticipation", "participations", d, x, <<d, x>>)
    <3> HIDE DEF x
    <3> QED
      BY <1>1, <1>3, <1>5, <2>1, <2>2, ByPlace
  <2>5. x = Mongo!Pressed(d, role, expires)
    BY <1>3, <1>5, <2>2
  <2> HIDE DEF x, d
  <2> QED
    BY <2>3, <2>4, <2>5 DEF Mongo!UpsertParticipation, MongoChanges
<1>6. CASE i = 0
  <2> DEFINE doc == [id |-> Id, event |-> event, user |-> user, role |-> role,
                     status |-> "active", joined |-> now, expires |-> expires,
                     peeks |-> PeekIncrement(role)]
  <2>1. doc \in Doc("participations") /\ doc.id = Id
    BY StoreFacts DEF Doc, Mongo!PartStatuses, PeekIncrement, StoreInv
  <2>2. Append1("UpsertParticipation", "participations", doc)
    BY <1>2, <1>6 DEF UpsertParticipation
  <2>3. doc = [id |-> doc.id, event |-> event, user |-> user, role |-> role,
               status |-> "active", joined |-> now, expires |-> expires,
               peeks |-> IF role = "peeker" THEN 1 ELSE 0]
    BY DEF PeekIncrement
  <2> HIDE DEF doc
  <2>4. /\ StoreInv'
        /\ Documents' = [Documents EXCEPT !["participations"] =
                                            Documents["participations"] \cup {doc}]
        /\ doc.id \in Mongo!Fresh
        /\ (1..mem.seq)' = (1..mem.seq) \cup {doc.id}
        /\ now' = now
        /\ ans' = [op |-> "UpsertParticipation", err |-> "none", docs |-> <<doc>>, n |-> 1]
    BY <1>1, <2>1, <2>2, FromAppend
  <2>5. Mongo!OfUser(event, user) = {}
    <3>1. \A e \in Documents["participations"] : \E k \in 1..Len(mem["participations"]) :
            mem["participations"][k] = e
      BY <1>1, SliceDocs
    <3> QED
      BY <3>1, <1>3, <1>4, <1>6
  <2> QED
    BY <2>3, <2>4, <2>5
       DEF Mongo!UpsertParticipation, Mongo!Insert, Mongo!Write, Mongo!Reply
<1> QED
  BY <1>5, <1>6

\* A dedupe key that is taken refuses the job, the empty one never.
LEMMA EnqueueStep ==
  ASSUME StoreInv, NEW event \in Names, NEW kind \in Mongo!JobKinds,
         NEW key \in Names \cup {0}, NEW runAt \in Mongo!Times, Enqueue(event, kind, key, runAt)
  PROVE  StoreInv' /\ Mongo!Enqueue(event, kind, key, runAt)
<1> DEFINE rivals == {d \in Documents["jobs"] : key # Mongo!None /\ d.key = key}
<1> DEFINE taken == key # 0 /\ \E j \in Range(mem.jobs) : j.key = key
<1>1. "jobs" \in Slices
  BY DEF Slices
<1>2. taken <=> rivals # {}
  <2>1. Documents["jobs"] = Range(mem["jobs"])
    BY <1>1, SliceDocs
  <2> QED
    BY <2>1 DEF Mongo!None
<1>3. CASE taken
  <2>1. Fail("Enqueue", "ErrAlreadyExists")
    BY <1>3 DEF Enqueue
  <2> QED
    BY <1>2, <1>3, <2>1, Failing DEF Mongo!Enqueue, Mongo!Insert
<1>4. CASE ~ taken
  <2> DEFINE doc == [id |-> Id, event |-> event, kind |-> kind, key |-> key, runAt |-> runAt,
                     status |-> "pending", attempts |-> 0, lease |-> Mongo!Never,
                     finished |-> Mongo!Never]
  <2>1. doc \in Doc("jobs") /\ doc.id = Id
    BY StoreFacts, MemStoreAssumption, TimesIs DEF Doc, Counts, Dates
  <2>2. Append1("Enqueue", "jobs", doc)
    BY <1>4 DEF Enqueue
  <2>3. doc = [id |-> doc.id, event |-> event, kind |-> kind, key |-> key, runAt |-> runAt,
               status |-> "pending", attempts |-> 0, lease |-> Mongo!Never,
               finished |-> Mongo!Never]
    OBVIOUS
  <2> HIDE DEF doc
  <2>4. /\ StoreInv'
        /\ Documents' = [Documents EXCEPT !["jobs"] = Documents["jobs"] \cup {doc}]
        /\ doc.id \in Mongo!Fresh
        /\ (1..mem.seq)' = (1..mem.seq) \cup {doc.id}
        /\ now' = now
        /\ ans' = [op |-> "Enqueue", err |-> "none", docs |-> <<doc>>, n |-> 1]
    BY <1>1, <2>1, <2>2, FromAppend
  <2>5. rivals = {}
    BY <1>2, <1>4
  <2> QED
    BY <2>3, <2>4, <2>5 DEF Mongo!Enqueue, Mongo!Insert, Mongo!Write, Mongo!Reply
<1> QED
  BY <1>3, <1>4

LEMMA AppendLogStep ==
  ASSUME StoreInv, NEW event \in Names, NEW sequence \in Counts, NEW at \in Mongo!Times,
         AppendLog(event, sequence, at)
  PROVE  StoreInv' /\ Mongo!AppendLog(event, sequence, at)
<1> DEFINE doc == [id |-> Id, event |-> event, sequence |-> sequence, at |-> at, sent |-> now]
<1>1. "logs" \in Slices /\ doc \in Doc("logs") /\ doc.id = Id
  BY StoreFacts DEF Doc, Slices, StoreInv
<1>2. Append1("AppendLog", "logs", doc)
  BY DEF AppendLog
<1>3. doc = [id |-> doc.id, event |-> event, sequence |-> sequence, at |-> at, sent |-> now]
  OBVIOUS
<1> HIDE DEF doc
<1>4. /\ StoreInv'
      /\ Documents' = [Documents EXCEPT !["logs"] = Documents["logs"] \cup {doc}]
      /\ doc.id \in Mongo!Fresh
      /\ (1..mem.seq)' = (1..mem.seq) \cup {doc.id}
      /\ now' = now
      /\ ans' = [op |-> "AppendLog", err |-> "none", docs |-> <<doc>>, n |-> 1]
  BY <1>1, <1>2, FromAppend
<1> QED
  BY <1>3, <1>4 DEF Mongo!AppendLog, Mongo!Insert, Mongo!Write, Mongo!Reply

\* A Google account makes one user.
LEMMA CreateUserStep ==
  ASSUME StoreInv, NEW sub \in Names, CreateUser(sub)
  PROVE  StoreInv' /\ Mongo!CreateUser(sub)
<1> DEFINE I == {k \in 1..Len(mem["users"]) : mem["users"][k].sub = sub}
<1> DEFINE rivals == {d \in Documents["users"] : d.sub = sub}
<1>1. "users" \in Slices /\ I \in SUBSET (1..Len(mem["users"]))
  BY DEF Slices
<1>2. First("users", LAMBDA u : u.sub = sub) = Place(I)
  BY DEF First, SelectInSeq, Place
<1>3. Place(I) = 0 <=> I = {}
  BY <1>1, FirstIs
<1>4. I = {} <=> rivals = {}
  <2>1. /\ \A k \in 1..Len(mem["users"]) : mem["users"][k] \in Documents["users"]
        /\ \A e \in Documents["users"] : \E k \in 1..Len(mem["users"]) : mem["users"][k] = e
    BY <1>1, SliceDocs
  <2> QED
    BY <2>1
<1>5. CASE Place(I) # 0
  <2>1. Fail("CreateUser", "ErrAlreadyExists")
    BY <1>2, <1>5 DEF CreateUser
  <2> QED
    BY <1>3, <1>4, <1>5, <2>1, Failing DEF Mongo!CreateUser, Mongo!Insert
<1>6. CASE Place(I) = 0
  <2> DEFINE doc == [id |-> Id, sub |-> sub, login |-> now]
  <2>1. doc \in Doc("users") /\ doc.id = Id
    BY StoreFacts DEF Doc, StoreInv
  <2>2. Append1("CreateUser", "users", doc)
    BY <1>2, <1>6 DEF CreateUser
  <2>3. doc = [id |-> doc.id, sub |-> sub, login |-> now]
    OBVIOUS
  <2> HIDE DEF doc
  <2>4. /\ StoreInv'
        /\ Documents' = [Documents EXCEPT !["users"] = Documents["users"] \cup {doc}]
        /\ doc.id \in Mongo!Fresh
        /\ (1..mem.seq)' = (1..mem.seq) \cup {doc.id}
        /\ now' = now
        /\ ans' = [op |-> "CreateUser", err |-> "none", docs |-> <<doc>>, n |-> 1]
    BY <1>1, <2>1, <2>2, FromAppend
  <2>5. rivals = {}
    BY <1>3, <1>4, <1>6
  <2> QED
    BY <2>3, <2>4, <2>5 DEF Mongo!CreateUser, Mongo!Insert, Mongo!Write, Mongo!Reply
<1> QED
  BY <1>5, <1>6

\* A chat user of a workspace is linked once.
LEMMA LinkStep ==
  ASSUME StoreInv, NEW user \in Names, NEW workspace \in Names, NEW chat \in Names,
         NEW at \in Mongo!Times, Link(user, workspace, chat, at)
  PROVE  StoreInv' /\ Mongo!Link(user, workspace, chat, at)
<1> DEFINE I == {k \in 1..Len(mem["identities"]) :
                   /\ mem["identities"][k].workspace = workspace
                   /\ mem["identities"][k].chat = chat}
<1>1. "identities" \in Slices /\ I \in SUBSET (1..Len(mem["identities"]))
  BY DEF Slices
<1>2. FindIdentity(workspace, chat) = Place(I)
  BY DEF FindIdentity, First, SelectInSeq, Place
<1>3. Place(I) = 0 <=> I = {}
  BY <1>1, FirstIs
<1>4. I = {} <=> Mongo!OfChat(workspace, chat) = {}
  <2>1. /\ \A k \in 1..Len(mem["identities"]) : mem["identities"][k] \in Documents["identities"]
        /\ \A e \in Documents["identities"] : \E k \in 1..Len(mem["identities"]) :
             mem["identities"][k] = e
    BY <1>1, SliceDocs
  <2> QED
    BY <2>1 DEF Mongo!OfChat
<1>5. CASE Place(I) # 0
  <2>1. Fail("Link", "ErrIdentityLinkedElsewhere")
    BY <1>2, <1>5 DEF Link
  <2> QED
    BY <1>3, <1>4, <1>5, <2>1, Failing DEF Mongo!Link, Mongo!Insert
<1>6. CASE Place(I) = 0
  <2> DEFINE doc == [id |-> Id, user |-> user, workspace |-> workspace, chat |-> chat,
                     linked |-> at]
  <2>1. doc \in Doc("identities") /\ doc.id = Id
    BY StoreFacts DEF Doc
  <2>2. Append1("Link", "identities", doc)
    BY <1>2, <1>6 DEF Link
  <2>3. doc = [id |-> doc.id, user |-> user, workspace |-> workspace, chat |-> chat,
               linked |-> at]
    OBVIOUS
  <2> HIDE DEF doc
  <2>4. /\ StoreInv'
        /\ Documents' = [Documents EXCEPT !["identities"] = Documents["identities"] \cup {doc}]
        /\ doc.id \in Mongo!Fresh
        /\ (1..mem.seq)' = (1..mem.seq) \cup {doc.id}
        /\ now' = now
        /\ ans' = [op |-> "Link", err |-> "none", docs |-> <<doc>>, n |-> 1]
    BY <1>1, <2>1, <2>2, FromAppend
  <2>5. Mongo!OfChat(workspace, chat) = {}
    BY <1>3, <1>4, <1>6
  <2> QED
    BY <2>3, <2>4, <2>5 DEF Mongo!Link, Mongo!Insert, Mongo!Write, Mongo!Reply
<1> QED
  BY <1>5, <1>6

-----------------------------------------------------------------------------
(* The queue, and links that are taken away.                               *)

ExtendLeaseRunning(id) == {d \in Mongo!WithId("jobs", id) : d.status = "running"}

\* Only a running job is extended.
LEMMA ExtendLeaseStep ==
  ASSUME StoreInv, NEW id, NEW until \in Mongo!Times, ExtendLease(id, until)
  PROVE  StoreInv' /\ Mongo!ExtendLease(id, until)
<1> DEFINE I == {k \in 1..Len(mem["jobs"]) :
                   mem["jobs"][k].id = id /\ mem["jobs"][k].status = "running"}
<1> DEFINE i == Place(I)
<1> DEFINE d == mem["jobs"][i]
<1> DEFINE x == [d EXCEPT !.lease = until]
<1> DEFINE S == ExtendLeaseRunning(id)
<1>1. "jobs" \in Slices /\ I \in SUBSET (1..Len(mem["jobs"]))
  BY DEF Slices
<1>2. First("jobs", LAMBDA j : j.id = id /\ j.status = "running") = i
  BY DEF First, SelectInSeq, Place
<1>3. /\ i = 0 <=> I = {}
      /\ i # 0 => i \in I /\ i \in DOMAIN mem["jobs"] /\ d \in Documents["jobs"]
                  /\ d \in Doc("jobs")
  BY <1>1, FirstIs
<1>4. S = {e \in Documents["jobs"] : e.id = id /\ e.status = "running"}
  BY DEF Mongo!WithId, ExtendLeaseRunning
<1>5. ChangeTo("ExtendLease", "jobs", i, x, << >>)
  BY <1>2 DEF ExtendLease, Change, Return, ChangeTo
<1>6. d \in Doc("jobs") => x \in Doc("jobs") /\ x.id = d.id
  BY TimesIs DEF Doc
<1>7. i # 0 => d \in S
  BY <1>3, <1>4
<1>8. i = 0 => S = {}
  <2>1. \A e \in Documents["jobs"] : \E k \in 1..Len(mem["jobs"]) : mem["jobs"][k] = e
    BY <1>1, SliceDocs
  <2> QED
    BY <2>1, <1>3, <1>4
<1> HIDE DEF i
<1>9. /\ StoreInv'
      /\ i = 0 => Mongo!Refuse("ExtendLease", "ErrNotFound")
      /\ i # 0 => MongoChanges("ExtendLease", "jobs", d, x, << >>)
  <2> HIDE DEF x
  <2> QED
    BY <1>1, <1>3, <1>5, <1>6, ByPlace
<1> QED
  BY <1>7, <1>8, <1>9
     DEF Mongo!ExtendLease, Mongo!UpdateOne, MongoChanges, ExtendLeaseRunning

\* The job the loop ends with.
LEMMA EarliestIs ==
  ASSUME NEW s, NEW n \in Nat, NEW due \in SUBSET (1..n), due # {},
         \A i \in due : s[i].runAt \in Nat
  PROVE  \E i \in due : \A k \in due :
           \/ s[i].runAt < s[k].runAt
           \/ s[i].runAt = s[k].runAt /\ i <= k
<1> DEFINE R == {s[i].runAt : i \in due}
<1>1. R \in SUBSET Nat /\ R # {}
  OBVIOUS
<1>2. Min(R) \in R /\ \A t \in R : Min(R) <= t
  <2> HIDE DEF R
  <2> QED
    BY <1>1, Least
<1> DEFINE J == {i \in due : s[i].runAt = Min(R)}
<1>3. J \in SUBSET Nat /\ J # {}
  <2>1. PICK k \in due : s[k].runAt = Min(R)
    BY <1>2
  <2> HIDE DEF R
  <2>2. k \in J /\ J \subseteq due
    BY <2>1
  <2>3. due \subseteq Nat
    OBVIOUS
  <2> QED
    BY <2>2, <2>3
<1>4. Min(J) \in J /\ \A k \in J : Min(J) <= k
  <2> HIDE DEF J
  <2> QED
    BY <1>3, Least
<1> DEFINE j == Min(J)
<1> DEFINE r == Min(R)
<1>5. j \in due /\ s[j].runAt = r
  BY <1>4
<1>6. \A k \in due : r <= s[k].runAt /\ (s[k].runAt = r => j <= k)
  BY <1>2, <1>4
<1> HIDE DEF j, r
<1>7. \A k \in due : s[j].runAt < s[k].runAt \/ (s[j].runAt = s[k].runAt /\ j <= k)
  <2> TAKE k \in due
  <2>1. r <= s[k].runAt /\ (s[k].runAt = r => j <= k) /\ r \in Nat /\ s[k].runAt \in Nat
    BY <1>5, <1>6
  <2> QED
    BY <1>5, <2>1
<1> QED
  BY <1>5, <1>7

\* The loop claims one of the jobs that MongoDB may claim.
LEMMA ClaimStep ==
  ASSUME StoreInv, NEW lease \in Mongo!Times, Claim(lease)
  PROVE  StoreInv' /\ Mongo!Claim(lease)
<1> DEFINE s == mem["jobs"]
<1> DEFINE due == {i \in DOMAIN s : Claimable(s[i])}
<1> DEFINE target == {i \in due : \A k \in due :
                        \/ s[i].runAt < s[k].runAt
                        \/ s[i].runAt = s[k].runAt /\ i <= k}
<1> DEFINE i == IF due = {} THEN 0 ELSE CHOOSE i_1 \in target : TRUE
<1> DEFINE d == s[i]
<1> DEFINE x == [d EXCEPT !.status = "running", !.lease = now + lease, !.attempts = @ + 1]
<1> DEFINE M == {e \in Mongo!Claimable : \A f \in Mongo!Claimable : e.runAt <= f.runAt}
<1>1. /\ "jobs" \in Slices
      /\ Len(s) \in Nat /\ DOMAIN s = 1..Len(s)
      /\ \A k \in 1..Len(s) : s[k] \in Documents["jobs"] /\ s[k] \in Doc("jobs")
      /\ \A e \in Documents["jobs"] : \E k \in 1..Len(s) : s[k] = e
  BY SliceDocs DEF Slices
<1>2. \A k \in 1..Len(s) : s[k].runAt \in Nat
  BY <1>1, MemStoreAssumption DEF Doc, Mongo!Times
<1>3. (\A k \in target : s[k].attempts < MaxCount) /\ ChangeTo("Claim", "jobs", i, x, <<x>>)
  BY DEF Claim, ChangeAndGet, Return, ChangeTo
<1>4. \A e : Claimable(e) <=> \/ e.status = "pending" /\ e.runAt <= now
                              \/ e.status = "running" /\ e.lease # Mongo!Never /\ e.lease <= now
  BY DEF Claimable
<1>5. Mongo!Claimable = {e \in Documents["jobs"] : Claimable(e)}
  BY <1>4 DEF Mongo!Claimable
<1>6. due # {} => i \in target /\ i \in 1..Len(s) /\ i # 0
  <2> SUFFICES ASSUME due # {} PROVE i \in target /\ i \in 1..Len(s) /\ i # 0
    OBVIOUS
  <2>1. due \in SUBSET (1..Len(s)) /\ \A k \in due : s[k].runAt \in Nat
    BY <1>1, <1>2
  <2>3. i = CHOOSE i_1 \in target : TRUE
    OBVIOUS
  <2>4. target \subseteq due
    OBVIOUS
  <2> HIDE DEF s, due, i
  <2>5. target # {}
    <3>1. \E i_2 \in due : \A k \in due :
            \/ s[i_2].runAt < s[k].runAt
            \/ s[i_2].runAt = s[k].runAt /\ i_2 <= k
      BY <1>1, <2>1, EarliestIs
    <3> QED
      BY <3>1
  <2> HIDE DEF target
  <2>6. i \in target
    BY <2>3, <2>5
  <2>7. i \in 1..Len(s)
    BY <2>1, <2>4, <2>6
  <2> QED
    BY <1>1, <2>6, <2>7
<1>7. i # 0 => d \in M
  <2> SUFFICES ASSUME i # 0 PROVE d \in M
    OBVIOUS
  <2>1. i \in target /\ i \in due
    BY <1>6
  <2>2. d \in Mongo!Claimable
    BY <1>1, <1>5, <2>1
  <2>3. ASSUME NEW f \in Mongo!Claimable PROVE d.runAt <= f.runAt
    <3>1. PICK k \in due : s[k] = f
      BY <1>1, <1>5, <2>3
    <3>2. s[i].runAt < s[k].runAt \/ s[i].runAt = s[k].runAt
      BY <2>1
    <3>3. s[i].runAt \in Nat /\ s[k].runAt \in Nat
      BY <1>1, <1>2, <2>1
    <3>4. ASSUME NEW a \in Nat, NEW b \in Nat, a < b \/ a = b PROVE a <= b
      BY <3>4
    <3>5. s[i].runAt <= s[k].runAt
      BY <3>2, <3>3, <3>4
    <3>6. d = s[i]
      OBVIOUS
    <3> HIDE DEF d, s, i
    <3> QED
      BY <3>1, <3>5, <3>6
  <2> QED
    BY <2>2, <2>3
<1>8. i = 0 => M = {}
  <2>1. i = 0 => due = {}
    BY <1>6
  <2>2. due = {} => Mongo!Claimable = {}
    BY <1>1, <1>5
  <2> QED
    BY <2>1, <2>2
<1>9. i # 0 /\ d \in Doc("jobs") => x \in Doc("jobs") /\ x.id = d.id
  <2> SUFFICES ASSUME i # 0, d \in Doc("jobs") PROVE x \in Doc("jobs") /\ x.id = d.id
    OBVIOUS
  <2>1. d.attempts < MaxCount
    <3>1. due # {} => i \in target
      BY <1>6
    <3>2. due = {} => i = 0
      OBVIOUS
    <3> HIDE DEF due, target, i, s
    <3> QED
      BY <1>3, <3>1, <3>2 DEF s
  <2> HIDE DEF d
  <2>2. d.attempts \in Counts
    BY DEF Doc
  <2>3. d.attempts + 1 \in Counts
    BY <2>1, <2>2, MemStoreAssumption DEF Counts
  <2>4. now + lease \in Int
    BY TimesIs DEF StoreInv
  <2> QED
    BY <2>3, <2>4 DEF Doc
<1>10. i # 0 => i \in DOMAIN mem["jobs"]
  BY <1>1, <1>6
<1> HIDE DEF i
<1>11. /\ StoreInv'
       /\ i = 0 => Mongo!Refuse("Claim", "ErrNotFound")
       /\ i # 0 => MongoChanges("Claim", "jobs", d, x, <<x>>)
  <2> HIDE DEF x
  <2> QED
    BY <1>1, <1>3, <1>9, <1>10, ByPlace
<1> HIDE DEF s, due, target
<1> QED
  BY <1>7, <1>8, <1>11 DEF Mongo!Claim, Mongo!FindOneAndUpdate, MongoChanges

\* Places and documents are as many.
LEMMA CountIs ==
  ASSUME NEW s, NEW n \in Nat, DOMAIN s = 1..n, IdsDiffer(s), NEW I \in SUBSET (1..n),
         NEW D, \A d : d \in D <=> \E i \in I : s[i] = d
  PROVE  IsFiniteSet(I) /\ Cardinality(D) = Cardinality(I)
<1> DEFINE f == [i \in I |-> s[i]]
<1>1. IsFiniteSet(1..n)
  BY FS_Interval
<1>2. IsFiniteSet(I)
  BY <1>1, FS_Subset
<1>3. f \in Bijection(I, D)
  <2>1. f \in [I -> D] /\ \A d \in D : \E i \in I : f[i] = d
    OBVIOUS
  <2>2. \A i, j \in I : f[i] = f[j] => i = j
    BY DEF IdsDiffer
  <2> HIDE DEF f
  <2> QED
    BY <2>1, <2>2 DEF Bijection, Injection, Surjection, IsInjective
<1>4. ExistsBijection(I, D)
  BY <1>3 DEF ExistsBijection
<1> QED
  BY <1>2, <1>4, FS_Bijection

\* Cardinality is the same in both modules.
LEMMA SameCount == \A S : Mongo!Cardinality(S) = Cardinality(S)
BY DEF Mongo!Cardinality, Cardinality

\* All pending jobs of the kinds are closed, and counted.
LEMMA CancelByEventStep ==
  ASSUME StoreInv, NEW event \in Names, NEW kinds \in SUBSET Mongo!JobKinds,
         CancelByEvent(event, kinds)
  PROVE  StoreInv' /\ Mongo!CancelByEvent(event, kinds)
<1> DEFINE Canceled(j) == /\ j.event = event /\ j.status = "pending"
                          /\ kinds = {} \/ j.kind \in kinds
<1> DEFINE Closed(j) == [j EXCEPT !.status = "canceled", !.finished = now]
<1> DEFINE s == mem["jobs"]
<1> DEFINE I == {i \in DOMAIN s : Canceled(s[i])}
<1> DEFINE t == [i \in DOMAIN s |-> IF Canceled(s[i]) THEN Closed(s[i]) ELSE s[i]]
<1> DEFINE S == {d \in Documents["jobs"] : Canceled(d)}
<1> DEFINE T == (Documents["jobs"] \ S) \cup {Closed(d) : d \in S}
<1>1. /\ "jobs" \in Slices
      /\ Documents["jobs"] = Range(s)
      /\ Len(s) \in Nat /\ DOMAIN s = 1..Len(s)
      /\ \A k \in 1..Len(s) : s[k] \in Documents["jobs"] /\ s[k] \in Doc("jobs")
      /\ \A e \in Documents["jobs"] : \E k \in 1..Len(s) : s[k] = e
  BY SliceDocs DEF Slices
<1>2. mem.seq \in Nat /\ SliceOK("jobs", s, mem.seq) /\ mem = [f \in Fields |-> mem[f]]
  BY <1>1, StoreFacts
<1>3. IdsDiffer(s) /\ \A i \in DOMAIN s : s[i].id <= mem.seq
  BY <1>2 DEF SliceOK
<1>4. \A d \in Doc("jobs") : Closed(d) \in Doc("jobs") /\ Closed(d).id = d.id
  <2>1. now \in Dates
    BY DEF StoreInv, Dates
  <2> HIDE DEF s, I, t, S, T
  <2> QED
    BY <2>1, Zenon DEF Doc
<1>5. /\ DOMAIN t = 1..Len(s)
      /\ \A i \in 1..Len(s) : t[i] = IF Canceled(s[i]) THEN Closed(s[i]) ELSE s[i]
      /\ t = [i \in 1..Len(s) |-> t[i]]
  <2>1. DOMAIN s = 1..Len(s)
    BY <1>1
  <2> HIDE DEF Canceled, Closed, s
  <2> QED
    BY <2>1, Zenon
<1>d. /\ \A d : d \in S <=> d \in Documents["jobs"] /\ Canceled(d)
      /\ \A e : e \in T <=> (e \in Documents["jobs"] /\ e \notin S) \/ \E d \in S : e = Closed(d)
  <2> HIDE DEF Canceled, Closed
  <2> QED
    BY Zenon
<1>6. /\ mem' = [mem EXCEPT !.jobs = t] /\ now' = now
      /\ ans' = [op |-> "CancelByEvent", err |-> "none", docs |-> << >>, n |-> Cardinality(I)]
  BY DEF CancelByEvent, Return
<1>7. Wrote("jobs", t, mem.seq)
  <2> HIDE DEF t
  <2> QED
    BY <1>1, <1>2, <1>6, FieldsDiffer DEF Wrote
<1>8. SliceOK("jobs", t, mem.seq)
  <2>1. \A i \in 1..Len(s) : t[i] \in Doc("jobs") /\ t[i].id = s[i].id
    <3> HIDE DEF t, Closed, Canceled, s
    <3> QED
      BY <1>1, <1>4, <1>5
  <2> HIDE DEF t
  <2>2. t \in [1..Len(s) -> Doc("jobs")]
    BY <1>5, <2>1
  <2>3. t \in Seq(Doc("jobs"))
    <3> DEFINE D == Doc("jobs")
    <3> DEFINE n == Len(s)
    <3>1. t \in [1..n -> D] /\ n \in Nat
      BY <1>1, <2>2
    <3> HIDE DEF D, n
    <3>2. t \in Seq(D)
      BY <3>1
    <3> QED
      BY <3>2 DEF D
  <2>4. DOMAIN t = DOMAIN s
    BY <1>1, <1>5
  <2>5. \A i \in DOMAIN s : t[i].id = s[i].id
    BY <1>1, <2>1
  <2> HIDE DEF s
  <2>6. IdsDiffer(t) /\ \A i \in DOMAIN t : t[i].id <= mem.seq
    BY <1>3, <2>4, <2>5 DEF IdsDiffer
  <2> QED
    BY <2>3, <2>6 DEF SliceOK
<1>9. Range(t) = T
  <2> HIDE DEF t, S, T, s, Canceled, Closed
  <2>1. ASSUME NEW e \in Range(t) PROVE e \in T
    <3>1. PICK i \in 1..Len(s) : t[i] = e
      BY <1>5, <2>1 DEF Range
    <3>2. s[i] \in Documents["jobs"]
      BY <1>1
    <3>3. CASE Canceled(s[i])
      BY <1>5, <1>d, <3>1, <3>2, <3>3, Zenon
    <3>4. CASE ~ Canceled(s[i])
      BY <1>5, <1>d, <3>1, <3>2, <3>4, Zenon
    <3> QED
      BY <3>3, <3>4
  <2>2. ASSUME NEW e \in T PROVE \E k \in 1..Len(s) : t[k] = e
    <3>1. CASE e \in Documents["jobs"] /\ e \notin S
      <4>1. PICK k \in 1..Len(s) : s[k] = e
        BY <1>1, <3>1
      <4> QED
        BY <1>5, <1>d, <3>1, <4>1, Zenon
    <3>2. CASE \E d \in S : e = Closed(d)
      <4>1. PICK d \in S : e = Closed(d)
        BY <3>2
      <4>2. PICK k \in 1..Len(s) : s[k] = d
        BY <1>1, <1>d, <4>1
      <4> QED
        BY <1>5, <1>d, <4>1, <4>2, Zenon
    <3> QED
      BY <1>d, <2>2, <3>1, <3>2, Zenon
  <2> QED
    BY <1>5, <2>1, <2>2 DEF Range
<1>10. Cardinality(I) = Cardinality(S)
  <2>1. I \in SUBSET (1..Len(s))
    BY <1>1
  <2>2. \A d : d \in S <=> \E i \in I : s[i] = d
    <3>1. ASSUME NEW d \in S PROVE \E i \in I : s[i] = d
      <4>1. PICK k \in 1..Len(s) : s[k] = d
        BY <1>1
      <4>2. k \in I
        BY <1>1, <4>1, Zenon
      <4> QED
        BY <4>1, <4>2
    <3>2. ASSUME NEW i \in I PROVE s[i] \in S
      BY <1>1
    <3> HIDE DEF S, I, s
    <3> QED
      BY <3>1, <3>2
  <2> HIDE DEF I, S, s
  <2> QED
    BY <1>1, <1>3, <2>1, <2>2, CountIs
<1>11. StoreInv' /\ Documents' = [Documents EXCEPT !["jobs"] = Range(t)]
  <2> HIDE DEF t, s
  <2> QED
    BY <1>1, <1>7, <1>8, RewriteSlice
<1>12. (1..mem.seq)' = 1..mem.seq
  BY <1>7 DEF Wrote
<1> HIDE DEF t
<1>13. Mongo!Store("jobs", T)
  BY <1>6, <1>9, <1>11, <1>12 DEF Mongo!Store, Mongo!Write
<1>14. ans' = [op |-> "CancelByEvent", err |-> "none", docs |-> << >>, n |-> Cardinality(S)]
  BY <1>6, <1>10
<1> DEFINE A == {d \in Documents["jobs"] : /\ d.event = event /\ d.status = "pending"
                                          /\ (kinds = {} \/ d.kind \in kinds)}
<1> DEFINE B == {[d EXCEPT !.status = "canceled", !.finished = now] : d \in A}
<1>15. A = S /\ (Documents["jobs"] \ A) \cup B = T
  OBVIOUS
<1>16. /\ ans' = [op |-> "CancelByEvent", err |-> "none", docs |-> << >>, n |-> Cardinality(A)]
       /\ Mongo!Store("jobs", (Documents["jobs"] \ A) \cup B)
  <2> HIDE DEF A, B, S, T
  <2> QED
    BY <1>13, <1>14, <1>15
<1>17. Mongo!CancelByEvent(event, kinds)
  BY <1>16, SameCount, Zenon DEF Mongo!CancelByEvent, Mongo!UpdateMany, Mongo!Reply
<1> QED
  BY <1>11, <1>17

\* One link is taken away.
LEMMA UnlinkStep ==
  ASSUME StoreInv, NEW id, Unlink(id)
  PROVE  StoreInv' /\ Mongo!Unlink(id)
<1> DEFINE i == FindId("identities", id)
<1> DEFINE s == mem["identities"]
<1> DEFINE t == RemoveAt(s, i)
<1>1. "identities" \in Slices /\ i = FindId("identities", id)
  BY DEF Slices
<1>2. CASE i # 0
  <2>1. i \in DOMAIN s /\ Mongo!WithId("identities", id) = {s[i]}
    BY <1>1, <1>2, FindIdIs
  <2>2. /\ mem' = [mem EXCEPT !.identities = t] /\ now' = now
        /\ ans' = [op |-> "Unlink", err |-> "none", docs |-> << >>, n |-> 0]
    BY <1>2 DEF Unlink, Return
  <2>3. mem.seq \in Nat /\ SliceOK("identities", s, mem.seq) /\ mem = [f \in Fields |-> mem[f]]
    BY <1>1, StoreFacts
  <2>4. Wrote("identities", t, mem.seq)
    <3> HIDE DEF t
    <3> QED
      BY <1>1, <2>2, <2>3, FieldsDiffer DEF Wrote
  <2>5. /\ s \in Seq(Doc("identities")) /\ IdsDiffer(s)
        /\ \A k \in DOMAIN s : s[k].id <= mem.seq
    BY <2>3 DEF SliceOK
  <2> HIDE DEF i
  <2>6. /\ t \in Seq(Doc("identities")) /\ IdsDiffer(t) /\ Range(t) = Range(s) \ {s[i]}
    BY <2>1, <2>5, RemoveIs
  <2> HIDE DEF t
  <2>7. \A k \in DOMAIN t : t[k].id <= mem.seq
    <3> SUFFICES ASSUME NEW k \in DOMAIN t PROVE t[k].id <= mem.seq
      OBVIOUS
    <3>1. t[k] \in Range(t)
      BY Zenon DEF Range
    <3>2. t[k] \in Range(s)
      BY <2>6, <3>1, Zenon
    <3>3. PICK m \in DOMAIN s : s[m] = t[k]
      BY <3>2, Zenon DEF Range
    <3> QED
      BY <2>5, <3>3, Zenon
  <2>8. StoreInv' /\ Documents' = [Documents EXCEPT !["identities"] = Range(t)]
    <3>1. SliceOK("identities", t, mem.seq)
      BY <2>6, <2>7 DEF SliceOK
    <3> QED
      BY <1>1, <2>4, <3>1, RewriteSlice
  <2>9. Documents["identities"] = Range(s) /\ (1..mem.seq)' = 1..mem.seq
    BY <1>1, <2>4, SliceDocs DEF Wrote
  <2> QED
    BY <2>1, <2>2, <2>6, <2>8, <2>9
       DEF Mongo!Unlink, Mongo!DeleteMany, Mongo!Store, Mongo!Write, Mongo!Reply
<1>3. CASE i = 0
  <2>1. Fail("Unlink", "ErrNotFound")
    BY <1>3 DEF Unlink
  <2>2. Mongo!WithId("identities", id) = {}
    BY <1>1, <1>3, FindIdIs
  <2> QED
    BY <2>1, <2>2, Failing DEF Mongo!Unlink
<1> QED
  BY <1>2, <1>3

-----------------------------------------------------------------------------
(* The maps.                                                               *)

Values(f) == {f[k] : k \in DOMAIN f}

\* Writing one map changes the documents of that collection alone.
LEMMA WriteMap ==
  ASSUME StoreInv, NEW c \in Maps, NEW t, MapOK(c, t), Wrote(c, t, mem.seq)
  PROVE  StoreInv' /\ Mongo!Store(c, Values(t))
<1>1. /\ mem' = [f \in Fields |-> mem'[f]]
      /\ mem'.seq = mem.seq /\ mem'.provider = mem.provider /\ mem'.schema = mem.schema
      /\ mem'[c] = t
      /\ \A d \in Maps : d # c => mem'[d] = mem[d]
      /\ \A d \in Slices : mem'[d] = mem[d]
      /\ now' = now
  BY FieldsDiffer DEF Wrote
<1>2. \A d \in Maps : MapOK(d, mem'[d])
  BY <1>1, StoreFacts
<1>3. StoreInv'
  BY <1>1, <1>2 DEF StoreInv, MemOK
<1>4. Documents' = [Documents EXCEPT ![c] = Values(t)]
  <2> DEFINE meta(m) == {[id |-> "provider", value |-> p.value, first |-> p.first] : p \in Range(m.provider)}
                        \cup {[id |-> "schema", value |-> n, first |-> 0] : n \in {m.schema} \ {0}}
  <2> DEFINE map(m, d) == {m[d][k] : k \in DOMAIN m[d]}
  <2>1. Documents = [d \in Slices \cup Maps \cup {"meta"} |->
                       IF d \in Slices THEN Range(mem[d])
                       ELSE IF d \in Maps THEN map(mem, d) ELSE meta(mem)]
    BY DEF Documents
  <2>2. Documents' = [d \in Slices \cup Maps \cup {"meta"} |->
                       IF d \in Slices THEN Range(mem'[d])
                       ELSE IF d \in Maps THEN map(mem', d) ELSE meta(mem')]
    BY DEF Documents
  <2>3. meta(mem') = meta(mem)
    BY <1>1
  <2>4. \A d \in Maps : d # c => map(mem', d) = map(mem, d)
    BY <1>1
  <2>5. map(mem', c) = Values(t)
    BY <1>1 DEF Values
  <2> HIDE DEF meta, map
  <2> QED
    BY <1>1, <2>1, <2>2, <2>3, <2>4, <2>5, FieldsDiffer
<1>5. (1..mem.seq)' = 1..mem.seq
  BY <1>1
<1> QED
  BY <1>1, <1>3, <1>4, <1>5 DEF Mongo!Store, Mongo!Write

\* The documents of a map are its values.
LEMMA MapDocs ==
  ASSUME StoreInv, NEW c \in Maps
  PROVE  /\ Documents[c] = Values(mem[c])
         /\ MapOK(c, mem[c])
         /\ \A id : Mongo!WithId(c, id) = IF id \in DOMAIN mem[c] THEN {mem[c][id]} ELSE {}
<1>1. Documents[c] = Values(mem[c])
  BY FieldsDiffer DEF Documents, Values
<1>2. MapOK(c, mem[c])
  BY StoreFacts
<1>3. ASSUME NEW id
      PROVE  Mongo!WithId(c, id) = IF id \in DOMAIN mem[c] THEN {mem[c][id]} ELSE {}
  BY <1>1, <1>2 DEF Mongo!WithId, MapOK, Values
<1> QED
  BY <1>1, <1>2, <1>3

\* Put replaces the document with the id, or adds one.
LEMMA PutStep ==
  ASSUME StoreInv, NEW c \in Maps, NEW doc \in Doc(c), Put(c, doc), now' = now
  PROVE  /\ StoreInv'
         /\ Mongo!Store(c, (Documents[c] \ Mongo!WithId(c, doc.id)) \cup {doc})
<1> DEFINE f == mem[c]
<1> DEFINE t == [id \in DOMAIN f \cup {doc.id} |-> IF id = doc.id THEN doc ELSE f[id]]
<1>1. /\ mem = [g \in Fields |-> mem[g]] /\ MapOK(c, f)
      /\ Documents[c] = Values(f)
      /\ Mongo!WithId(c, doc.id) = IF doc.id \in DOMAIN f THEN {f[doc.id]} ELSE {}
  BY StoreFacts, MapDocs
<1>2. mem' = [mem EXCEPT ![c] = t]
  BY DEF Put
<1>3. /\ DOMAIN t = DOMAIN f \cup {doc.id}
      /\ t[doc.id] = doc /\ \A k \in DOMAIN f : k # doc.id => t[k] = f[k]
      /\ t = [k \in DOMAIN t |-> t[k]]
  OBVIOUS
<1> HIDE DEF t
<1>4. Wrote(c, t, mem.seq)
  BY <1>1, <1>2, FieldsDiffer DEF Wrote
<1>5. doc.id \in Names
  BY DEF Doc, Maps
<1>6. MapOK(c, t)
  BY <1>1, <1>3, <1>5 DEF MapOK
<1>7. Values(t) = (Documents[c] \ Mongo!WithId(c, doc.id)) \cup {doc}
  <2>1. ASSUME NEW e \in Values(t)
        PROVE  e \in (Documents[c] \ Mongo!WithId(c, doc.id)) \cup {doc}
    <3>1. PICK k \in DOMAIN t : t[k] = e
      BY <2>1 DEF Values
    <3>2. CASE k = doc.id
      BY <1>3, <3>1, <3>2
    <3>3. CASE k # doc.id
      <4>1. k \in DOMAIN f /\ f[k] = e /\ f[k].id = k
        BY <1>1, <1>3, <3>1, <3>3 DEF MapOK
      <4>2. doc.id \in DOMAIN f => f[doc.id].id = doc.id
        BY <1>1 DEF MapOK
      <4> QED
        BY <1>1, <3>3, <4>1, <4>2 DEF Values
    <3> QED
      BY <3>2, <3>3
  <2>2. ASSUME NEW e \in (Documents[c] \ Mongo!WithId(c, doc.id)) \cup {doc}
        PROVE  e \in Values(t)
    <3>1. CASE e = doc
      BY <1>3, <3>1 DEF Values
    <3>2. CASE e # doc
      <4>1. PICK k \in DOMAIN f : f[k] = e
        BY <1>1, <2>2, <3>2 DEF Values
      <4>2. k # doc.id
        BY <1>1, <2>2, <3>2, <4>1
      <4> QED
        BY <1>3, <4>1, <4>2 DEF Values
    <3> QED
      BY <3>1, <3>2
  <2> QED
    BY <2>1, <2>2
<1> QED
  BY <1>4, <1>6, <1>7, WriteMap

\* Delete takes away the documents with the ids.
LEMMA DeleteStep ==
  ASSUME StoreInv, NEW c \in Maps, NEW ids, Delete(c, ids), now' = now
  PROVE  /\ StoreInv'
         /\ Mongo!Store(c, Documents[c] \ {d \in Documents[c] : d.id \in ids})
<1> DEFINE f == mem[c]
<1> DEFINE t == Restrict(f, DOMAIN f \ ids)
<1>1. /\ mem = [g \in Fields |-> mem[g]] /\ MapOK(c, f) /\ Documents[c] = Values(f)
  BY StoreFacts, MapDocs
<1>2. mem' = [mem EXCEPT ![c] = t]
  BY DEF Delete
<1>3. /\ DOMAIN t = DOMAIN f \ ids /\ \A k \in DOMAIN t : t[k] = f[k]
      /\ t = [k \in DOMAIN t |-> t[k]]
  BY DEF Restrict
<1> HIDE DEF t
<1>4. Wrote(c, t, mem.seq)
  BY <1>1, <1>2, FieldsDiffer DEF Wrote
<1>5. MapOK(c, t)
  BY <1>1, <1>3 DEF MapOK
<1>6. Values(t) = Documents[c] \ {d \in Documents[c] : d.id \in ids}
  <2>1. \A k \in DOMAIN f : f[k].id = k
    BY <1>1 DEF MapOK
  <2> QED
    <3>1. ASSUME NEW d \in Values(t) PROVE d \in Values(f) /\ d.id \notin ids
      <4>1. PICK k \in DOMAIN t : t[k] = d
        BY <3>1 DEF Values
      <4>2. k \in DOMAIN f /\ k \notin ids /\ f[k] = d
        BY <1>3, <4>1
      <4> QED
        BY <2>1, <4>2 DEF Values
    <3>2. ASSUME NEW d \in Values(f), d.id \notin ids PROVE d \in Values(t)
      <4>1. PICK k \in DOMAIN f : f[k] = d
        BY <3>2 DEF Values
      <4>2. k \notin ids
        BY <2>1, <3>2, <4>1
      <4> QED
        BY <1>3, <4>1, <4>2 DEF Values
    <3> QED
      BY <1>1, <3>1, <3>2, Zenon
<1> QED
  BY <1>4, <1>5, <1>6, WriteMap

\* An id that is taken is refused.
LEMMA CreateStep ==
  ASSUME StoreInv, NEW c \in Maps, NEW op, NEW doc \in Doc(c), Create(op, c, doc)
  PROVE  StoreInv' /\ Mongo!InsertAs(op, c, doc)
<1>1. Mongo!WithId(c, doc.id) = IF doc.id \in DOMAIN mem[c] THEN {mem[c][doc.id]} ELSE {}
  BY MapDocs
<1>2. CASE doc.id \in DOMAIN mem[c]
  <2>1. Fail(op, "ErrAlreadyExists")
    BY <1>2 DEF Create
  <2> QED
    BY <1>1, <1>2, <2>1, Failing DEF Mongo!InsertAs
<1>3. CASE doc.id \notin DOMAIN mem[c]
  <2>1. /\ Put(c, doc) /\ now' = now
        /\ ans' = [op |-> op, err |-> "none", docs |-> <<doc>>, n |-> 1]
    BY <1>3 DEF Create, Return
  <2>2. Mongo!WithId(c, doc.id) = {}
    BY <1>1, <1>3
  <2>3. StoreInv' /\ Mongo!Store(c, (Documents[c] \ {}) \cup {doc})
    BY <2>1, <2>2, PutStep
  <2>4. Documents[c] \ {} = Documents[c]
    OBVIOUS
  <2> QED
    BY <2>1, <2>2, <2>3, <2>4 DEF Mongo!InsertAs, Mongo!Reply
<1> QED
  BY <1>2, <1>3

LEMMA CreateTokenStep ==
  ASSUME StoreInv, NEW id \in Names, NEW chat \in Names, NEW expires \in Mongo!Times,
         CreateToken(id, chat, expires)
  PROVE  StoreInv' /\ Mongo!CreateToken(id, chat, expires)
<1> DEFINE doc == [id |-> id, chat |-> chat, expires |-> expires, consumed |-> Mongo!Never]
<1>1. "tokens" \in Maps /\ doc \in Doc("tokens") /\ Create("CreateToken", "tokens", doc)
  BY DEF Maps, Doc, Dates, CreateToken
<1>2. StoreInv' /\ Mongo!InsertAs("CreateToken", "tokens", doc)
  <2> HIDE DEF doc
  <2> QED
    BY <1>1, CreateStep
<1> QED
  BY <1>2 DEF Mongo!CreateToken

LEMMA CreateSessionStep ==
  ASSUME StoreInv, NEW id \in Names, NEW user \in Names, NEW expires \in Mongo!Times,
         CreateSession(id, user, expires)
  PROVE  StoreInv' /\ Mongo!CreateSession(id, user, expires)
<1> DEFINE doc == [id |-> id, user |-> user, expires |-> expires, seen |-> now]
<1>1. "sessions" \in Maps /\ doc \in Doc("sessions") /\ Create("CreateSession", "sessions", doc)
  BY DEF Maps, Doc, CreateSession, StoreInv
<1>2. StoreInv' /\ Mongo!InsertAs("CreateSession", "sessions", doc)
  <2> HIDE DEF doc
  <2> QED
    BY <1>1, CreateStep
<1> QED
  BY <1>2 DEF Mongo!CreateSession

LEMMA CreateStateStep ==
  ASSUME StoreInv, NEW id \in Names, NEW expires \in Mongo!Times, CreateState(id, expires)
  PROVE  StoreInv' /\ Mongo!CreateState(id, expires)
<1> DEFINE doc == [id |-> id, expires |-> expires]
<1>1. "states" \in Maps /\ doc \in Doc("states") /\ Create("CreateState", "states", doc)
  BY DEF Maps, Doc, CreateState
<1>2. StoreInv' /\ Mongo!InsertAs("CreateState", "states", doc)
  <2> HIDE DEF doc
  <2> QED
    BY <1>1, CreateStep
<1> QED
  BY <1>2 DEF Mongo!CreateState

\* A token is consumed once, before it expires, and the error says why not.
LEMMA ConsumeTokenStep ==
  ASSUME StoreInv, NEW id \in Names, ConsumeToken(id)
  PROVE  StoreInv' /\ Mongo!ConsumeToken(id)
<1> DEFINE t == mem["tokens"][id]
<1> DEFINE used == [t EXCEPT !.consumed = now]
<1> DEFINE found == Mongo!WithId("tokens", id)
<1>1. /\ "tokens" \in Maps /\ MapOK("tokens", mem["tokens"])
      /\ found = IF id \in DOMAIN mem["tokens"] THEN {t} ELSE {}
      /\ Documents["tokens"] = Values(mem["tokens"])
  BY MapDocs DEF Maps
<1>2. CASE id \notin DOMAIN mem["tokens"]
  <2>1. Fail("ConsumeToken", "ErrNotFound")
    BY <1>2 DEF ConsumeToken
  <2>2. found = {}
    BY <1>1, <1>2
  <2> QED
    BY <2>1, <2>2, Failing DEF Mongo!ConsumeToken, Mongo!FindOneAndUpdate
<1>3. CASE id \in DOMAIN mem["tokens"]
  <2>1. found = {t} /\ t \in Doc("tokens") /\ t.id = id
    BY <1>1, <1>3 DEF MapOK
  <2>2. t.expires \in Int /\ now \in Int
    BY <2>1, TimesIs DEF Doc, StoreInv
  <2>3. CASE t.consumed # Mongo!Never
    <3>1. Fail("ConsumeToken", "ErrLinkTokenConsumed")
      BY <1>3, <2>3 DEF ConsumeToken
    <3>2. StoreInv' /\ Mongo!Refuse("ConsumeToken", "ErrLinkTokenConsumed")
      BY <3>1, Failing
    <3>3. /\ \E d \in found : ~ Mongo!Usable(d)
          /\ \E d \in found : d.consumed # Mongo!Never
      BY <2>1, <2>3 DEF Mongo!Usable
    <3> HIDE DEF t
    <3> QED
      BY <3>2, <3>3 DEF Mongo!ConsumeToken
  <2>4. CASE t.consumed = Mongo!Never /\ t.expires <= now
    <3>1. Fail("ConsumeToken", "ErrLinkTokenExpired")
      BY <1>3, <2>4 DEF ConsumeToken
    <3>2. StoreInv' /\ Mongo!Refuse("ConsumeToken", "ErrLinkTokenExpired")
      BY <3>1, Failing
    <3>3. /\ \E d \in found : ~ Mongo!Usable(d)
          /\ ~ \E d \in found : d.consumed # Mongo!Never
      BY <2>1, <2>2, <2>4 DEF Mongo!Usable
    <3> HIDE DEF t
    <3> QED
      BY <3>2, <3>3 DEF Mongo!ConsumeToken
  <2>5. CASE t.consumed = Mongo!Never /\ ~ (t.expires <= now)
    <3>1. /\ Put("tokens", used) /\ now' = now
          /\ ans' = [op |-> "ConsumeToken", err |-> "none", docs |-> <<used>>, n |-> 1]
      BY <1>3, <2>5 DEF ConsumeToken, Return
    <3>2. used \in Doc("tokens") /\ used.id = id
      BY <2>1 DEF Doc, Dates, StoreInv
    <3>3. ~ \E d \in found : ~ Mongo!Usable(d)
      BY <2>1, <2>2, <2>5 DEF Mongo!Usable
    <3>4. found # {} /\ t \in found
      BY <2>1
    <3>5. StoreInv' /\ Mongo!Store("tokens", (Documents["tokens"] \ {t}) \cup {used})
      <4> HIDE DEF used, t
      <4> QED
        BY <1>1, <2>1, <3>1, <3>2, PutStep
    <3> HIDE DEF found, t
    <3> QED
      BY <3>1, <3>3, <3>4, <3>5
         DEF Mongo!ConsumeToken, Mongo!FindOneAndUpdate, Mongo!Reply, found
  <2> QED
    BY <2>3, <2>4, <2>5
<1> QED
  BY <1>2, <1>3

LEMMA TouchSessionStep ==
  ASSUME StoreInv, NEW id \in Names, TouchSession(id)
  PROVE  StoreInv' /\ Mongo!TouchSession(id)
<1> DEFINE d == mem["sessions"][id]
<1> DEFINE x == [d EXCEPT !.seen = now]
<1>1. /\ "sessions" \in Maps /\ MapOK("sessions", mem["sessions"])
      /\ Mongo!WithId("sessions", id) = IF id \in DOMAIN mem["sessions"] THEN {d} ELSE {}
  BY MapDocs DEF Maps
<1>2. CASE id \notin DOMAIN mem["sessions"]
  <2>1. Fail("TouchSession", "ErrNotFound")
    BY <1>2 DEF TouchSession
  <2> QED
    BY <1>1, <1>2, <2>1, Failing DEF Mongo!TouchSession, Mongo!UpdateOne
<1>3. CASE id \in DOMAIN mem["sessions"]
  <2>1. /\ Put("sessions", x) /\ now' = now
        /\ ans' = [op |-> "TouchSession", err |-> "none", docs |-> << >>, n |-> 1]
    BY <1>3 DEF TouchSession, Return
  <2>2. d \in Doc("sessions") /\ d.id = id
    BY <1>1, <1>3 DEF MapOK
  <2>3. x \in Doc("sessions") /\ x.id = id
    BY <2>2 DEF Doc, StoreInv
  <2>4. Mongo!WithId("sessions", id) = {d}
    BY <1>1, <1>3
  <2>5. StoreInv' /\ Mongo!Store("sessions", (Documents["sessions"] \ {d}) \cup {x})
    <3> HIDE DEF x, d
    <3> QED
      BY <1>1, <2>1, <2>3, <2>4, PutStep
  <2> HIDE DEF d
  <2> QED
    BY <2>1, <2>4, <2>5 DEF Mongo!TouchSession, Mongo!UpdateOne, Mongo!Reply
<1> QED
  BY <1>2, <1>3

LEMMA DeleteSessionStep ==
  ASSUME StoreInv, NEW id \in Names, DeleteSession(id)
  PROVE  StoreInv' /\ Mongo!DeleteSession(id)
<1>1. /\ Delete("sessions", {id}) /\ now' = now
      /\ ans' = [op |-> "DeleteSession", err |-> "none", docs |-> << >>, n |-> 0]
  BY DEF DeleteSession, Return
<1>2. /\ StoreInv'
      /\ Mongo!Store("sessions",
                     Documents["sessions"] \ {d \in Documents["sessions"] : d.id \in {id}})
  BY <1>1, DeleteStep DEF Maps
<1>3. {d \in Documents["sessions"] : d.id \in {id}} = Mongo!WithId("sessions", id)
  BY DEF Mongo!WithId
<1> QED
  BY <1>1, <1>2, <1>3 DEF Mongo!DeleteSession, Mongo!DeleteMany, Mongo!Reply

LEMMA DeleteByUserStep ==
  ASSUME StoreInv, NEW user \in Names, DeleteByUser(user)
  PROVE  StoreInv' /\ Mongo!DeleteByUser(user)
<1> DEFINE f == mem["sessions"]
<1> DEFINE ids == {id \in DOMAIN f : f[id].user = user}
<1> DEFINE S == {d \in Documents["sessions"] : d.user = user}
<1>1. /\ Delete("sessions", ids) /\ now' = now
      /\ ans' = [op |-> "DeleteByUser", err |-> "none", docs |-> << >>, n |-> 0]
  BY DEF DeleteByUser, Return
<1>2. "sessions" \in Maps /\ MapOK("sessions", f) /\ Documents["sessions"] = Values(f)
  BY MapDocs DEF Maps
<1>3. {d \in Documents["sessions"] : d.id \in ids} = S
  BY <1>2 DEF MapOK, Values
<1> HIDE DEF ids
<1>4. StoreInv' /\ Mongo!Store("sessions", Documents["sessions"] \ S)
  <2> HIDE DEF S
  <2> QED
    BY <1>1, <1>2, <1>3, DeleteStep
<1> QED
  BY <1>1, <1>4 DEF Mongo!DeleteByUser, Mongo!DeleteMany, Mongo!Reply

\* A login state is handed out once, before it expires.
LEMMA ConsumeStateStep ==
  ASSUME StoreInv, NEW id \in Names, ConsumeState(id)
  PROVE  StoreInv' /\ Mongo!ConsumeState(id)
<1> DEFINE f == mem["states"]
<1> DEFINE S == {d \in Mongo!WithId("states", id) : d.expires > now}
<1>1. /\ "states" \in Maps /\ MapOK("states", f)
      /\ Mongo!WithId("states", id) = IF id \in DOMAIN f THEN {f[id]} ELSE {}
      /\ Documents["states"] = Values(f)
  BY MapDocs DEF Maps
<1>2. id \in DOMAIN f => f[id] \in Doc("states") /\ f[id].expires \in Int /\ now \in Int
  BY <1>1, TimesIs DEF MapOK, Doc, StoreInv
<1>3. CASE id \notin DOMAIN f \/ f[id].expires <= now
  <2>1. Fail("ConsumeState", "ErrNotFound")
    BY <1>3 DEF ConsumeState
  <2>2. S = {}
    BY <1>1, <1>2, <1>3
  <2> QED
    BY <2>1, <2>2, Failing DEF Mongo!ConsumeState
<1>4. CASE ~ (id \notin DOMAIN f \/ f[id].expires <= now)
  <2>1. /\ Delete("states", {id}) /\ now' = now
        /\ ans' = [op |-> "ConsumeState", err |-> "none", docs |-> <<f[id]>>, n |-> 1]
    BY <1>4 DEF ConsumeState, Return
  <2>2. S = {f[id]}
    BY <1>1, <1>2, <1>4
  <2>3. {d \in Documents["states"] : d.id \in {id}} = {f[id]}
    BY <1>1, <1>4 DEF MapOK, Values
  <2>4. StoreInv' /\ Mongo!Store("states", Documents["states"] \ {f[id]})
    BY <1>1, <2>1, <2>3, DeleteStep
  <2> HIDE DEF f
  <2> QED
    BY <2>1, <2>2, <2>4 DEF Mongo!ConsumeState, Mongo!Reply
<1> QED
  BY <1>3, <1>4

-----------------------------------------------------------------------------
(* The provider and the version of the schema, and the clock.              *)

Schema(n) == [id |-> "schema", value |-> n, first |-> 0]

Providers == {NoProvider} \cup {<<p>> : p \in [value : Settings, first : Mongo!Times]}

MetaDocs(provider, schema) ==
  {Provider(p) : p \in Range(provider)} \cup {Schema(n) : n \in {schema} \ {0}}

\* The provider and the version of the schema are the documents of meta.
LEMMA MetaIs ==
  Documents["meta"] = MetaDocs(mem.provider, mem.schema)
BY FieldsDiffer DEF Documents, MetaDocs, Provider, Schema, Slices, Maps

\* Only the provider and the version of the schema are written.
LEMMA WriteMeta ==
  ASSUME StoreInv,
         mem' = [f \in Fields |-> mem'[f]],
         \A f \in Fields : f # "provider" /\ f # "schema" => mem'[f] = mem[f],
         mem'.provider \in Providers, mem'.schema \in Counts, now' = now
  PROVE  StoreInv' /\ Mongo!Store("meta", MetaDocs(mem'.provider, mem'.schema))
<1>2. /\ mem'.seq = mem.seq
      /\ \A d \in Slices : mem'[d] = mem[d]
      /\ \A d \in Maps : mem'[d] = mem[d]
  BY FieldsDiffer
<1>3. StoreInv'
  <2>1. /\ mem.seq \in Nat
        /\ \A c \in Slices : SliceOK(c, mem'[c], mem.seq)
        /\ \A c \in Maps : MapOK(c, mem'[c])
    BY <1>2, StoreFacts
  <2>2. MemOK(mem')
    BY <1>2, <2>1 DEF MemOK, Providers
  <2> QED
    BY <2>2 DEF StoreInv
<1>4. Documents' = [Documents EXCEPT !["meta"] = MetaDocs(mem'.provider, mem'.schema)]
  <2> DEFINE map(m, d) == {m[d][k] : k \in DOMAIN m[d]}
  <2>1. Documents = [d \in Slices \cup Maps \cup {"meta"} |->
                       IF d \in Slices THEN Range(mem[d])
                       ELSE IF d \in Maps THEN map(mem, d) ELSE MetaDocs(mem.provider, mem.schema)]
    BY DEF Documents, MetaDocs, Provider, Schema
  <2>2. Documents' = [d \in Slices \cup Maps \cup {"meta"} |->
                       IF d \in Slices THEN Range(mem'[d])
                       ELSE IF d \in Maps THEN map(mem', d)
                       ELSE MetaDocs(mem'.provider, mem'.schema)]
    BY DEF Documents, MetaDocs, Provider, Schema
  <2>3. \A d \in Maps : map(mem', d) = map(mem, d)
    BY <1>2
  <2> HIDE DEF map
  <2> QED
    BY <1>2, <2>1, <2>2, <2>3, FieldsDiffer
<1>5. (1..mem.seq)' = 1..mem.seq
  BY <1>2
<1> QED
  BY <1>3, <1>4, <1>5 DEF Mongo!Store, Mongo!Write

\* firstSeenAt is the time of the first save.
LEMMA SaveProviderStep ==
  ASSUME StoreInv, NEW v \in Settings, SaveProvider(v)
  PROVE  StoreInv' /\ Mongo!SaveProvider(v)
<1> DEFINE p == [value |-> v, first |-> IF mem.provider = NoProvider THEN now
                                        ELSE mem.provider[1].first]
<1> DEFINE old == Mongo!WithId("meta", "provider")
<1> DEFINE first == IF old = {} THEN now ELSE (CHOOSE d \in old : TRUE).first
<1>1. /\ mem' = [mem EXCEPT !.provider = <<p>>] /\ now' = now
      /\ ans' = [op |-> "SaveProvider", err |-> "none", docs |-> << >>, n |-> 1]
  BY DEF SaveProvider, Return
<1>2. mem.provider \in Providers /\ mem.schema \in Counts /\ now \in Mongo!Times
  BY DEF StoreInv, MemOK, Providers
<1>3. mem = [f \in Fields |-> mem[f]]
  BY StoreFacts
<1>4. old = {d \in MetaDocs(mem.provider, mem.schema) : d.id = "provider"}
  BY MetaIs DEF Mongo!WithId
<1>5. old = {Provider(q) : q \in Range(mem.provider)}
  <2>1. \A q : Provider(q).id = "provider"
    BY DEF Provider
  <2>2. \A n : Schema(n).id # "provider"
    BY DEF Schema
  <2> HIDE DEF old
  <2> QED
    BY <1>4, <2>1, <2>2 DEF MetaDocs
<1>6. p \in [value : Settings, first : Mongo!Times] /\ p.first = first /\ p.value = v
  <2>1. CASE mem.provider = NoProvider
    <3>1. old = {}
      BY <1>5, <2>1 DEF NoProvider, Range
    <3> QED
      BY <1>2, <2>1, <3>1
  <2>2. CASE mem.provider # NoProvider
    <3>1. PICK q \in [value : Settings, first : Mongo!Times] : mem.provider = <<q>>
      BY <1>2, <2>2 DEF Providers
    <3>2. old = {Provider(q)}
      BY <1>5, <3>1 DEF Range
    <3>3. first = q.first
      <4>1. (CHOOSE d \in old : TRUE) = Provider(q)
        BY <3>2
      <4> HIDE DEF old
      <4> QED
        BY <3>2, <4>1 DEF Provider
    <3> QED
      BY <2>2, <3>1, <3>3
  <2> QED
    BY <2>1, <2>2
<1>7. Documents["meta"] \ old = {Schema(n) : n \in {mem.schema} \ {0}}
  <2>1. \A n : Schema(n).id # "provider"
    BY DEF Schema
  <2>2. \A q : Provider(q).id = "provider"
    BY DEF Provider
  <2> HIDE DEF old
  <2> QED
    BY <1>5, <2>1, <2>2, MetaIs DEF MetaDocs
<1> HIDE DEF old, first, p
<1>8. <<p>> \in Providers /\ Range(<<p>>) = {p}
  BY <1>6 DEF Providers, Range
<1>9. StoreInv' /\ Mongo!Store("meta", MetaDocs(<<p>>, mem.schema))
  <2>1. /\ mem' = [f \in Fields |-> mem'[f]]
        /\ \A f \in Fields : f # "provider" => mem'[f] = mem[f]
        /\ mem'.provider = <<p>> /\ mem'.schema = mem.schema
    BY <1>1, <1>3, FieldsDiffer
  <2> QED
    BY <1>1, <1>2, <1>8, <2>1, WriteMeta
<1>10. MetaDocs(<<p>>, mem.schema) = (Documents["meta"] \ old) \cup {Provider(p)}
  BY <1>7, <1>8 DEF MetaDocs
<1>11. Provider(p) = [id |-> "provider", value |-> v, first |-> first]
  BY <1>6 DEF Provider
<1> QED
  BY <1>1, <1>9, <1>10, <1>11 DEF Mongo!SaveProvider, Mongo!Reply, old, first

\* The version is replaced, the provider is not.
LEMMA SetSchemaVersionStep ==
  ASSUME StoreInv, NEW n \in 1..MaxCount, SetSchemaVersion(n)
  PROVE  StoreInv' /\ Mongo!SetSchemaVersion(n)
<1> DEFINE old == Mongo!WithId("meta", "schema")
<1>1. /\ mem' = [mem EXCEPT !.schema = n] /\ now' = now
      /\ ans' = [op |-> "SetSchemaVersion", err |-> "none", docs |-> << >>, n |-> 1]
  BY DEF SetSchemaVersion, Return
<1>2. mem.provider \in Providers /\ n \in Counts /\ n # 0
  BY MemStoreAssumption DEF StoreInv, MemOK, Providers, Counts
<1>3. mem = [f \in Fields |-> mem[f]]
  BY StoreFacts
<1>4. Documents["meta"] \ old = {Provider(q) : q \in Range(mem.provider)}
  <2>1. \A k : Schema(k).id = "schema"
    BY DEF Schema
  <2>2. \A q : Provider(q).id # "schema"
    BY DEF Provider
  <2>3. old = {d \in MetaDocs(mem.provider, mem.schema) : d.id = "schema"}
    BY MetaIs DEF Mongo!WithId
  <2> HIDE DEF old
  <2> QED
    BY <2>1, <2>2, <2>3, MetaIs DEF MetaDocs
<1>5. StoreInv' /\ Mongo!Store("meta", MetaDocs(mem.provider, n))
  <2>1. /\ mem' = [f \in Fields |-> mem'[f]]
        /\ \A f \in Fields : f # "schema" => mem'[f] = mem[f]
        /\ mem'.provider = mem.provider /\ mem'.schema = n
    BY <1>1, <1>3, FieldsDiffer
  <2> QED
    BY <1>1, <1>2, <2>1, WriteMeta
<1>6. MetaDocs(mem.provider, n) = (Documents["meta"] \ old) \cup {Schema(n)}
  <2> HIDE DEF old
  <2> QED
    BY <1>2, <1>4 DEF MetaDocs
<1> QED
  BY <1>1, <1>5, <1>6 DEF Mongo!SetSchemaVersion, Mongo!Reply, Schema

\* Time passes.
LEMMA TickStep ==
  ASSUME StoreInv, Tick
  PROVE  StoreInv' /\ Mongo!Tick
<1>1. now < Horizon /\ now' = now + 1 /\ mem' = mem /\ ans' = ans
  BY DEF Tick
<1>2. now' \in Mongo!Times
  BY <1>1, MemStoreAssumption DEF StoreInv, Mongo!Times
<1>3. StoreInv'
  BY <1>1, <1>2 DEF StoreInv
<1>4. Documents' = Documents /\ (1..mem.seq)' = 1..mem.seq
  BY <1>1 DEF Documents
<1> QED
  BY <1>1, <1>3, <1>4 DEF Mongo!Tick

-----------------------------------------------------------------------------
(* Every step of the store of the tests is a step of MongoDB's.            *)

LEMMA EventOpsStep == ASSUME StoreInv, EventOps PROVE StoreInv' /\ Mongo!EventOps
<1>1. CASE \E w \in Names, t \in Mongo!Times : CreateEvent(w, t)
  BY <1>1, CreateEventStep DEF Mongo!EventOps
<1>2. ASSUME NEW id \in Mongo!Ids, NEW t \in Mongo!Times, NEW s \in Mongo!EventStatuses,
             UpdateEvent(id, t, s)
      PROVE  StoreInv' /\ Mongo!EventOps
  BY <1>2, UpdateEventStep DEF Mongo!EventOps
<1>3. ASSUME NEW id \in Mongo!Ids, NEW c \in Names, SetChannel(id, c)
      PROVE  StoreInv' /\ Mongo!EventOps
  BY <1>3, SetChannelStep DEF Mongo!EventOps
<1>4. ASSUME NEW id \in Mongo!Ids, NEW n \in 0..MaxCount, SetMessages(id, n)
      PROVE  StoreInv' /\ Mongo!EventOps
  BY <1>4, SetMessagesStep DEF Mongo!EventOps, Counts
<1>5. ASSUME NEW id \in Mongo!Ids, NEW delta \in {-1, 1}, AddParticipantCount(id, delta)
      PROVE  StoreInv' /\ Mongo!EventOps
  BY <1>5, AddParticipantCountStep DEF Mongo!EventOps
<1> QED
  BY <1>1, <1>2, <1>3, <1>4, <1>5, Zenon DEF EventOps

\* A participant has no expiry, a peeker has one: both are dates.
LEMMA ParticipationOpsStep ==
  ASSUME StoreInv, ParticipationOps PROVE StoreInv' /\ Mongo!ParticipationOps
<1>1. ASSUME NEW e \in Names, NEW u \in Names, NEW r \in Mongo!Roles, NEW t \in Dates,
             UpsertParticipation(e, u, r, t)
      PROVE  StoreInv' /\ Mongo!ParticipationOps
  <2>1. StoreInv' /\ Mongo!UpsertParticipation(e, u, r, t)
    BY <1>1, UpsertParticipationStep
  <2> QED
    BY <2>1 DEF Mongo!ParticipationOps, Dates
<1>2. ASSUME NEW id \in Mongo!Ids, NEW s \in Mongo!PartStatuses, SetStatus(id, s)
      PROVE  StoreInv' /\ Mongo!ParticipationOps
  BY <1>2, SetStatusStep DEF Mongo!ParticipationOps
<1>3. "participant" \in Mongo!Roles /\ "peeker" \in Mongo!Roles
      /\ Mongo!Never \in Dates /\ \A t \in Mongo!Times : t \in Dates
  BY DEF Mongo!Roles, Dates
<1> QED
  BY <1>1, <1>2, <1>3, Zenon DEF ParticipationOps

LEMMA JobOpsStep == ASSUME StoreInv, JobOps PROVE StoreInv' /\ Mongo!JobOps
<1>1. ASSUME NEW e \in Names, NEW k \in Mongo!JobKinds, NEW key \in Names \cup {0},
             NEW t \in Mongo!Times, Enqueue(e, k, key, t)
      PROVE  StoreInv' /\ Mongo!JobOps
  BY <1>1, EnqueueStep DEF Mongo!JobOps, Mongo!None
<1>2. ASSUME NEW lease \in Mongo!Times, Claim(lease) PROVE StoreInv' /\ Mongo!JobOps
  BY <1>2, ClaimStep DEF Mongo!JobOps
<1>3. ASSUME NEW id \in Mongo!Ids, Complete(id) PROVE StoreInv' /\ Mongo!JobOps
  BY <1>3, CompleteStep DEF Mongo!JobOps
<1>4. ASSUME NEW id \in Mongo!Ids, FailJob(id) PROVE StoreInv' /\ Mongo!JobOps
  BY <1>4, FailJobStep DEF Mongo!JobOps
<1>5. ASSUME NEW id \in Mongo!Ids, NEW t \in Mongo!Times, Retry(id, t)
      PROVE  StoreInv' /\ Mongo!JobOps
  BY <1>5, RetryStep DEF Mongo!JobOps
<1>6. ASSUME NEW id \in Mongo!Ids, NEW t \in Mongo!Times, Reschedule(id, t)
      PROVE  StoreInv' /\ Mongo!JobOps
  BY <1>6, RescheduleStep DEF Mongo!JobOps
<1>7. ASSUME NEW id \in Mongo!Ids, NEW t \in Mongo!Times, ExtendLease(id, t)
      PROVE  StoreInv' /\ Mongo!JobOps
  BY <1>7, ExtendLeaseStep DEF Mongo!JobOps
<1>8. ASSUME NEW e \in Names, NEW kinds \in SUBSET Mongo!JobKinds, CancelByEvent(e, kinds)
      PROVE  StoreInv' /\ Mongo!JobOps
  BY <1>8, CancelByEventStep DEF Mongo!JobOps
<1> QED
  BY <1>1, <1>2, <1>3, <1>4, <1>5, <1>6, <1>7, <1>8, Zenon DEF JobOps

LEMMA AccountOpsStep == ASSUME StoreInv, AccountOps PROVE StoreInv' /\ Mongo!AccountOps
<1>1. ASSUME NEW sub \in Names, CreateUser(sub) PROVE StoreInv' /\ Mongo!AccountOps
  BY <1>1, CreateUserStep DEF Mongo!AccountOps
<1>2. ASSUME NEW id \in Mongo!Ids, TouchLogin(id) PROVE StoreInv' /\ Mongo!AccountOps
  BY <1>2, TouchLoginStep DEF Mongo!AccountOps
<1>3. ASSUME NEW id \in Mongo!Ids, Unlink(id) PROVE StoreInv' /\ Mongo!AccountOps
  BY <1>3, UnlinkStep DEF Mongo!AccountOps
<1>4. ASSUME NEW u \in Names, NEW w \in Names, NEW c \in Names, Link(u, w, c, now)
      PROVE  StoreInv' /\ Mongo!AccountOps
  <2>1. now \in Mongo!Times
    BY DEF StoreInv
  <2>2. StoreInv' /\ Mongo!Link(u, w, c, now)
    BY <1>4, <2>1, LinkStep
  <2> QED
    BY <2>1, <2>2 DEF Mongo!AccountOps
<1> QED
  BY <1>1, <1>2, <1>3, <1>4, Zenon DEF AccountOps

LEMMA TokenOpsStep == ASSUME StoreInv, TokenOps PROVE StoreInv' /\ Mongo!TokenOps
<1>1. ASSUME NEW id \in Names, NEW c \in Names, NEW t \in Mongo!Times,
             CreateToken(id, c, t) \/ CreateSession(id, c, t)
      PROVE  StoreInv' /\ Mongo!TokenOps
  BY <1>1, CreateTokenStep, CreateSessionStep DEF Mongo!TokenOps
<1>2. ASSUME NEW id \in Names, NEW t \in Mongo!Times, CreateState(id, t)
      PROVE  StoreInv' /\ Mongo!TokenOps
  BY <1>2, CreateStateStep DEF Mongo!TokenOps
<1>3. ASSUME NEW id \in Names, ConsumeToken(id) \/ ConsumeState(id)
      PROVE  StoreInv' /\ Mongo!TokenOps
  BY <1>3, ConsumeTokenStep, ConsumeStateStep DEF Mongo!TokenOps
<1>4. ASSUME NEW id \in Names, TouchSession(id) \/ DeleteSession(id) \/ DeleteByUser(id)
      PROVE  StoreInv' /\ Mongo!TokenOps
  BY <1>4, TouchSessionStep, DeleteSessionStep, DeleteByUserStep DEF Mongo!TokenOps
<1> QED
  BY <1>1, <1>2, <1>3, <1>4, Zenon DEF TokenOps

\* The inductive step: the store stays typed, and MongoDB may do the same.
LEMMA StoreStep ==
  ASSUME StoreInv, [Next]_memVars
  PROVE  StoreInv' /\ [Mongo!Next]_(Mongo!storeVars)
<1>1. CASE MetaOps
  <2>1. StoreInv' /\ Mongo!MetaOps
    BY <1>1, SaveProviderStep, SetSchemaVersionStep DEF MetaOps, Mongo!MetaOps
  <2> QED
    BY <2>1 DEF Mongo!Next
<1>2. CASE WorkspaceOps
  <2>1. StoreInv' /\ Mongo!WorkspaceOps
    BY <1>2, UpsertWorkspaceStep, UpdateSettingsStep DEF WorkspaceOps, Mongo!WorkspaceOps
  <2> QED
    BY <2>1 DEF Mongo!Next
<1>3. CASE EventOps
  BY <1>3, EventOpsStep DEF Mongo!Next
<1>4. CASE ParticipationOps
  BY <1>4, ParticipationOpsStep DEF Mongo!Next
<1>5. CASE JobOps
  BY <1>5, JobOpsStep DEF Mongo!Next
<1>6. CASE LogOps
  <2>1. StoreInv' /\ Mongo!LogOps
    BY <1>6, AppendLogStep DEF LogOps, Mongo!LogOps, Counts
  <2> QED
    BY <2>1 DEF Mongo!Next
<1>7. CASE AccountOps
  BY <1>7, AccountOpsStep DEF Mongo!Next
<1>8. CASE TokenOps
  BY <1>8, TokenOpsStep DEF Mongo!Next
<1>9. CASE Tick
  BY <1>9, TickStep DEF Mongo!Next
<1>10. CASE UNCHANGED memVars
  <2>1. mem' = mem /\ now' = now /\ ans' = ans
    BY <1>10 DEF memVars
  <2>2. StoreInv'
    BY <2>1 DEF StoreInv
  <2>3. Documents' = Documents /\ (1..mem.seq)' = 1..mem.seq
    BY <2>1 DEF Documents
  <2> QED
    BY <2>1, <2>2, <2>3 DEF Mongo!storeVars
<1> QED
  BY <1>1, <1>2, <1>3, <1>4, <1>5, <1>6, <1>7, <1>8, <1>9, <1>10 DEF Next

\* Both stores begin empty.
LEMMA StoreStart == ASSUME Init PROVE Mongo!Init
<1>1. /\ mem.seq = 0 /\ mem.provider = << >> /\ mem.schema = 0
      /\ \A c \in Slices : mem[c] = << >>
      /\ \A c \in Maps : mem[c] = << >>
      /\ now = 0 /\ ans = Mongo!Nothing
  BY DEF Init, Slices, Maps, NoProvider
<1>2. Documents = [c \in Mongo!Collections |-> {}]
  <2>1. Range(<< >>) = {}
    BY DEF Range
  <2>2. Slices \cup Maps \cup {"meta"} = Mongo!Collections
    BY DEF Slices, Maps, Mongo!Collections
  <2>3. \A c \in Maps : {mem[c][k] : k \in DOMAIN mem[c]} = {}
    BY <1>1
  <2>4. Documents["meta"] = {}
    BY <1>1, <2>1, MetaIs DEF MetaDocs
  <2>5. \A c \in Slices : Documents[c] = {}
    BY <1>1, <2>1 DEF Documents
  <2>6. \A c \in Maps : Documents[c] = {}
    BY <2>3, FieldsDiffer DEF Documents
  <2>7. Documents = [c \in Slices \cup Maps \cup {"meta"} |-> Documents[c]]
    BY DEF Documents
  <2> QED
    BY <2>2, <2>4, <2>5, <2>6, <2>7
<1> QED
  BY <1>1, <1>2 DEF Mongo!Init

\* Records are what they should be, and no two of a collection have the same
\* id, in every state of the store of the tests.
THEOREM StoreTyped == ASSUME MemStoreAssumption PROVE Spec => []StoreInv
<1>1. Init => StoreInv
  BY InitStore
<1>2. StoreInv /\ [Next]_memVars => StoreInv'
  BY StoreStep
<1> QED
  BY <1>1, <1>2, PTL DEF Spec

\* memstore.go:2: whatever the use cases do, each operation of the tests'
\* store answers, and changes the documents, as one command of MongoDB may.
THEOREM ImplementsStore == ASSUME MemStoreAssumption PROVE Spec => ImplementsMongo
<1>1. Init => StoreInv /\ Mongo!Init
  BY InitStore, StoreStart
<1>2. StoreInv /\ [Next]_memVars => StoreInv' /\ [Mongo!Next]_(Mongo!storeVars)
  BY StoreStep
<1> QED
  BY <1>1, <1>2, PTL DEF Spec, ImplementsMongo, Mongo!Spec

-----------------------------------------------------------------------------
(* Listings: a set of places, sorted.                                      *)

StrictOrder(I, R) ==
  /\ \A i \in I : <<i, i>> \notin R
  /\ \A i, j, k \in I : <<i, j>> \in R /\ <<j, k>> \in R => <<i, k>> \in R
  /\ \A i, j \in I : i # j => <<i, j>> \in R \/ <<j, i>> \in R

Ahead(I, R, i) == {k \in I : <<k, i>> \in R}

\* What comes later has more before it.
LEMMA AheadFewer ==
  ASSUME NEW I, IsFiniteSet(I), NEW R, StrictOrder(I, R)
  PROVE  /\ \A i \in I : Cardinality(Ahead(I, R, i)) \in 0..(Cardinality(I) - 1)
         /\ \A i, j \in I : <<i, j>> \in R =>
              Cardinality(Ahead(I, R, i)) < Cardinality(Ahead(I, R, j))
<1>1. ASSUME NEW S \in SUBSET I, NEW t \in I, t \notin S, NEW U \in SUBSET I, S \cup {t} \subseteq U
      PROVE  /\ Cardinality(S) \in Nat /\ Cardinality(U) \in Nat
             /\ Cardinality(S) < Cardinality(U)
  <2>1. IsFiniteSet(S) /\ IsFiniteSet(U) /\ IsFiniteSet(S \cup {t})
    BY <1>1, FS_Subset, FS_AddElement
  <2>2. Cardinality(S \cup {t}) = Cardinality(S) + 1
    BY <1>1, <2>1, FS_AddElement
  <2>3. Cardinality(S \cup {t}) <= Cardinality(U)
    BY <1>1, <2>1, FS_Subset
  <2> QED
    BY <2>1, <2>2, <2>3, FS_CardinalityType
<1>2. ASSUME NEW i \in I PROVE Cardinality(Ahead(I, R, i)) \in 0..(Cardinality(I) - 1)
  <2>1. Ahead(I, R, i) \in SUBSET I /\ i \notin Ahead(I, R, i) /\ I \in SUBSET I
        /\ Ahead(I, R, i) \cup {i} \subseteq I
    BY DEF Ahead, StrictOrder
  <2> QED
    BY <2>1, <1>1
<1>3. ASSUME NEW i \in I, NEW j \in I, <<i, j>> \in R
      PROVE  Cardinality(Ahead(I, R, i)) < Cardinality(Ahead(I, R, j))
  <2>1. /\ Ahead(I, R, i) \in SUBSET I /\ i \notin Ahead(I, R, i)
        /\ Ahead(I, R, j) \in SUBSET I /\ Ahead(I, R, i) \cup {i} \subseteq Ahead(I, R, j)
    BY <1>3 DEF Ahead, StrictOrder
  <2> QED
    BY <2>1, <1>1
<1> QED
  BY <1>2, <1>3

\* Every number of predecessors occurs.
LEMMA EachRank ==
  ASSUME NEW I, IsFiniteSet(I), NEW R, StrictOrder(I, R), NEW k \in 1..Cardinality(I)
  PROVE  \E i \in I : Cardinality(Ahead(I, R, i)) = k - 1
<1> DEFINE n == Cardinality(I)
<1> DEFINE f == [i \in I |-> Cardinality(Ahead(I, R, i))]
<1>1. n \in Nat
  BY FS_CardinalityType
<1>2. IsFiniteSet(0..(n - 1)) /\ Cardinality(0..(n - 1)) = n
  <2> HIDE DEF n
  <2>1. 0 \in Int /\ n - 1 \in Int /\ (0 > n - 1 <=> n = 0)
    BY <1>1
  <2>2. /\ IsFiniteSet(0..(n - 1))
        /\ Cardinality(0..(n - 1)) = IF 0 > n - 1 THEN 0 ELSE (n - 1) - 0 + 1
    BY <2>1, FS_Interval
  <2> QED
    BY <1>1, <2>1, <2>2
<1>3. f \in Injection(I, 0..(n - 1))
  <2>1. f \in [I -> 0..(n - 1)]
    BY AheadFewer
  <2>2. ASSUME NEW i \in I, NEW j \in I, f[i] = f[j] PROVE i = j
    <3>1. f[i] \in Int
      BY <2>1, <1>1
    <3>2. <<i, j>> \notin R /\ <<j, i>> \notin R
      BY <2>2, <3>1, AheadFewer
    <3> QED
      BY <3>2 DEF StrictOrder
  <2> QED
    BY <2>1, <2>2 DEF Injection, IsInjective
<1>4. f \in Surjection(I, 0..(n - 1))
  BY <1>2, <1>3, FS_Injection
<1>5. k - 1 \in 0..(n - 1)
  BY <1>1
<1> QED
  BY <1>4, <1>5 DEF Surjection

\* Ranked is the enumeration of I in the order R.
LEMMA RankedIs ==
  ASSUME NEW I, IsFiniteSet(I), NEW R, StrictOrder(I, R)
  PROVE  /\ Cardinality(I) \in Nat
         /\ Ranked(I, R) \in [1..Cardinality(I) -> I]
         /\ \A m, n \in 1..Cardinality(I) : m < n => <<Ranked(I, R)[m], Ranked(I, R)[n]>> \in R
         /\ \A i \in I : \E n \in 1..Cardinality(I) : Ranked(I, R)[n] = i
         /\ \A n \in 1..Cardinality(I) : Cardinality(Ahead(I, R, Ranked(I, R)[n])) = n - 1
<1> DEFINE c == Cardinality(I)
<1> DEFINE s == Ranked(I, R)
<1>1. c \in Nat
  BY FS_CardinalityType
<1>2. s = [k \in 1..c |-> CHOOSE i \in I : Cardinality(Ahead(I, R, i)) = k - 1]
  BY DEF Ranked, Ahead
<1>3. ASSUME NEW k \in 1..c
      PROVE  s[k] \in I /\ Cardinality(Ahead(I, R, s[k])) = k - 1
  <2>1. s[k] = CHOOSE i \in I : Cardinality(Ahead(I, R, i)) = k - 1
    BY <1>2
  <2> QED
    BY <2>1, EachRank
<1>4. s \in [1..c -> I]
  BY <1>2, <1>3
<1>5. ASSUME NEW i \in I, NEW j \in I, Cardinality(Ahead(I, R, i)) = Cardinality(Ahead(I, R, j))
      PROVE  i = j
  <2>1. Cardinality(Ahead(I, R, i)) \in Int
    BY AheadFewer, <1>1
  <2>2. <<i, j>> \notin R /\ <<j, i>> \notin R
    BY <1>5, <2>1, AheadFewer
  <2> QED
    BY <2>2 DEF StrictOrder
<1>6. ASSUME NEW m \in 1..c, NEW n \in 1..c, m < n PROVE <<s[m], s[n]>> \in R
  <2>1. s[m] \in I /\ s[n] \in I
    BY <1>3
  <2>2. Cardinality(Ahead(I, R, s[m])) = m - 1 /\ Cardinality(Ahead(I, R, s[n])) = n - 1
    BY <1>3
  <2>3. s[m] # s[n]
    BY <1>1, <1>6, <2>2
  <2>4. <<s[n], s[m]>> \notin R
    <3>1. <<s[n], s[m]>> \in R => n - 1 < m - 1
      BY <2>1, <2>2, AheadFewer
    <3> QED
      BY <1>1, <1>6, <3>1
  <2> QED
    BY <2>1, <2>3, <2>4 DEF StrictOrder
<1>7. ASSUME NEW i \in I PROVE \E n \in 1..c : s[n] = i
  <2>1. Cardinality(Ahead(I, R, i)) + 1 \in 1..c
    BY AheadFewer, <1>1
  <2>2. Cardinality(Ahead(I, R, s[Cardinality(Ahead(I, R, i)) + 1])) = Cardinality(Ahead(I, R, i))
    BY <1>3, <2>1, AheadFewer, <1>1
  <2> QED
    BY <1>3, <1>5, <2>1, <2>2
<1> QED
  BY <1>1, <1>3, <1>4, <1>6, <1>7

\* R is the order by key; the places decide between equal keys.
ByKey(I, key, R) ==
  \A i, k \in I : <<i, k>> \in R <=> key[i] < key[k] \/ (~ (key[k] < key[i]) /\ i < k)

\* Numbers as keys, and the place where the keys are equal, order the places.
LEMMA KeyOrder ==
  ASSUME NEW I \in SUBSET Nat, NEW key \in [I -> Int], NEW R \in SUBSET (I \X I), ByKey(I, key, R)
  PROVE  /\ StrictOrder(I, R)
         /\ \A i, k \in I : <<i, k>> \in R => ~ (key[k] < key[i])
<1>1. \A i \in I : key[i] \in Int /\ i \in Nat
  OBVIOUS
<1> QED
  BY <1>1 DEF StrictOrder, ByKey

\* r is what Sorted returns for the places I, S the set of their documents.
Sorts(c, I, R, S, r) ==
  /\ \A d : d \in S <=> \E i \in I : mem[c][i] = d
  /\ r = [n \in DOMAIN Ranked(I, R) |-> mem[c][Ranked(I, R)[n]]]

\* r lists S in the order R of the places.
Lists(c, I, R, S, r) ==
  /\ r \in [1..Mongo!Cardinality(S) -> S]
  /\ \A m, n \in DOMAIN r : m < n =>
       /\ r[m] # r[n]
       /\ \E i, k \in I : r[m] = mem[c][i] /\ r[n] = mem[c][k] /\ <<i, k>> \in R

\* The sorted places stand for the documents of the set, in the order.
LEMMA Listed ==
  ASSUME StoreInv, NEW c \in Slices, NEW I \in SUBSET (1..Len(mem[c])), NEW R, StrictOrder(I, R),
         NEW S, NEW r, Sorts(c, I, R, S, r)
  PROVE  /\ Lists(c, I, R, S, r)
         /\ Mongo!Cardinality(S) = Cardinality(I) /\ Cardinality(I) \in Nat
         /\ \A d : d \in S <=> \E i \in I : mem[c][i] = d
<1> DEFINE s == mem[c]
<1> DEFINE q == Ranked(I, R)
<1> DEFINE l == Cardinality(I)
<1>1. /\ Len(s) \in Nat /\ DOMAIN s = 1..Len(s)
      /\ IdsDiffer(s)
  BY SliceDocs, StoreFacts DEF SliceOK
<1>2. IsFiniteSet(I) /\ Cardinality(S) = l
  <2> DEFINE n == Len(s)
  <2>1. n \in Nat /\ DOMAIN s = 1..n /\ IdsDiffer(s) /\ I \in SUBSET (1..n)
        /\ \A d : d \in S <=> \E i \in I : s[i] = d
    BY <1>1 DEF Sorts
  <2> HIDE DEF n, s
  <2> QED
    BY <2>1, CountIs
<1>3. /\ l \in Nat /\ q \in [1..l -> I]
      /\ \A m, n \in 1..l : m < n => <<q[m], q[n]>> \in R
  BY <1>2, RankedIs
<1>4. Mongo!Cardinality(S) = l
  BY <1>2, SameCount
<1>5. r = [n \in DOMAIN q |-> s[q[n]]]
  BY DEF Sorts
<1>6. \A d : d \in S <=> \E i \in I : s[i] = d
  BY DEF Sorts
<1> HIDE DEF q, s, l
<1>7. DOMAIN r = 1..l /\ \A n \in 1..l : q[n] \in I /\ r[n] = s[q[n]]
  BY <1>3, <1>5
<1>8. r \in [1..l -> S]
  BY <1>5, <1>6, <1>7, <1>3
<1>9. ASSUME NEW m \in 1..l, NEW n \in 1..l, m < n PROVE r[m] # r[n]
  <2>1. q[m] # q[n]
    <3>1. <<q[m], q[n]>> \in R /\ q[m] \in I
      BY <1>3, <1>7, <1>9
    <3> QED
      BY <3>1 DEF StrictOrder
  <2>2. q[m] \in DOMAIN s /\ q[n] \in DOMAIN s
    BY <1>1, <1>7 DEF s
  <2> QED
    BY <1>1, <1>7, <2>1, <2>2 DEF IdsDiffer
<1>10. ASSUME NEW m \in 1..l, NEW n \in 1..l, m < n
       PROVE  \E i, k \in I : r[m] = s[i] /\ r[n] = s[k] /\ <<i, k>> \in R
  BY <1>3, <1>7, <1>10
<1>11. r \in [1..Mongo!Cardinality(S) -> S]
  BY <1>4, <1>8
<1>12. ASSUME NEW m \in DOMAIN r, NEW n \in DOMAIN r, m < n
       PROVE  /\ r[m] # r[n]
              /\ \E i, k \in I : r[m] = mem[c][i] /\ r[n] = mem[c][k] /\ <<i, k>> \in R
  <2>1. m \in 1..l /\ n \in 1..l
    BY <1>7
  <2> QED
    BY <2>1, <1>9, <1>10, <1>12 DEF s
<1>13. Cardinality(I) = l
  BY DEF l
<1> QED
  BY <1>3, <1>4, <1>6, <1>11, <1>12, <1>13 DEF Lists, s

\* r lists S in the order of the keys.
KeySorted(c, I, key, S, r) ==
  /\ r \in [1..Mongo!Cardinality(S) -> S]
  /\ \A m, n \in DOMAIN r : m < n =>
       /\ r[m] # r[n]
       /\ \E i, k \in I : r[m] = mem[c][i] /\ r[n] = mem[c][k] /\ ~ (key[k] < key[i])

\* Sorted by a number of each record.
LEMMA ListedByKey ==
  ASSUME StoreInv, NEW c \in Slices, NEW I \in SUBSET (1..Len(mem[c])), NEW key \in [I -> Int],
         NEW R \in SUBSET (I \X I), ByKey(I, key, R),
         NEW S, NEW r, Sorts(c, I, R, S, r)
  PROVE  KeySorted(c, I, key, S, r)
<1>1. /\ StrictOrder(I, R)
      /\ \A i, k \in I : <<i, k>> \in R => ~ (key[k] < key[i])
  <2>1. I \in SUBSET Nat
    OBVIOUS
  <2> QED
    BY <2>1, KeyOrder
<1>2. Lists(c, I, R, S, r)
  BY <1>1, Listed
<1>3. r \in [1..Mongo!Cardinality(S) -> S]
  BY <1>2 DEF Lists
<1>4. ASSUME NEW m \in DOMAIN r, NEW n \in DOMAIN r, m < n
      PROVE  /\ r[m] # r[n]
             /\ \E i, k \in I : r[m] = mem[c][i] /\ r[n] = mem[c][k] /\ ~ (key[k] < key[i])
  <2>1. /\ r[m] # r[n]
        /\ \E i, k \in I : r[m] = mem[c][i] /\ r[n] = mem[c][k] /\ <<i, k>> \in R
    BY <1>2, <1>4 DEF Lists
  <2>2. PICK i \in I, k \in I : r[m] = mem[c][i] /\ r[n] = mem[c][k] /\ <<i, k>> \in R
    BY <2>1, Zenon
  <2>3. ~ (key[k] < key[i])
    BY <2>2, <1>1, Zenon
  <2> QED
    BY <2>1, <2>2, <2>3, Zenon
<1> QED
  BY <1>3, <1>4 DEF KeySorted

\* Sorted by a number that is a field of each record.
LEMMA ListedByField ==
  ASSUME StoreInv, NEW c \in Slices, NEW I \in SUBSET (1..Len(mem[c])), NEW f,
         \A i \in I : mem[c][i][f] \in Int,
         NEW R \in SUBSET (I \X I),
         \A i, k \in I : <<i, k>> \in R <=>
           mem[c][i][f] < mem[c][k][f] \/ (~ (mem[c][k][f] < mem[c][i][f]) /\ i < k),
         NEW S, NEW r, Sorts(c, I, R, S, r)
  PROVE  /\ r \in [1..Mongo!Cardinality(S) -> S]
         /\ \A m, n \in DOMAIN r : m < n => r[m] # r[n] /\ ~ (r[n][f] < r[m][f])
<1> DEFINE key == [i \in I |-> mem[c][i][f]]
<1>1. key \in [I -> Int] /\ \A i \in I : key[i] = mem[c][i][f]
  OBVIOUS
<1> HIDE DEF key
<1>2. ByKey(I, key, R)
  BY <1>1 DEF ByKey
<1>0. KeySorted(c, I, key, S, r)
  BY <1>1, <1>2, ListedByKey
<1>3. /\ r \in [1..Mongo!Cardinality(S) -> S]
      /\ \A m, n \in DOMAIN r : m < n =>
           /\ r[m] # r[n]
           /\ \E i, k \in I : r[m] = mem[c][i] /\ r[n] = mem[c][k] /\ ~ (key[k] < key[i])
  BY <1>0 DEF KeySorted
<1>4. ASSUME NEW m \in DOMAIN r, NEW n \in DOMAIN r, m < n
      PROVE  r[m] # r[n] /\ ~ (r[n][f] < r[m][f])
  <2>1. PICK i \in I, k \in I : r[m] = mem[c][i] /\ r[n] = mem[c][k] /\ ~ (key[k] < key[i])
    BY <1>3, <1>4
  <2>2. r[m] # r[n]
    BY <1>3, <1>4
  <2>3. key[k] = r[n][f] /\ key[i] = r[m][f]
    BY <2>1, <1>1, Zenon
  <2> QED
    BY <2>1, <2>2, <2>3, Zenon
<1> QED
  BY <1>3, <1>4, Zenon

\* The workspaces, by name.
LEMMA ListWorkspacesAgrees == ASSUME StoreInv PROVE ListWorkspaces \in Mongo!ListWorkspaces
<1> DEFINE s == mem["workspaces"]
<1> DEFINE I == {i \in DOMAIN s : TRUE}
<1> DEFINE R == {p \in I \X I :
                  \/ s[p[1]].name < s[p[2]].name
                  \/ ~ (s[p[2]].name < s[p[1]].name) /\ p[1] < p[2]}
<1> DEFINE S == Documents["workspaces"]
<1> DEFINE r == ListWorkspaces
<1>1. "workspaces" \in Slices
  BY DEF Slices
<1>2. /\ I \in SUBSET (1..Len(s))
      /\ \A i \in I : s[i].name \in Int
      /\ \A d : d \in S <=> \E i \in I : s[i] = d
  <2>1. /\ DOMAIN s = 1..Len(s)
        /\ \A i \in 1..Len(s) : s[i] \in S /\ s[i] \in Doc("workspaces")
        /\ \A d \in S : \E i \in 1..Len(s) : s[i] = d
    <3> HIDE DEF I, R, r
    <3> QED
      BY <1>1, SliceDocs
  <2>2. \A d \in Doc("workspaces") : d.name \in Int
    BY MemStoreAssumption DEF Doc
  <2> HIDE DEF s, S
  <2> QED
    BY <2>1, <2>2
<1>3. /\ R \in SUBSET (I \X I)
      /\ \A i, k \in I : <<i, k>> \in R <=>
           s[i].name < s[k].name \/ (~ (s[k].name < s[i].name) /\ i < k)
  <2> HIDE DEF s, I
  <2> QED
    OBVIOUS
<1>4. Sorts("workspaces", I, R, S, r)
  <2>1. r = [n \in DOMAIN Ranked(I, R) |-> s[Ranked(I, R)[n]]]
    BY Zenon DEF ListWorkspaces, Sorted
  <2> QED
    BY <2>1, <1>2 DEF Sorts
<1> HIDE DEF I, R
<1>5. /\ r \in [1..Mongo!Cardinality(S) -> S]
      /\ \A m, n \in DOMAIN r : m < n => r[m] # r[n] /\ ~ (r[n].name < r[m].name)
  <2> HIDE DEF r, S
  <2> QED
    BY <1>1, <1>2, <1>3, <1>4, ListedByField
<1> HIDE DEF r, S
<1> QED
  BY <1>5 DEF Mongo!ListWorkspaces, Mongo!Find, r, S

\* The participations of an event, in the order in which they joined.
LEMMA ListParticipationsAgrees ==
  ASSUME StoreInv, NEW event, NEW statuses
  PROVE  ListParticipations(event, statuses) \in Mongo!ListParticipations(event, statuses)
<1> DEFINE s == mem["participations"]
<1> DEFINE I == {i \in DOMAIN s : s[i].event = event /\ (statuses = {} \/ s[i].status \in statuses)}
<1> DEFINE R == {p \in I \X I :
                  \/ s[p[1]].joined < s[p[2]].joined
                  \/ ~ (s[p[2]].joined < s[p[1]].joined) /\ p[1] < p[2]}
<1> DEFINE S == Mongo!OfEvent("participations", event, statuses)
<1> DEFINE r == ListParticipations(event, statuses)
<1>1. "participations" \in Slices
  BY DEF Slices
<1>2. /\ I \in SUBSET (1..Len(s))
      /\ \A i \in I : s[i].joined \in Int
      /\ \A d : d \in S <=> \E i \in I : s[i] = d
  <2> DEFINE D == Documents["participations"]
  <2>1. /\ DOMAIN s = 1..Len(s)
        /\ \A i \in 1..Len(s) : s[i] \in D /\ s[i] \in Doc("participations")
        /\ \A d \in D : \E i \in 1..Len(s) : s[i] = d
    BY <1>1, SliceDocs
  <2>2. \A d \in Doc("participations") : d.joined \in Int
    BY MemStoreAssumption DEF Doc, Mongo!Times
  <2>3. S = {d \in D : d.event = event /\ (statuses = {} \/ d.status \in statuses)}
    BY Zenon DEF Mongo!OfEvent
  <2> HIDE DEF s, D, S
  <2> QED
    BY <2>1, <2>2, <2>3
<1>3. /\ R \in SUBSET (I \X I)
      /\ \A i, k \in I : <<i, k>> \in R <=>
           s[i].joined < s[k].joined \/ (~ (s[k].joined < s[i].joined) /\ i < k)
  <2> HIDE DEF s, I
  <2> QED
    OBVIOUS
<1>4. Sorts("participations", I, R, S, r)
  <2>1. r = [n \in DOMAIN Ranked(I, R) |-> s[Ranked(I, R)[n]]]
    BY Zenon DEF ListParticipations, ListByEvent, Sorted
  <2> QED
    BY <2>1, <1>2, Zenon DEF Sorts
<1> HIDE DEF I, R
<1>5. /\ r \in [1..Mongo!Cardinality(S) -> S]
      /\ \A m, n \in DOMAIN r : m < n => r[m] # r[n] /\ ~ (r[n].joined < r[m].joined)
  <2> HIDE DEF r, S
  <2> QED
    BY <1>1, <1>2, <1>3, <1>4, ListedByField
<1> HIDE DEF r, S
<1> QED
  BY <1>5 DEF Mongo!ListParticipations, Mongo!Find, r, S

\* The jobs of an event, in the order in which they are due.
LEMMA ListJobsAgrees ==
  ASSUME StoreInv, NEW event, NEW statuses
  PROVE  ListJobs(event, statuses) \in Mongo!ListJobs(event, statuses)
<1> DEFINE s == mem["jobs"]
<1> DEFINE I == {i \in DOMAIN s : s[i].event = event /\ (statuses = {} \/ s[i].status \in statuses)}
<1> DEFINE R == {p \in I \X I :
                  \/ s[p[1]].runAt < s[p[2]].runAt
                  \/ ~ (s[p[2]].runAt < s[p[1]].runAt) /\ p[1] < p[2]}
<1> DEFINE S == Mongo!OfEvent("jobs", event, statuses)
<1> DEFINE r == ListJobs(event, statuses)
<1>1. "jobs" \in Slices
  BY DEF Slices
<1>2. /\ I \in SUBSET (1..Len(s))
      /\ \A i \in I : s[i].runAt \in Int
      /\ \A d : d \in S <=> \E i \in I : s[i] = d
  <2> DEFINE D == Documents["jobs"]
  <2>1. /\ DOMAIN s = 1..Len(s)
        /\ \A i \in 1..Len(s) : s[i] \in D /\ s[i] \in Doc("jobs")
        /\ \A d \in D : \E i \in 1..Len(s) : s[i] = d
    BY <1>1, SliceDocs
  <2>2. \A d \in Doc("jobs") : d.runAt \in Int
    BY MemStoreAssumption DEF Doc, Mongo!Times
  <2>3. S = {d \in D : d.event = event /\ (statuses = {} \/ d.status \in statuses)}
    BY Zenon DEF Mongo!OfEvent
  <2> HIDE DEF s, D, S
  <2> QED
    BY <2>1, <2>2, <2>3
<1>3. /\ R \in SUBSET (I \X I)
      /\ \A i, k \in I : <<i, k>> \in R <=>
           s[i].runAt < s[k].runAt \/ (~ (s[k].runAt < s[i].runAt) /\ i < k)
  <2> HIDE DEF s, I
  <2> QED
    OBVIOUS
<1>4. Sorts("jobs", I, R, S, r)
  <2>1. r = [n \in DOMAIN Ranked(I, R) |-> s[Ranked(I, R)[n]]]
    BY Zenon DEF ListJobs, ListByEvent, Sorted
  <2> QED
    BY <2>1, <1>2, Zenon DEF Sorts
<1> HIDE DEF I, R
<1>5. /\ r \in [1..Mongo!Cardinality(S) -> S]
      /\ \A m, n \in DOMAIN r : m < n => r[m] # r[n] /\ ~ (r[n].runAt < r[m].runAt)
  <2> HIDE DEF r, S
  <2> QED
    BY <1>1, <1>2, <1>3, <1>4, ListedByField
<1> HIDE DEF r, S
<1> QED
  BY <1>5 DEF Mongo!ListJobs, Mongo!Find, r, S

\* The reminders sent for an event, in the order of sending.
LEMMA ListLogsAgrees ==
  ASSUME StoreInv, NEW event
  PROVE  ListLogs(event) \in Mongo!ListLogs(event)
<1> DEFINE s == mem["logs"]
<1> DEFINE I == {i \in DOMAIN s : s[i].event = event /\ ({} = {} \/ s[i].status \in {})}
<1> DEFINE R == {p \in I \X I :
                  \/ s[p[1]].sent < s[p[2]].sent
                  \/ ~ (s[p[2]].sent < s[p[1]].sent) /\ p[1] < p[2]}
<1> DEFINE S == Mongo!OfEvent("logs", event, {})
<1> DEFINE r == ListLogs(event)
<1>1. "logs" \in Slices
  BY DEF Slices
<1>2. /\ I \in SUBSET (1..Len(s))
      /\ \A i \in I : s[i].sent \in Int
      /\ \A d : d \in S <=> \E i \in I : s[i] = d
  <2> DEFINE D == Documents["logs"]
  <2>1. /\ DOMAIN s = 1..Len(s)
        /\ \A i \in 1..Len(s) : s[i] \in D /\ s[i] \in Doc("logs")
        /\ \A d \in D : \E i \in 1..Len(s) : s[i] = d
    BY <1>1, SliceDocs
  <2>2. \A d \in Doc("logs") : d.sent \in Int
    BY MemStoreAssumption DEF Doc, Mongo!Times
  <2>3. S = {d \in D : d.event = event /\ ({} = {} \/ d.status \in {})}
    BY Zenon DEF Mongo!OfEvent
  <2> HIDE DEF s, D, S
  <2> QED
    BY <2>1, <2>2, <2>3
<1>3. /\ R \in SUBSET (I \X I)
      /\ \A i, k \in I : <<i, k>> \in R <=>
           s[i].sent < s[k].sent \/ (~ (s[k].sent < s[i].sent) /\ i < k)
  <2> HIDE DEF s, I
  <2> QED
    OBVIOUS
<1>4. Sorts("logs", I, R, S, r)
  <2>1. r = [n \in DOMAIN Ranked(I, R) |-> s[Ranked(I, R)[n]]]
    BY Zenon DEF ListLogs, ListByEvent, Sorted
  <2> QED
    BY <2>1, <1>2, Zenon DEF Sorts
<1> HIDE DEF I, R
<1>5. /\ r \in [1..Mongo!Cardinality(S) -> S]
      /\ \A m, n \in DOMAIN r : m < n => r[m] # r[n] /\ ~ (r[n].sent < r[m].sent)
  <2> HIDE DEF r, S
  <2> QED
    BY <1>1, <1>2, <1>3, <1>4, ListedByField
<1> HIDE DEF r, S
<1> QED
  BY <1>5 DEF Mongo!ListLogs, Mongo!Find, r, S

\* The links of a user, in the order of linking.
LEMMA ListIdentitiesAgrees ==
  ASSUME StoreInv, NEW user
  PROVE  ListIdentities(user) \in Mongo!ListIdentities(user)
<1> DEFINE s == mem["identities"]
<1> DEFINE I == {i \in DOMAIN s : s[i].user = user}
<1> DEFINE R == {p \in I \X I :
                  \/ s[p[1]].linked < s[p[2]].linked
                  \/ ~ (s[p[2]].linked < s[p[1]].linked) /\ p[1] < p[2]}
<1> DEFINE S == {d \in Documents["identities"] : d.user = user}
<1> DEFINE r == ListIdentities(user)
<1>1. "identities" \in Slices
  BY DEF Slices
<1>2. /\ I \in SUBSET (1..Len(s))
      /\ \A i \in I : s[i].linked \in Int
      /\ \A d : d \in S <=> \E i \in I : s[i] = d
  <2> DEFINE D == Documents["identities"]
  <2>1. /\ DOMAIN s = 1..Len(s)
        /\ \A i \in 1..Len(s) : s[i] \in D /\ s[i] \in Doc("identities")
        /\ \A d \in D : \E i \in 1..Len(s) : s[i] = d
    BY <1>1, SliceDocs
  <2>2. \A d \in Doc("identities") : d.linked \in Int
    BY MemStoreAssumption DEF Doc, Mongo!Times
  <2>3. S = {d \in D : d.user = user}
    BY Zenon
  <2> HIDE DEF s, D, S
  <2> QED
    BY <2>1, <2>2, <2>3
<1>3. /\ R \in SUBSET (I \X I)
      /\ \A i, k \in I : <<i, k>> \in R <=>
           s[i].linked < s[k].linked \/ (~ (s[k].linked < s[i].linked) /\ i < k)
  <2> HIDE DEF s, I
  <2> QED
    OBVIOUS
<1>4. Sorts("identities", I, R, S, r)
  <2>1. r = [n \in DOMAIN Ranked(I, R) |-> s[Ranked(I, R)[n]]]
    BY Zenon DEF ListIdentities, Sorted
  <2> QED
    BY <2>1, <1>2, Zenon DEF Sorts
<1> HIDE DEF I, R
<1>5. /\ r \in [1..Mongo!Cardinality(S) -> S]
      /\ \A m, n \in DOMAIN r : m < n => r[m] # r[n] /\ ~ (r[n].linked < r[m].linked)
  <2> HIDE DEF r, S
  <2> QED
    BY <1>1, <1>2, <1>3, <1>4, ListedByField
<1> HIDE DEF r, S
<1> QED
  BY <1>5 DEF Mongo!ListIdentities, Mongo!Find, r, S

-----------------------------------------------------------------------------
(* The listing of events.                                                  *)

\* The two ways to say that an event is listed.
LEMMA MatchingIs ==
  ASSUME NEW filter, NEW cursor
  PROVE  Mongo!Matching(filter, cursor) =
           {e \in Documents["events"] :
              MatchesEventFilter(e, filter) /\ (cursor # << >> => BeforeCursor(e, cursor))}
<1> DEFINE D == Documents["events"]
<1>1. Mongo!Matching(filter, cursor) =
        {d \in D : /\ filter.workspace = 0 \/ d.workspace = filter.workspace
                   /\ filter.statuses = {} \/ d.status \in filter.statuses
                   /\ filter.ids = {} \/ d.id \in filter.ids
                   /\ filter.after = Mongo!Never \/ d.starts >= filter.after
                   /\ Mongo!PastCursor(d, cursor)}
  BY Zenon DEF Mongo!Matching, Mongo!None
<1> HIDE DEF D
<1>2. \A d : Mongo!PastCursor(d, cursor) <=> (cursor # << >> => BeforeCursor(d, cursor))
  BY Zenon DEF Mongo!PastCursor, Mongo!NoCursor, BeforeCursor
<1>3. \A d : MatchesEventFilter(d, filter) <=>
        /\ filter.workspace = 0 \/ d.workspace = filter.workspace
        /\ filter.statuses = {} \/ d.status \in filter.statuses
        /\ filter.ids = {} \/ d.id \in filter.ids
        /\ filter.after = Mongo!Never \/ d.starts >= filter.after
  BY Zenon DEF MatchesEventFilter
<1>4. \A d : MatchesEventFilter(d, filter) /\ (cursor # << >> => BeforeCursor(d, cursor)) <=>
        /\ filter.workspace = 0 \/ d.workspace = filter.workspace
        /\ filter.statuses = {} \/ d.status \in filter.statuses
        /\ filter.ids = {} \/ d.id \in filter.ids
        /\ filter.after = Mongo!Never \/ d.starts >= filter.after
        /\ Mongo!PastCursor(d, cursor)
  BY <1>2, <1>3, Zenon
<1> QED
  BY <1>1, <1>4, Zenon DEF D

\* Of two events the one that is listed first.
EventBefore(a, b) == a.starts > b.starts \/ (a.starts = b.starts /\ a.id > b.id)

\* The places of the events that are listed.
EventPlaces(filter, cursor) ==
  {i \in DOMAIN mem["events"] :
     /\ MatchesEventFilter(mem["events"][i], filter)
     /\ cursor # << >> => BeforeCursor(mem["events"][i], cursor)}

EventOrder(I) ==
  {p \in I \X I :
     \/ EventBefore(mem["events"][p[1]], mem["events"][p[2]])
     \/ ~ EventBefore(mem["events"][p[2]], mem["events"][p[1]]) /\ p[1] < p[2]}

LEMMA FilterEventsIs ==
  ASSUME NEW filter, NEW cursor, NEW I, I = EventPlaces(filter, cursor), NEW q,
         q = Ranked(I, EventOrder(I))
  PROVE  FilterEvents(filter, cursor) = [n \in DOMAIN q |-> mem["events"][q[n]]]
<1> DEFINE s == mem["events"]
<1> DEFINE J == {i \in DOMAIN s :
                   MatchesEventFilter(s[i], filter) /\ (cursor # << >> => BeforeCursor(s[i], cursor))}
<1> DEFINE R == {p \in J \X J :
                  \/ EventBefore(s[p[1]], s[p[2]])
                  \/ ~ EventBefore(s[p[2]], s[p[1]]) /\ p[1] < p[2]}
<1>1. FilterEvents(filter, cursor) = [n \in DOMAIN Ranked(J, R) |-> s[Ranked(J, R)[n]]]
  BY Zenon DEF FilterEvents, Sorted, EventBefore
<1>2. J = I
  BY DEF EventPlaces
<1>3. R = EventOrder(J)
  BY Zenon DEF EventOrder
<1> HIDE DEF J, R
<1> QED
  BY <1>1, <1>2, <1>3

\* The events have different ids, and so one of two is listed first.
LEMMA EventOrderIs ==
  ASSUME StoreInv, NEW I \in SUBSET (1..Len(mem["events"]))
  PROVE  /\ StrictOrder(I, EventOrder(I))
         /\ \A i, k \in I : <<i, k>> \in EventOrder(I) <=>
              EventBefore(mem["events"][i], mem["events"][k])
<1> DEFINE s == mem["events"]
<1> DEFINE R == EventOrder(I)
<1>1. /\ Len(s) \in Nat
      /\ \A i \in I : s[i].starts \in Int /\ s[i].id \in Int
      /\ \A i, k \in I : s[i].id = s[k].id => i = k
  <2>1. "events" \in Slices
    BY DEF Slices
  <2>2. /\ Len(s) \in Nat /\ DOMAIN s = 1..Len(s) /\ IdsDiffer(s)
        /\ \A i \in 1..Len(s) : s[i] \in Doc("events")
    BY <2>1, SliceDocs, StoreFacts DEF SliceOK
  <2>3. \A d \in Doc("events") : d.starts \in Int /\ d.id \in Int
    BY MemStoreAssumption DEF Doc, Mongo!Times
  <2>4. I \in SUBSET (1..Len(s))
    OBVIOUS
  <2> HIDE DEF s
  <2> QED
    BY <2>2, <2>3, <2>4 DEF IdsDiffer
<1>2. \A i, k \in I : <<i, k>> \in R <=>
        EventBefore(s[i], s[k]) \/ (~ EventBefore(s[k], s[i]) /\ i < k)
  <2>1. R = {p \in I \X I :
                \/ EventBefore(s[p[1]], s[p[2]])
                \/ ~ EventBefore(s[p[2]], s[p[1]]) /\ p[1] < p[2]}
    BY Zenon DEF EventOrder
  <2> HIDE DEF s, R
  <2> QED
    BY <2>1
<1> HIDE DEF s, R
<1>3. \A i, k \in I : /\ ~ EventBefore(s[i], s[i])
                      /\ i # k => EventBefore(s[i], s[k]) \/ EventBefore(s[k], s[i])
                      /\ EventBefore(s[i], s[k]) => ~ EventBefore(s[k], s[i])
  BY <1>1 DEF EventBefore
<1>4. \A i, j, k \in I : EventBefore(s[i], s[j]) /\ EventBefore(s[j], s[k]) => EventBefore(s[i], s[k])
  BY <1>1 DEF EventBefore
<1>5. \A i, k \in I : <<i, k>> \in R <=> EventBefore(s[i], s[k])
  <2>1. \A i \in I : ~ (i < i)
    BY <1>1
  <2> QED
    BY <1>2, <1>3, <2>1
<1> QED
  BY <1>3, <1>4, <1>5, Zenon DEF StrictOrder, s, R

\* The events that match, in the order in which MongoDB lists them.
LEMMA FilterEventsAgrees ==
  ASSUME StoreInv, NEW filter, NEW cursor
  PROVE  /\ FilterEvents(filter, cursor)
              \in Mongo!Find(Mongo!Matching(filter, cursor), Mongo!LaterFirst)
         /\ Len(FilterEvents(filter, cursor)) \in Nat
<1> DEFINE s == mem["events"]
<1> DEFINE I == EventPlaces(filter, cursor)
<1> DEFINE R == EventOrder(I)
<1> DEFINE S == Mongo!Matching(filter, cursor)
<1> DEFINE r == FilterEvents(filter, cursor)
<1>1. "events" \in Slices
  BY DEF Slices
<1>2. /\ I \in SUBSET (1..Len(s))
      /\ \A d : d \in S <=> \E i \in I : s[i] = d
  <2> DEFINE D == Documents["events"]
  <2> DEFINE Wanted(e) ==
        MatchesEventFilter(e, filter) /\ (cursor # << >> => BeforeCursor(e, cursor))
  <2>1. /\ DOMAIN s = 1..Len(s)
        /\ \A i \in 1..Len(s) : s[i] \in D
        /\ \A d \in D : \E i \in 1..Len(s) : s[i] = d
    BY <1>1, SliceDocs
  <2>2. S = {d \in D : Wanted(d)}
    BY MatchingIs, Zenon
  <2>3. I = {i \in DOMAIN s : Wanted(s[i])}
    BY Zenon DEF EventPlaces
  <2> HIDE DEF s, D, S, I, Wanted
  <2> QED
    BY <2>1, <2>2, <2>3
<1>3. Sorts("events", I, R, S, r)
  <2>1. r = [n \in DOMAIN Ranked(I, R) |-> s[Ranked(I, R)[n]]]
    <3> DEFINE q == Ranked(I, R)
    <3> HIDE DEF I
    <3>1. I = EventPlaces(filter, cursor) /\ q = Ranked(I, EventOrder(I))
      BY DEF I
    <3> HIDE DEF q, R
    <3>2. r = [n \in DOMAIN q |-> s[q[n]]]
      BY <3>1, FilterEventsIs
    <3> QED
      BY <3>2, Zenon DEF q
  <2> QED
    BY <2>1, <1>2, Zenon DEF Sorts
<1>4. /\ StrictOrder(I, R)
      /\ \A i, k \in I : <<i, k>> \in R <=> EventBefore(s[i], s[k])
  BY <1>2, EventOrderIs
<1>5. \A i, k \in I : EventBefore(s[i], s[k]) => ~ EventBefore(s[k], s[i])
  BY <1>4, Zenon DEF StrictOrder
<1> HIDE DEF I, R, S, r
<1>8. Lists("events", I, R, S, r) /\ Mongo!Cardinality(S) \in Nat
  <2>1. /\ Lists("events", I, R, S, r)
        /\ Mongo!Cardinality(S) = Cardinality(I) /\ Cardinality(I) \in Nat
    <3>1. I \in SUBSET (1..Len(mem["events"])) /\ StrictOrder(I, R)
      BY <1>2, <1>4
    <3> HIDE DEF s
    <3> QED
      BY <1>1, <1>3, <3>1, Listed
  <2> QED
    BY <2>1
<1>9. r \in [1..Mongo!Cardinality(S) -> S]
  BY <1>8 DEF Lists
<1>10. ASSUME NEW m \in DOMAIN r, NEW n \in DOMAIN r, m < n
       PROVE  r[m] # r[n] /\ ~ EventBefore(r[n], r[m])
  <2>1. /\ r[m] # r[n]
        /\ \E i, k \in I : r[m] = s[i] /\ r[n] = s[k] /\ <<i, k>> \in R
    BY <1>8, <1>10 DEF Lists
  <2>2. PICK i \in I, k \in I : r[m] = s[i] /\ r[n] = s[k] /\ <<i, k>> \in R
    BY <2>1, Zenon
  <2>3. ~ EventBefore(r[n], r[m])
    BY <2>2, <1>4, <1>5, Zenon
  <2> QED
    BY <2>1, <2>3
<1>11. r \in Mongo!Find(S, Mongo!LaterFirst)
  BY <1>9, <1>10 DEF Mongo!Find, Mongo!LaterFirst, EventBefore
<1>12. Len(r) \in Nat
  BY <1>8, <1>9
<1> QED
  BY <1>11, <1>12 DEF r, S

\* The size of a page is clamped in the same way.
LEMMA PageSizeIs ==
  ASSUME NEW n \in Int
  PROVE  PageSize(n) = Mongo!Limit(n) /\ PageSize(n) \in Nat
<1> DEFINE a == IF n <= 0 THEN DefaultPageSize ELSE n
<1>1. a \in Nat /\ MaxPageSize \in Nat
  BY MemStoreAssumption
<1> HIDE DEF a
<1>2. Min({a, MaxPageSize}) = IF a > MaxPageSize THEN MaxPageSize ELSE a
  BY <1>1 DEF Min
<1> QED
  BY <1>1, <1>2 DEF PageSize, Mongo!Limit, a

\* A page, and the cursor of the next one.
LEMMA ListEventsAgrees ==
  ASSUME StoreInv, NEW filter, NEW n \in Int, NEW cursor
  PROVE  ListEvents(filter, n, cursor) \in Mongo!ListEvents(filter, n, cursor)
<1> DEFINE r == FilterEvents(filter, cursor)
<1> DEFINE z == Mongo!Limit(n)
<1>1. r \in Mongo!Find(Mongo!Matching(filter, cursor), Mongo!LaterFirst) /\ Len(r) \in Nat
  BY FilterEventsAgrees
<1>2. PageSize(n) = z /\ z \in Nat
  BY PageSizeIs
<1>3. ListEvents(filter, n, cursor) =
        IF Len(r) > z THEN [events |-> SubSeq(r, 1, z), next |-> <<r[z].starts, r[z].id>>]
        ELSE [events |-> r, next |-> << >>]
  BY <1>2, Zenon DEF ListEvents
<1> HIDE DEF r, z
<1>4. ListEvents(filter, n, cursor) =
        IF Len(r) <= z THEN [events |-> r, next |-> << >>]
        ELSE [events |-> SubSeq(r, 1, z), next |-> <<r[z].starts, r[z].id>>]
  BY <1>1, <1>2, <1>3
<1> QED
  BY <1>1, <1>4 DEF Mongo!ListEvents, Mongo!NoCursor, z

-----------------------------------------------------------------------------
(* Reads of one record, and counts.                                        *)

\* GetAt is what FindOne may return.
LEMMA GetAtAgrees ==
  ASSUME NEW c, NEW i, NEW S, i = 0 => S = {}, i # 0 => mem[c][i] \in S
  PROVE  GetAt(c, i) \in Mongo!FindOne(S)
BY DEF GetAt, Mongo!FindOne

\* The record with an id.
LEMMA GetAgrees ==
  ASSUME StoreInv, NEW c \in Slices, NEW id
  PROVE  GetAt(c, FindId(c, id)) \in Mongo!Get(c, id)
<1> DEFINE i == FindId(c, id)
<1> DEFINE S == Mongo!WithId(c, id)
<1>1. (i = 0 => S = {}) /\ (i # 0 => mem[c][i] \in S)
  <2>1. /\ i = 0 => S = {}
        /\ i # 0 => S = {mem[c][i]}
    BY FindIdIs
  <2> HIDE DEF i, S
  <2> QED
    BY <2>1
<1> HIDE DEF i, S
<1>2. GetAt(c, i) \in Mongo!FindOne(S)
  BY <1>1, GetAtAgrees
<1> QED
  BY <1>2 DEF i, S, Mongo!Get

\* The value with a key.
LEMMA GetKeyAgrees ==
  ASSUME StoreInv, NEW c \in Maps, NEW id
  PROVE  GetKey(c, id) \in Mongo!Get(c, id)
<1>1. Mongo!WithId(c, id) = IF id \in DOMAIN mem[c] THEN {mem[c][id]} ELSE {}
  BY MapDocs
<1> QED
  BY <1>1 DEF GetKey, Mongo!Get, Mongo!FindOne

Found(c, i, S) ==
  /\ GetAt(c, i) \in Mongo!FindOne(S)
  /\ i # 0 <=> S # {}

\* The first that matches stands for the set of those that match.
LEMMA FoundAgrees ==
  ASSUME StoreInv, NEW c \in Slices, NEW I \in SUBSET (1..Len(mem[c])), NEW i, i = Place(I),
         NEW S, \A d : d \in S <=> \E k \in I : mem[c][k] = d
  PROVE  Found(c, i, S)
<1>1. /\ i = 0 <=> I = {}
      /\ i # 0 => i \in I /\ i \in DOMAIN mem[c] /\ mem[c][i] \in Documents[c]
                  /\ mem[c][i] \in Doc(c)
  BY FirstIs
<1>2. (i = 0 => S = {}) /\ (i # 0 => mem[c][i] \in S)
  BY <1>1
<1> QED
  BY <1>2, GetAtAgrees DEF Found

\* The workspace with the key.
LEMMA GetByExternalIDAgrees ==
  ASSUME StoreInv, NEW key
  PROVE  GetAt("workspaces", FindWorkspace(key)) \in Mongo!GetByExternalID(key)
<1> DEFINE s == mem["workspaces"]
<1> DEFINE D == Documents["workspaces"]
<1> DEFINE I == {k \in 1..Len(s) : s[k].key = key}
<1> DEFINE S == Mongo!WithKey(key)
<1>1. "workspaces" \in Slices
  BY DEF Slices
<1>2. /\ I \in SUBSET (1..Len(s))
      /\ \A d : d \in S <=> \E k \in I : s[k] = d
  <2>1. /\ DOMAIN s = 1..Len(s)
        /\ \A k \in 1..Len(s) : s[k] \in D
        /\ \A d \in D : \E k \in 1..Len(s) : s[k] = d
    BY <1>1, SliceDocs
  <2>2. S = {d \in D : d.key = key}
    BY Zenon DEF Mongo!WithKey
  <2> HIDE DEF s, D, S
  <2> QED
    BY <2>1, <2>2
<1> DEFINE i == FindWorkspace(key)
<1>3. i = Place(I)
  BY DEF FindWorkspace, First, SelectInSeq, Place
<1> HIDE DEF I, S, i
<1>4. Found("workspaces", i, S)
  BY <1>1, <1>2, <1>3, FoundAgrees
<1> QED
  BY <1>4 DEF Found, i, S, Mongo!GetByExternalID

\* The event that has the channel.
LEMMA GetByChannelIDAgrees ==
  ASSUME StoreInv, NEW channel
  PROVE  GetAt("events", First("events", LAMBDA e : e.channel = channel)) \in Mongo!GetByChannelID(channel)
<1> DEFINE s == mem["events"]
<1> DEFINE D == Documents["events"]
<1> DEFINE I == {k \in 1..Len(s) : s[k].channel = channel}
<1> DEFINE S == {d \in Documents["events"] : d.channel = channel}
<1>1. "events" \in Slices
  BY DEF Slices
<1>2. /\ I \in SUBSET (1..Len(s))
      /\ \A d : d \in S <=> \E k \in I : s[k] = d
  <2>1. /\ DOMAIN s = 1..Len(s)
        /\ \A k \in 1..Len(s) : s[k] \in D
        /\ \A d \in D : \E k \in 1..Len(s) : s[k] = d
    BY <1>1, SliceDocs
  <2>2. S = {d \in D : d.channel = channel}
    BY Zenon
  <2> HIDE DEF s, D, S
  <2> QED
    BY <2>1, <2>2
<1> DEFINE i == First("events", LAMBDA e : e.channel = channel)
<1>3. i = Place(I)
  BY DEF First, SelectInSeq, Place
<1> HIDE DEF I, S, i
<1>4. Found("events", i, S)
  BY <1>1, <1>2, <1>3, FoundAgrees
<1> QED
  BY <1>4 DEF Found, i, S, Mongo!GetByChannelID

\* The participation of the user.
LEMMA GetByUserAgrees ==
  ASSUME StoreInv, NEW event, NEW user
  PROVE  GetAt("participations", FindParticipation(event, user)) \in Mongo!GetByUser(event, user)
<1> DEFINE s == mem["participations"]
<1> DEFINE D == Documents["participations"]
<1> DEFINE I == {k \in 1..Len(s) : s[k].event = event /\ s[k].user = user}
<1> DEFINE S == Mongo!OfUser(event, user)
<1>1. "participations" \in Slices
  BY DEF Slices
<1>2. /\ I \in SUBSET (1..Len(s))
      /\ \A d : d \in S <=> \E k \in I : s[k] = d
  <2>1. /\ DOMAIN s = 1..Len(s)
        /\ \A k \in 1..Len(s) : s[k] \in D
        /\ \A d \in D : \E k \in 1..Len(s) : s[k] = d
    BY <1>1, SliceDocs
  <2>2. S = {d \in D : d.event = event /\ d.user = user}
    BY Zenon DEF Mongo!OfUser
  <2> HIDE DEF s, D, S
  <2> QED
    BY <2>1, <2>2
<1> DEFINE i == FindParticipation(event, user)
<1>3. i = Place(I)
  BY DEF FindParticipation, First, SelectInSeq, Place
<1> HIDE DEF I, S, i
<1>4. Found("participations", i, S)
  BY <1>1, <1>2, <1>3, FoundAgrees
<1> QED
  BY <1>4 DEF Found, i, S, Mongo!GetByUser

\* The user with the Google account.
LEMMA GetByGoogleSubAgrees ==
  ASSUME StoreInv, NEW sub
  PROVE  GetAt("users", First("users", LAMBDA u : u.sub = sub)) \in Mongo!GetByGoogleSub(sub)
<1> DEFINE s == mem["users"]
<1> DEFINE D == Documents["users"]
<1> DEFINE I == {k \in 1..Len(s) : s[k].sub = sub}
<1> DEFINE S == {d \in Documents["users"] : d.sub = sub}
<1>1. "users" \in Slices
  BY DEF Slices
<1>2. /\ I \in SUBSET (1..Len(s))
      /\ \A d : d \in S <=> \E k \in I : s[k] = d
  <2>1. /\ DOMAIN s = 1..Len(s)
        /\ \A k \in 1..Len(s) : s[k] \in D
        /\ \A d \in D : \E k \in 1..Len(s) : s[k] = d
    BY <1>1, SliceDocs
  <2>2. S = {d \in D : d.sub = sub}
    BY Zenon
  <2> HIDE DEF s, D, S
  <2> QED
    BY <2>1, <2>2
<1> DEFINE i == First("users", LAMBDA u : u.sub = sub)
<1>3. i = Place(I)
  BY DEF First, SelectInSeq, Place
<1> HIDE DEF I, S, i
<1>4. Found("users", i, S)
  BY <1>1, <1>2, <1>3, FoundAgrees
<1> QED
  BY <1>4 DEF Found, i, S, Mongo!GetByGoogleSub

\* The link of the chat user.
LEMMA GetIdentityAgrees ==
  ASSUME StoreInv, NEW workspace, NEW chat
  PROVE  GetAt("identities", FindIdentity(workspace, chat)) \in Mongo!GetIdentity(workspace, chat)
<1> DEFINE s == mem["identities"]
<1> DEFINE D == Documents["identities"]
<1> DEFINE I == {k \in 1..Len(s) : s[k].workspace = workspace /\ s[k].chat = chat}
<1> DEFINE S == Mongo!OfChat(workspace, chat)
<1>1. "identities" \in Slices
  BY DEF Slices
<1>2. /\ I \in SUBSET (1..Len(s))
      /\ \A d : d \in S <=> \E k \in I : s[k] = d
  <2>1. /\ DOMAIN s = 1..Len(s)
        /\ \A k \in 1..Len(s) : s[k] \in D
        /\ \A d \in D : \E k \in 1..Len(s) : s[k] = d
    BY <1>1, SliceDocs
  <2>2. S = {d \in D : d.workspace = workspace /\ d.chat = chat}
    BY Zenon DEF Mongo!OfChat
  <2> HIDE DEF s, D, S
  <2> QED
    BY <2>1, <2>2
<1> DEFINE i == FindIdentity(workspace, chat)
<1>3. i = Place(I)
  BY DEF FindIdentity, First, SelectInSeq, Place
<1> HIDE DEF I, S, i
<1>4. Found("identities", i, S)
  BY <1>1, <1>2, <1>3, FoundAgrees
<1> QED
  BY <1>4 DEF Found, i, S, Mongo!GetIdentity

\* Whether a reminder for that time is in the log.
LEMMA SentAtAgrees ==
  ASSUME StoreInv, NEW event, NEW at
  PROVE  SentAt(event, at) = Mongo!SentAt(event, at)
<1> DEFINE s == mem["logs"]
<1> DEFINE D == Documents["logs"]
<1> DEFINE I == {k \in 1..Len(s) : s[k].event = event /\ s[k].at = at}
<1> DEFINE S == {d \in Mongo!OfEvent("logs", event, {}) : d.at = at}
<1>1. "logs" \in Slices
  BY DEF Slices
<1>2. /\ I \in SUBSET (1..Len(s))
      /\ \A d : d \in S <=> \E k \in I : s[k] = d
  <2>1. /\ DOMAIN s = 1..Len(s)
        /\ \A k \in 1..Len(s) : s[k] \in D
        /\ \A d \in D : \E k \in 1..Len(s) : s[k] = d
    BY <1>1, SliceDocs
  <2>2. S = {d \in D : d.event = event /\ d.at = at}
    BY Zenon DEF Mongo!OfEvent
  <2> HIDE DEF s, D, S
  <2> QED
    BY <2>1, <2>2
<1> DEFINE i == First("logs", LAMBDA l : l.event = event /\ l.at = at)
<1>3. i = Place(I)
  BY DEF First, SelectInSeq, Place
<1> HIDE DEF I, S, i
<1>4. Found("logs", i, S)
  BY <1>1, <1>2, <1>3, FoundAgrees
<1>5. SentAt(event, at) <=> i # 0
  BY DEF SentAt, i
<1>6. Mongo!SentAt(event, at) <=> S # {}
  BY DEF Mongo!SentAt, S
<1> QED
  BY <1>4, <1>5, <1>6 DEF Found, SentAt, Mongo!SentAt

\* Whether a reminder with that number is in the log.
LEMMA SentSequenceAgrees ==
  ASSUME StoreInv, NEW event, NEW n
  PROVE  SentSequence(event, n) = Mongo!SentSequence(event, n)
<1> DEFINE s == mem["logs"]
<1> DEFINE D == Documents["logs"]
<1> DEFINE I == {k \in 1..Len(s) : s[k].event = event /\ s[k].sequence = n}
<1> DEFINE S == {d \in Mongo!OfEvent("logs", event, {}) : d.sequence = n}
<1>1. "logs" \in Slices
  BY DEF Slices
<1>2. /\ I \in SUBSET (1..Len(s))
      /\ \A d : d \in S <=> \E k \in I : s[k] = d
  <2>1. /\ DOMAIN s = 1..Len(s)
        /\ \A k \in 1..Len(s) : s[k] \in D
        /\ \A d \in D : \E k \in 1..Len(s) : s[k] = d
    BY <1>1, SliceDocs
  <2>2. S = {d \in D : d.event = event /\ d.sequence = n}
    BY Zenon DEF Mongo!OfEvent
  <2> HIDE DEF s, D, S
  <2> QED
    BY <2>1, <2>2
<1> DEFINE i == First("logs", LAMBDA l : l.event = event /\ l.sequence = n)
<1>3. i = Place(I)
  BY DEF First, SelectInSeq, Place
<1> HIDE DEF I, S, i
<1>4. Found("logs", i, S)
  BY <1>1, <1>2, <1>3, FoundAgrees
<1>5. SentSequence(event, n) <=> i # 0
  BY DEF SentSequence, i
<1>6. Mongo!SentSequence(event, n) <=> S # {}
  BY DEF Mongo!SentSequence, S
<1> QED
  BY <1>4, <1>5, <1>6 DEF Found, SentSequence, Mongo!SentSequence

\* As many places as documents are counted.
LEMMA CountActiveAgrees ==
  ASSUME StoreInv, NEW event, NEW roles
  PROVE  CountActive(event, roles) = Mongo!CountActive(event, roles)
<1> DEFINE s == mem["participations"]
<1> DEFINE D == Documents["participations"]
<1> DEFINE I == {k \in 1..Len(s) : s[k].event = event /\ s[k].status = "active" /\ (roles = {} \/ s[k].role \in roles)}
<1> DEFINE S == {d \in Mongo!OfEvent("participations", event, {"active"}) : roles = {} \/ d.role \in roles}
<1>1. "participations" \in Slices
  BY DEF Slices
<1>2. /\ I \in SUBSET (1..Len(s))
      /\ \A d : d \in S <=> \E k \in I : s[k] = d
  <2>1. /\ DOMAIN s = 1..Len(s)
        /\ \A k \in 1..Len(s) : s[k] \in D
        /\ \A d \in D : \E k \in 1..Len(s) : s[k] = d
    BY <1>1, SliceDocs
  <2>2. S = {d \in D : d.event = event /\ d.status = "active" /\ (roles = {} \/ d.role \in roles)}
    BY Zenon DEF Mongo!OfEvent
  <2> HIDE DEF s, D, S
  <2> QED
    BY <2>1, <2>2
<1>3. Cardinality(S) = Cardinality(I)
  <2>1. Len(s) \in Nat /\ DOMAIN s = 1..Len(s) /\ IdsDiffer(s)
    BY <1>1, SliceDocs, StoreFacts DEF SliceOK
  <2> HIDE DEF s, I, S
  <2> QED
    BY <1>2, <2>1, CountIs
<1>4. CountActive(event, roles) = Cardinality(I)
  <2>1. DOMAIN s = 1..Len(s)
    BY <1>1, SliceDocs
  <2> QED
    BY <2>1, Zenon DEF CountActive
<1>5. Mongo!CountActive(event, roles) = Mongo!Cardinality(S)
  BY Zenon DEF Mongo!CountActive
<1> HIDE DEF I, S
<1> QED
  BY <1>3, <1>4, <1>5, SameCount

\* Every query, whatever it asks for, in every state of the tests' store gives an
\* answer that MongoDB may give on the same documents: the record that is found,
\* the listings with their order, the counts, and the pages of the events.
THEOREM ReadsRight == ASSUME MemStoreAssumption PROVE Spec => []ReadsAgree
<1>1. ASSUME StoreInv PROVE ReadsAgree
  <2>1. \A c \in Slices, id \in Mongo!Ids : GetAt(c, FindId(c, id)) \in Mongo!Get(c, id)
    BY <1>1, GetAgrees
  <2>2. \A c \in {"tokens", "sessions"}, id \in Names : GetKey(c, id) \in Mongo!Get(c, id)
    BY <1>1, GetKeyAgrees DEF Maps
  <2>3. ListWorkspaces \in Mongo!ListWorkspaces
    BY <1>1, ListWorkspacesAgrees
  <2>4. ASSUME NEW a \in Names, NEW b \in Names
        PROVE  /\ GetAt("workspaces", FindWorkspace(a)) \in Mongo!GetByExternalID(a)
               /\ GetAt("events", First("events", LAMBDA e : e.channel = a))
                    \in Mongo!GetByChannelID(a)
               /\ GetAt("participations", FindParticipation(a, b)) \in Mongo!GetByUser(a, b)
               /\ GetAt("users", First("users", LAMBDA u : u.sub = a)) \in Mongo!GetByGoogleSub(a)
               /\ GetAt("identities", FindIdentity(a, b)) \in Mongo!GetIdentity(a, b)
               /\ ListLogs(a) \in Mongo!ListLogs(a)
               /\ ListIdentities(a) \in Mongo!ListIdentities(a)
    BY <1>1, GetByExternalIDAgrees, GetByChannelIDAgrees, GetByUserAgrees, GetByGoogleSubAgrees,
       GetIdentityAgrees, ListLogsAgrees, ListIdentitiesAgrees
  <2>5. ASSUME NEW a \in Names
        PROVE  /\ \A S \in SUBSET {"active", "left"} :
                    ListParticipations(a, S) \in Mongo!ListParticipations(a, S)
               /\ \A S \in SUBSET {"pending", "canceled"} : ListJobs(a, S) \in Mongo!ListJobs(a, S)
               /\ \A R \in {{}} \cup {{r} : r \in Mongo!Roles} :
                    CountActive(a, R) = Mongo!CountActive(a, R)
               /\ \A t \in Mongo!Times : SentAt(a, t) = Mongo!SentAt(a, t)
               /\ \A n \in 0..MaxCount : SentSequence(a, n) = Mongo!SentSequence(a, n)
    BY <1>1, ListParticipationsAgrees, ListJobsAgrees, CountActiveAgrees, SentAtAgrees,
       SentSequenceAgrees
  <2>6. ASSUME NEW f \in Filters, NEW n \in 0..MaxPageSize + 1,
               NEW cursor \in {<< >>} \cup (Mongo!Times \X {e.id : e \in Range(mem.events)})
        PROVE  ListEvents(f, n, cursor) \in Mongo!ListEvents(f, n, cursor)
    BY <1>1, ListEventsAgrees
  <2> QED
    BY <2>1, <2>2, <2>3, <2>4, <2>5, <2>6, Zenon DEF ReadsAgree
<1>2. StoreInv => ReadsAgree
  BY <1>1
<1> QED
  BY <1>2, StoreTyped, PTL

-----------------------------------------------------------------------------
(* Pages.                                                                  *)

\* A listing of I in the order R is Ranked.
LEMMA RankedOnly ==
  ASSUME NEW I, IsFiniteSet(I), NEW R, StrictOrder(I, R), NEW c \in Nat, NEW q \in [1..c -> I],
         \A i \in I : \E n \in 1..c : q[n] = i,
         \A m, n \in 1..c : m < n => <<q[m], q[n]>> \in R
  PROVE  Ranked(I, R) = q
<1>1. \A m, n \in 1..c : <<q[m], q[n]>> \in R <=> m < n
  <2> SUFFICES ASSUME NEW m \in 1..c, NEW n \in 1..c, <<q[m], q[n]>> \in R PROVE m < n
    OBVIOUS
  <2>1. m # n
    BY DEF StrictOrder
  <2>2. ~ (n < m)
    <3>1. q[m] \in I /\ q[n] \in I
      OBVIOUS
    <3>2. n < m => <<q[n], q[m]>> \in R
      OBVIOUS
    <3> QED
      BY <3>1, <3>2, Zenon DEF StrictOrder
  <2> QED
    BY <2>1, <2>2
<1>2. \A m, n \in 1..c : q[m] = q[n] => m = n
  <2> SUFFICES ASSUME NEW m \in 1..c, NEW n \in 1..c, q[m] = q[n] PROVE m = n
    OBVIOUS
  <2>1. <<q[m], q[n]>> \notin R /\ <<q[n], q[m]>> \notin R
    BY DEF StrictOrder
  <2> QED
    BY <2>1
<1>3. Cardinality(I) = c
  <2>1. q \in Injection(1..c, I) /\ q \in Surjection(1..c, I)
    BY <1>2 DEF Injection, IsInjective, Surjection
  <2>2. IsFiniteSet(1..c) /\ Cardinality(1..c) = c
    BY FS_Interval
  <2> QED
    BY <2>1, <2>2, FS_Surjection
<1>4. ASSUME NEW n \in 1..c PROVE Cardinality(Ahead(I, R, q[n])) = n - 1
  <2> DEFINE A == Ahead(I, R, q[n])
  <2> DEFINE g == [m \in 1..(n - 1) |-> q[m]]
  <2>1. \A m \in 1..(n - 1) : m \in 1..c /\ m < n
    OBVIOUS
  <2>2. \A i : i \in A <=> \E m \in 1..(n - 1) : q[m] = i
    <3>1. ASSUME NEW i \in A PROVE \E m \in 1..(n - 1) : q[m] = i
      <4>1. i \in I /\ <<i, q[n]>> \in R
        BY <3>1 DEF Ahead
      <4>2. PICK m \in 1..c : q[m] = i
        BY <4>1
      <4>3. m < n
        BY <1>1, <4>1, <4>2
      <4> QED
        BY <4>2, <4>3
    <3>2. ASSUME NEW m \in 1..(n - 1) PROVE q[m] \in A
      BY <2>1, <1>1 DEF Ahead
    <3> QED
      BY <3>1, <3>2
  <2>3. g \in Injection(1..(n - 1), A) /\ g \in Surjection(1..(n - 1), A)
    <3> HIDE DEF A
    <3> QED
      BY <2>1, <2>2, <1>2 DEF Injection, IsInjective, Surjection
  <2>4. IsFiniteSet(1..(n - 1)) /\ Cardinality(1..(n - 1)) = n - 1
    BY FS_Interval
  <2> HIDE DEF A, g
  <2> QED
    BY <2>3, <2>4, FS_Surjection DEF A
<1> DEFINE s == Ranked(I, R)
<1>5. /\ s \in [1..c -> I]
      /\ \A n \in 1..c : Cardinality(Ahead(I, R, s[n])) = n - 1
  BY <1>3, RankedIs
<1> HIDE DEF s
<1>6. ASSUME NEW n \in 1..c PROVE s[n] = q[n]
  <2>1. PICK m \in 1..c : q[m] = s[n]
    BY <1>5
  <2>2. m - 1 = n - 1
    BY <2>1, <1>4, <1>5
  <2> QED
    BY <2>1, <2>2
<1> QED
  BY <1>5, <1>6 DEF s

\* The sorted list of events.
LEMMA ListIs ==
  ASSUME StoreInv, NEW filter, NEW cursor, NEW I, I = EventPlaces(filter, cursor),
         NEW q, q = Ranked(I, EventOrder(I)), NEW l, l = Cardinality(I)
  PROVE  /\ I \in SUBSET (1..Len(mem["events"])) /\ IsFiniteSet(I)
         /\ StrictOrder(I, EventOrder(I))
         /\ \A i, k \in I : <<i, k>> \in EventOrder(I) <=>
              EventBefore(mem["events"][i], mem["events"][k])
         /\ l \in Nat /\ l <= Len(mem["events"]) /\ q \in [1..l -> I]
         /\ \A m, n \in 1..l : m < n => <<q[m], q[n]>> \in EventOrder(I)
         /\ \A i \in I : \E n \in 1..l : q[n] = i
         /\ FilterEvents(filter, cursor) = [n \in 1..l |-> mem["events"][q[n]]]
         /\ FilterEvents(filter, cursor) \in Seq(Doc("events"))
         /\ Len(FilterEvents(filter, cursor)) = l
<1> DEFINE s == mem["events"]
<1> DEFINE R == EventOrder(I)
<1>1. "events" \in Slices
  BY DEF Slices
<1>2. /\ Len(s) \in Nat /\ DOMAIN s = 1..Len(s)
      /\ \A i \in 1..Len(s) : s[i] \in Doc("events")
  BY <1>1, SliceDocs
<1>3. I \in SUBSET (1..Len(s))
  <2>1. I \in SUBSET DOMAIN s
    BY DEF EventPlaces
  <2> HIDE DEF s
  <2> QED
    BY <1>2, <2>1
<1>4. IsFiniteSet(I) /\ l <= Len(s)
  <2>1. IsFiniteSet(1..Len(s)) /\ Cardinality(1..Len(s)) = Len(s)
    <3>1. Len(s) \in Int /\ 1 \in Int /\ (1 > Len(s) <=> Len(s) = 0)
      BY <1>2
    <3> QED
      BY <3>1, <1>2, FS_Interval
  <2> HIDE DEF s
  <2> QED
    BY <1>3, <2>1, FS_Subset
<1>5. /\ StrictOrder(I, R)
      /\ \A i, k \in I : <<i, k>> \in R <=> EventBefore(s[i], s[k])
  BY <1>3, EventOrderIs
<1>6. FilterEvents(filter, cursor) = [n \in DOMAIN q |-> s[q[n]]]
  BY FilterEventsIs
<1>7. q = Ranked(I, R)
  OBVIOUS
<1> HIDE DEF R, s
<1>8. /\ l \in Nat /\ q \in [1..l -> I]
      /\ \A m, n \in 1..l : m < n => <<q[m], q[n]>> \in R
      /\ \A i \in I : \E n \in 1..l : q[n] = i
  BY <1>4, <1>5, <1>7, RankedIs
<1>9. DOMAIN q = 1..l
  BY <1>8
<1> DEFINE M == [n \in 1..l |-> s[q[n]]]
<1>10. FilterEvents(filter, cursor) = M
  BY <1>6, <1>9
<1>11. M \in Seq(Doc("events")) /\ Len(M) = l
  <2> DEFINE D == Doc("events")
  <2>1. \A n \in 1..l : s[q[n]] \in D
    BY <1>2, <1>3, <1>8
  <2> HIDE DEF D
  <2>2. M \in [1..l -> D]
    BY <2>1
  <2> HIDE DEF M
  <2>3. M \in Seq(D) /\ Len(M) = l
    BY <1>8, <2>2
  <2> QED
    BY <2>3 DEF D
<1> HIDE DEF M
<1> QED
  BY <1>3, <1>4, <1>5, <1>8, <1>10, <1>11, Zenon DEF M, R, s

\* The event at which a page ends.
Cursor(M, m) == <<M[m].starts, M[m].id>>

\* What comes after a cursor is the rest of the list.
LEMMA AfterCursor ==
  ASSUME StoreInv, NEW filter, NEW M, M = FilterEvents(filter, << >>), NEW m \in 1..Len(M)
  PROVE  FilterEvents(filter, Cursor(M, m)) = SubSeq(M, m + 1, Len(M))
<1> DEFINE s == mem["events"]
<1> DEFINE D == Doc("events")
<1> DEFINE I == EventPlaces(filter, << >>)
<1> DEFINE R == EventOrder(I)
<1> DEFINE q == Ranked(I, R)
<1> DEFINE l == Cardinality(I)
<1> DEFINE cur == Cursor(M, m)
<1> DEFINE J == EventPlaces(filter, cur)
<1> DEFINE Q == EventOrder(J)
<1>1. /\ I \in SUBSET (1..Len(s)) /\ IsFiniteSet(I) /\ StrictOrder(I, R)
      /\ \A i, k \in I : <<i, k>> \in R <=> EventBefore(s[i], s[k])
      /\ l \in Nat /\ q \in [1..l -> I]
      /\ \A a, b \in 1..l : a < b => <<q[a], q[b]>> \in R
      /\ \A i \in I : \E a \in 1..l : q[a] = i
      /\ M = [a \in 1..l |-> s[q[a]]]
      /\ M \in Seq(D) /\ Len(M) = l
  BY ListIs
<1>2. FilterEvents(filter, cur) = [a \in DOMAIN Ranked(J, Q) |-> s[Ranked(J, Q)[a]]]
  <2> DEFINE p == Ranked(J, Q)
  <2> HIDE DEF J
  <2>1. J = EventPlaces(filter, cur) /\ p = Ranked(J, EventOrder(J))
    BY DEF J
  <2> HIDE DEF p, Q, cur
  <2>2. FilterEvents(filter, cur) = [a \in DOMAIN p |-> s[p[a]]]
    BY <2>1, FilterEventsIs
  <2> QED
    BY <2>2, Zenon DEF p
<1>3. J = {i \in I : EventBefore(M[m], s[i])}
  <2>1. cur # << >> /\ cur[1] = M[m].starts /\ cur[2] = M[m].id
    BY DEF Cursor
  <2>2. I = {i \in DOMAIN s : MatchesEventFilter(s[i], filter)}
    BY DEF EventPlaces
  <2>3. J = {i \in DOMAIN s : MatchesEventFilter(s[i], filter) /\ BeforeCursor(s[i], cur)}
    BY <2>1 DEF EventPlaces
  <2>4. ASSUME NEW i \in DOMAIN s PROVE BeforeCursor(s[i], cur) <=> EventBefore(M[m], s[i])
    <3>1. \A d \in D : d.starts \in Int /\ d.id \in Int
      BY MemStoreAssumption DEF Doc, Mongo!Times
    <3>2. s[i] \in D /\ M[m] \in D
      <4>1. "events" \in Slices
        BY DEF Slices
      <4>2. DOMAIN s = 1..Len(s) /\ \A k \in 1..Len(s) : s[k] \in D
        BY <4>1, SliceDocs
      <4> HIDE DEF s, D
      <4>3. M[m] \in D
        BY <1>1
      <4> QED
        BY <2>4, <4>2, <4>3
    <3> HIDE DEF s, D, cur
    <3>3. /\ s[i].starts \in Int /\ s[i].id \in Int
          /\ M[m].starts \in Int /\ M[m].id \in Int
      BY <3>1, <3>2
    <3> QED
      BY <2>1, <3>3 DEF BeforeCursor, EventBefore
  <2> HIDE DEF s, I, J, cur
  <2> QED
    BY <2>2, <2>3, <2>4
<1>4. StrictOrder(J, Q) /\ \A i, k \in J : <<i, k>> \in Q <=> EventBefore(s[i], s[k])
  <2>1. J \in SUBSET (1..Len(s))
    <3> HIDE DEF J, I
    <3> QED
      BY <1>1, <1>3
  <2> HIDE DEF J
  <2> QED
    BY <2>1, EventOrderIs
<1> HIDE DEF s, D, I, R, q, l, cur, J, Q
<1>5. IsFiniteSet(J) /\ J \subseteq I
  BY <1>1, <1>3, FS_Subset
<1> DEFINE p == [a \in 1..(l - m) |-> q[m + a]]
<1>6. \A a, b \in 1..l : <<q[a], q[b]>> \in R <=> a < b
  <2> SUFFICES ASSUME NEW a \in 1..l, NEW b \in 1..l, <<q[a], q[b]>> \in R PROVE a < b
    BY <1>1
  <2>1. q[a] \in I /\ q[b] \in I
    BY <1>1
  <2>2. a # b
    BY <2>1, <1>1 DEF StrictOrder
  <2>3. ~ (b < a)
    <3>1. b < a => <<q[b], q[a]>> \in R
      BY <1>1
    <3> QED
      BY <3>1, <2>1, <1>1, Zenon DEF StrictOrder
  <2> QED
    BY <1>1, <2>2, <2>3
<1>7. m \in 1..l /\ M[m] = s[q[m]] /\ q[m] \in I
  BY <1>1
<1>8. \A i \in I : i \in J <=> <<q[m], i>> \in R
  BY <1>1, <1>3, <1>7
<1>9. \A a \in 1..(l - m) : m + a \in 1..l /\ m < m + a
  BY <1>1, <1>7
<1>10. p \in [1..(l - m) -> J]
  <2>1. \A a \in 1..(l - m) : q[m + a] \in J
    BY <1>1, <1>6, <1>7, <1>8, <1>9
  <2> QED
    BY <2>1
<1>11. \A i \in J : \E a \in 1..(l - m) : p[a] = i
  <2> SUFFICES ASSUME NEW i \in J PROVE \E a \in 1..(l - m) : p[a] = i
    OBVIOUS
  <2>1. PICK k \in 1..l : q[k] = i
    BY <1>1, <1>5
  <2>2. m < k
    BY <2>1, <1>5, <1>6, <1>7, <1>8
  <2>3. k - m \in 1..(l - m) /\ m + (k - m) = k
    BY <2>2, <1>7, <1>1
  <2> QED
    BY <2>1, <2>3
<1>12. \A a, b \in 1..(l - m) : a < b => <<p[a], p[b]>> \in Q
  <2> SUFFICES ASSUME NEW a \in 1..(l - m), NEW b \in 1..(l - m), a < b
               PROVE  <<p[a], p[b]>> \in Q
    OBVIOUS
  <2>1. p[a] = q[m + a] /\ p[b] = q[m + b]
    OBVIOUS
  <2>2. p[a] \in J /\ p[b] \in J
    BY <1>10
  <2>3. m + a < m + b
    BY <1>7, <1>1
  <2> HIDE DEF p
  <2>4. <<p[a], p[b]>> \in R
    BY <2>1, <2>3, <1>6, <1>9
  <2> QED
    BY <2>2, <2>4, <1>1, <1>4, <1>5
<1>13. l - m \in Nat
  BY <1>1, <1>7
<1> HIDE DEF p
<1>14. Ranked(J, Q) = p
  BY <1>4, <1>5, <1>10, <1>11, <1>12, <1>13, RankedOnly
<1>15. FilterEvents(filter, cur) = [a \in 1..(l - m) |-> M[m + a]]
  <2>1. FilterEvents(filter, cur) = [a \in 1..(l - m) |-> s[p[a]]]
    BY <1>2, <1>10, <1>14
  <2>2. \A a \in 1..(l - m) : s[p[a]] = M[m + a]
    BY <1>1, <1>9 DEF p
  <2> QED
    BY <2>1, <2>2
<1>16. SubSeq(M, m + 1, l) = [a \in 1..(l - m) |-> M[m + a]]
  <2> DEFINE t == SubSeq(M, m + 1, l)
  <2>1. m + 1 \in Int /\ l \in Int /\ \A a \in (m + 1)..l : M[a] \in D
    BY <1>1, <1>7
  <2>2. /\ t \in Seq(D) /\ Len(t) = IF m + 1 <= l THEN l - (m + 1) + 1 ELSE 0
        /\ \A a \in 1..(l - (m + 1) + 1) : t[a] = M[(m + 1) + a - 1]
    BY <2>1, SubSeqProperties
  <2> HIDE DEF t
  <2>3. /\ t \in Seq(D) /\ Len(t) = l - m
        /\ \A a \in 1..(l - m) : t[a] = M[m + a]
    <3>1. l - (m + 1) + 1 = l - m /\ Len(t) = l - m
      BY <2>2, <1>1, <1>7
    <3>2. \A a \in 1..(l - m) : (m + 1) + a - 1 = m + a
      BY <1>1, <1>7
    <3> QED
      BY <2>2, <3>1, <3>2
  <2>4. t = [a \in 1..(l - m) |-> t[a]]
    BY <2>3
  <2> QED
    BY <2>3, <2>4 DEF t
<1> QED
  BY <1>1, <1>15, <1>16 DEF cur

\* The cursor with a page that ends at m: none at the end of the list.
NextCursor(M, m) == IF m < Len(M) THEN Cursor(M, m) ELSE << >>

Smaller(a, b) == IF a < b THEN a ELSE b

Page(filter, n, M, m, cursor, e) ==
  /\ ListEvents(filter, n, cursor) = [events |-> SubSeq(M, m + 1, e), next |-> NextCursor(M, e)]
  /\ e \in 0..Len(M) /\ m <= e
  /\ SubSeq(M, 1, m) \o SubSeq(M, m + 1, e) = SubSeq(M, 1, e)

\* A page begins after its cursor, and ends after the size of the page or at
\* the end of the list.
LEMMA PageIs ==
  ASSUME StoreInv, NEW filter, NEW n \in Nat, NEW M, M = FilterEvents(filter, << >>),
         NEW m \in 0..Len(M), NEW cursor,
         cursor = (IF m = 0 THEN << >> ELSE Cursor(M, m)),
         NEW e, e = Smaller(m + PageSize(n), Len(M))
  PROVE  Page(filter, n, M, m, cursor, e)
<1> DEFINE D == Doc("events")
<1> DEFINE l == Len(M)
<1> DEFINE z == PageSize(n)
<1> DEFINE T == FilterEvents(filter, cursor)
<1>1. M \in Seq(D) /\ l \in Nat /\ m \in Int
  <2>1. M \in Seq(D)
    BY ListIs
  <2> HIDE DEF D
  <2> QED
    BY <2>1
<1>2. z \in Nat /\ z >= 1
  <2>1. z = Mongo!Limit(n) /\ z \in Nat
    BY PageSizeIs
  <2> HIDE DEF z
  <2> QED
    BY <2>1, MemStoreAssumption DEF Mongo!Limit
<1>3. T = SubSeq(M, m + 1, l)
  <2>1. CASE m = 0
    <3>1. T = M
      BY <2>1
    <3> HIDE DEF D, T
    <3>2. SubSeq(M, 1, l) = M
      BY <1>1, SubSeqFull
    <3> QED
      BY <2>1, <3>1, <3>2
  <2>2. CASE m # 0
    <3>1. m \in 1..Len(M) /\ cursor = Cursor(M, m)
      BY <2>2, <1>1
    <3> QED
      BY <3>1, AfterCursor
  <2> QED
    BY <2>1, <2>2
<1>4. ListEvents(filter, n, cursor) =
        IF Len(T) > z THEN [events |-> SubSeq(T, 1, z), next |-> <<T[z].starts, T[z].id>>]
        ELSE [events |-> T, next |-> << >>]
  BY Zenon DEF ListEvents
<1> HIDE DEF D, z, T
<1>5. e = IF m + z < l THEN m + z ELSE l
  BY DEF Smaller, z
<1>6. e \in 0..l /\ m <= e /\ m \in 0..l
  BY <1>1, <1>2, <1>5
<1>7. /\ T \in Seq(D) /\ Len(T) = l - m
      /\ \A a \in 1..(l - m) : T[a] = M[m + a]
  <2>1. m + 1 \in Int /\ l \in Int /\ \A a \in (m + 1)..l : M[a] \in D
    BY <1>1, <1>6
  <2>2. /\ T \in Seq(D) /\ Len(T) = IF m + 1 <= l THEN l - (m + 1) + 1 ELSE 0
        /\ \A a \in 1..(l - (m + 1) + 1) : T[a] = M[(m + 1) + a - 1]
    BY <1>3, <2>1, SubSeqProperties
  <2>3. l - (m + 1) + 1 = l - m /\ Len(T) = l - m
    BY <2>2, <1>1, <1>6
  <2>4. \A a \in 1..(l - m) : (m + 1) + a - 1 = m + a
    BY <1>1, <1>6
  <2> QED
    BY <2>2, <2>3, <2>4
<1>8. SubSeq(M, 1, m) \o SubSeq(M, m + 1, e) = SubSeq(M, 1, e)
  <2>1. 1 \in 1..(Len(M) + 1) /\ m \in (1 - 1)..Len(M) /\ e \in m..Len(M)
    BY <1>1, <1>6
  <2> QED
    BY <1>1, <2>1, ConcatAdjacentSubSeq
<1>9. CASE m + z < l
  <2>1. Len(T) > z /\ e = m + z
    BY <1>1, <1>2, <1>5, <1>7, <1>9
  <2>2. SubSeq(T, 1, z) = SubSeq(M, m + 1, e)
    <3>1. m + 1 \in 1..Len(M) /\ l \in 1..Len(M) /\ 1 \in 1..(l - (m + 1) + 1)
          /\ z \in 1..(l - (m + 1) + 1)
      BY <1>1, <1>2, <1>6, <1>9
    <3>2. SubSeq(SubSeq(M, m + 1, l), 1, z) = SubSeq(M, (m + 1) + 1 - 1, (m + 1) + z - 1)
      BY <1>1, <3>1, SubSeqOfSubSeq
    <3>3. (m + 1) + 1 - 1 = m + 1 /\ (m + 1) + z - 1 = e
      BY <1>1, <1>2, <2>1
    <3> QED
      BY <1>3, <3>2, <3>3
  <2>3. T[z] = M[e]
    BY <1>1, <1>2, <1>6, <1>7, <1>9, <2>1
  <2>4. NextCursor(M, e) = <<T[z].starts, T[z].id>>
    BY <1>9, <2>1, <2>3 DEF NextCursor, Cursor
  <2> QED
    BY <1>4, <1>6, <1>8, <2>1, <2>2, <2>4 DEF Page
<1>10. CASE ~ (m + z < l)
  <2>1. ~ (Len(T) > z) /\ e = l
    BY <1>1, <1>2, <1>5, <1>6, <1>7, <1>10
  <2>2. NextCursor(M, e) = << >>
    BY <2>1, <1>1 DEF NextCursor
  <2> QED
    BY <1>3, <1>4, <1>6, <1>8, <2>1, <2>2 DEF Page
<1> QED
  BY <1>9, <1>10

\* Following the cursors.
LEMMA PagedIs ==
  ASSUME StoreInv, NEW filter, NEW n \in Nat
  PROVE  Paged(filter, n) = [events |-> FilterEvents(filter, << >>), next |-> << >>]
<1> DEFINE N == Len(mem.events)
<1> DEFINE M == FilterEvents(filter, << >>)
<1> DEFINE l == Len(M)
<1> DEFINE z == PageSize(n)
<1> DEFINE Step(seen) ==
      LET page == ListEvents(filter, n, seen.next) IN
      IF seen.next = << >> THEN seen
      ELSE [events |-> seen.events \o page.events, next |-> page.next]
<1> DEFINE H(w) ==
      [k \in 0..N |-> IF k = 0 THEN ListEvents(filter, n, << >>) ELSE Step(w[k - 1])]
<1> DEFINE walk == CHOOSE w : w = H(w)
<1> DEFINE At(m) == [events |-> SubSeq(M, 1, m), next |-> NextCursor(M, m)]
<1> DEFINE pos == [k \in 0..N |-> (k + 1) * z]
<1> DEFINE g == [k \in 0..N |-> At(Smaller(pos[k], l))]
<1>1. Paged(filter, n) = walk[N]
  BY Zenon DEF Paged
<1>2. N \in Nat /\ l \in Nat /\ l <= N /\ M \in Seq(Doc("events"))
  <2>1. "events" \in Slices
    BY DEF Slices
  <2>2. N \in Nat
    BY <2>1, SliceDocs
  <2>3. \E c : c \in Nat /\ c <= N /\ l = c /\ M \in Seq(Doc("events"))
    BY ListIs
  <2> HIDE DEF N, l, M
  <2> QED
    BY <2>2, <2>3
<1>3. z \in Nat /\ z >= 1
  <2>1. z = Mongo!Limit(n) /\ z \in Nat
    BY PageSizeIs
  <2> HIDE DEF z
  <2> QED
    BY <2>1, MemStoreAssumption DEF Mongo!Limit
<1>4. /\ \A k \in 0..N : pos[k] \in Nat /\ pos[k] >= k + 1
      /\ pos[0] = z
      /\ \A k \in 1..N : pos[k] = pos[k - 1] + z
  <2> HIDE DEF z, N
  <2>1. \A k \in Nat : (k + 1) * z = (k * z) + z /\ (k + 1) * z \in Nat /\ (k + 1) * z >= k + 1
    BY <1>3
  <2> QED
    BY <1>2, <1>3, <2>1
<1> HIDE DEF pos
<1>5. ListEvents(filter, n, << >>) = At(Smaller(z, l))
  <2> DEFINE e == Smaller(0 + z, l)
  <2>1. 0 \in 0..l
    BY <1>2
  <2>2. ListEvents(filter, n, << >>) = [events |-> SubSeq(M, 0 + 1, e), next |-> NextCursor(M, e)]
    <3> DEFINE first == 0
    <3> DEFINE cur == << >>
    <3>1. /\ cur = (IF first = 0 THEN << >> ELSE Cursor(M, first)) /\ first \in 0..Len(M)
          /\ M = FilterEvents(filter, << >>) /\ e = Smaller(first + PageSize(n), Len(M))
      BY <2>1
    <3> HIDE DEF first, cur, e, M
    <3>2. Page(filter, n, M, first, cur, e)
      BY <3>1, PageIs
    <3> QED
      BY <3>2 DEF Page, first, cur
  <2>3. e = Smaller(z, l) /\ 0 + 1 = 1
    <3> HIDE DEF z
    <3> QED
      BY <1>3
  <2> HIDE DEF e, M, z, l
  <2> QED
    BY <2>2, <2>3
<1>6. ASSUME NEW m \in 0..l, m = 0 => l = 0
      PROVE  Step(At(m)) = At(Smaller(m + z, l))
  <2>1. At(m).next = NextCursor(M, m) /\ At(m).events = SubSeq(M, 1, m)
    OBVIOUS
  <2>2. CASE m = l
    <3>1. At(m).next = << >>
      BY <2>1, <2>2, <1>2 DEF NextCursor
    <3>2. Smaller(m + z, l) = m
      <4> HIDE DEF z, l
      <4> QED
        BY <1>2, <1>3, <2>2 DEF Smaller
    <3>3. Step(At(m)) = At(m)
      <4> HIDE DEF At
      <4> QED
        BY <3>1
    <3> QED
      BY <3>2, <3>3
  <2>3. CASE m # l
    <3> DEFINE e == Smaller(m + z, l)
    <3> DEFINE cur == Cursor(M, m)
    <3>1. m # 0 /\ m < l /\ At(m).next = cur /\ cur # << >>
      <4>1. m # 0 /\ m < l
        <5> HIDE DEF l
        <5> QED
          BY <1>2, <1>6, <2>3
      <4>2. cur # << >>
        BY DEF Cursor
      <4> QED
        BY <2>1, <4>1, <4>2 DEF NextCursor
    <3>2. /\ ListEvents(filter, n, cur) = [events |-> SubSeq(M, m + 1, e), next |-> NextCursor(M, e)]
          /\ SubSeq(M, 1, m) \o SubSeq(M, m + 1, e) = SubSeq(M, 1, e)
      <4>1. cur = (IF m = 0 THEN << >> ELSE Cursor(M, m))
        BY <3>1
      <4>2. /\ M = FilterEvents(filter, << >>) /\ m \in 0..Len(M)
            /\ e = Smaller(m + PageSize(n), Len(M))
        OBVIOUS
      <4> HIDE DEF cur, e, M
      <4>3. Page(filter, n, M, m, cur, e)
        BY <4>1, <4>2, PageIs
      <4> QED
        BY <4>3 DEF Page
    <3> HIDE DEF e, cur, At, M, z, l
    <3>3. Step(At(m)) =
            [events |-> SubSeq(M, 1, m) \o ListEvents(filter, n, cur).events,
             next |-> ListEvents(filter, n, cur).next]
      BY <2>1, <3>1
    <3> HIDE DEF Step
    <3>4. /\ ListEvents(filter, n, cur).events = SubSeq(M, m + 1, e)
          /\ ListEvents(filter, n, cur).next = NextCursor(M, e)
      <4> DEFINE more == SubSeq(M, m + 1, e)
      <4>1. ListEvents(filter, n, cur) = [events |-> more, next |-> NextCursor(M, e)]
        BY <3>2, Zenon
      <4> HIDE DEF more
      <4>2. /\ ListEvents(filter, n, cur).events = more
            /\ ListEvents(filter, n, cur).next = NextCursor(M, e)
        BY <4>1
      <4> QED
        BY <4>2, Zenon DEF more
    <3>5. Step(At(m)) = [events |-> SubSeq(M, 1, e), next |-> NextCursor(M, e)]
      BY <3>2, <3>3, <3>4, Zenon
    <3> QED
      BY <3>5 DEF At, e
  <2> QED
    BY <2>2, <2>3
<1> HIDE DEF Step, At, z, l, N, M
<1>7. ASSUME NEW k \in 1..N
      PROVE  Step(At(Smaller(pos[k - 1], l))) = At(Smaller(pos[k], l))
  <2> DEFINE m == Smaller(pos[k - 1], l)
  <2>1. pos[k - 1] \in Nat /\ pos[k - 1] >= 1 /\ pos[k] = pos[k - 1] + z
    BY <1>2, <1>4
  <2>2. m \in 0..l /\ (m = 0 => l = 0) /\ Smaller(m + z, l) = Smaller(pos[k], l)
    BY <1>2, <1>3, <2>1 DEF Smaller
  <2> HIDE DEF m
  <2>3. Step(At(m)) = At(Smaller(m + z, l))
    BY <1>6, <2>2
  <2> QED
    BY <2>2, <2>3 DEF m
<1>8. /\ g = [k \in 0..N |-> g[k]]
      /\ g[0] = ListEvents(filter, n, << >>)
      /\ \A k \in 1..N : g[k] = Step(g[k - 1])
  BY <1>2, <1>4, <1>5, <1>7
<1>9. g = H(g)
  <2> HIDE DEF g
  <2>1. \A k \in 0..N :
          g[k] = IF k = 0 THEN ListEvents(filter, n, << >>) ELSE Step(g[k - 1])
    <3>1. \A k \in 0..N : k # 0 => k \in 1..N
      BY <1>2
    <3> QED
      BY <1>8, <3>1
  <2> QED
    BY <1>8, <2>1, Zenon
<1>10. walk = H(walk)
  <2> HIDE DEF g, H
  <2> QED
    BY <1>9, Zenon
<1>11. /\ walk[0] = ListEvents(filter, n, << >>)
       /\ \A k \in 1..N : walk[k] = Step(walk[k - 1])
  <2> HIDE DEF walk
  <2> QED
    BY <1>10, <1>2
<1> HIDE DEF walk, g, H
<1>12. \A k \in 0..N : walk[k] = g[k]
  <2> DEFINE Wrong == {k \in 0..N : walk[k] # g[k]}
  <2> SUFFICES ASSUME Wrong # {} PROVE FALSE
    OBVIOUS
  <2>1. Wrong \in SUBSET Nat
    BY <1>2
  <2>2. PICK k \in Wrong : \A j \in Wrong : k <= j
    BY <2>1, Least
  <2>3. k # 0
    BY <1>8, <1>11, <2>2
  <2>4. k \in 1..N /\ k - 1 \in 0..N /\ k - 1 \notin Wrong
    BY <1>2, <2>1, <2>2, <2>3
  <2> QED
    BY <1>8, <1>11, <2>2, <2>4
<1>13. g[N] = At(l)
  <2>1. N \in 0..N /\ pos[N] \in Nat /\ ~ (pos[N] < l)
    BY <1>2, <1>4
  <2> QED
    BY <2>1 DEF g, Smaller
<1>14. At(l) = [events |-> M, next |-> << >>]
  <2>1. NextCursor(M, l) = << >>
    BY <1>2 DEF NextCursor, l
  <2>2. SubSeq(M, 1, l) = M
    BY <1>2, SubSeqFull DEF l
  <2> QED
    BY <2>1, <2>2 DEF At
<1>15. walk[N] = g[N]
  BY <1>2, <1>12
<1> QED
  BY <1>1, <1>13, <1>14, <1>15 DEF M

\* events.go:60: in every state, for every filter and every size of pages, a
\* reader who follows the cursors is given each event that matches exactly once
\* and in the order of the listing.
THEOREM PagesRight == ASSUME MemStoreAssumption PROVE Spec => []PagesJoin
<1>1. ASSUME StoreInv PROVE PagesJoin
  <2>1. \A n \in 0..MaxPageSize + 1 : n \in Nat
    BY MemStoreAssumption
  <2> QED
    BY <1>1, <2>1, PagedIs DEF PagesJoin
<1>2. StoreInv => PagesJoin
  BY <1>1
<1> QED
  BY <1>2, StoreTyped, PTL
=============================================================================
