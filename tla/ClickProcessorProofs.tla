------------------------ MODULE ClickProcessorProofs ------------------------
(***************************************************************************)
(* Theorems about ClickProcessor, for any number of events, of overlapping *)
(* calls and of process deaths, and any batch size, retry count and        *)
(* threshold: type correctness, that every pending entry is in exactly one *)
(* place, and the two bounds on how often an event can be counted.         *)
(*                                                                         *)
(* The bounds are not inductive by themselves.  An entry's number of       *)
(* failed attempts is bounded by where the entry is (the retries left of   *)
(* the flush that holds it, the failures of its dead letter), so the       *)
(* invariant has to say where entries are, and that no entry is in two     *)
(* places: a second copy could be saved again, or fail again.              *)
(***************************************************************************)
EXTENDS ClickProcessor, SequenceTheorems, FiniteSetTheorems, TLAPS

-----------------------------------------------------------------------------
(* Facts about the operators *)

NoDuplicates(s) == \A i, j \in DOMAIN s : s[i] = s[j] => i = j

\* A non-empty set of naturals has a least element.
LEMMA LeastExists ==
  ASSUME NEW S \in SUBSET Nat, S # {}
  PROVE  \E i \in S : \A j \in S : i <= j
<1>1. PICK i \in S : \A j \in S : ~(<<j, i>> \in OpToRel(<, Nat))
  BY NatLessThanWellFounded, WFMin
<1>2. \A j \in S : ~(j < i)
  BY <1>1 DEF OpToRel
<1> QED
  BY <1>2

\* splice divides an array without duplicates into two disjoint parts.
LEMMA SpliceDivides ==
  ASSUME NEW s \in Seq(Entries), NoDuplicates(s)
  PROVE  /\ Taken(s) \in Seq(Entries)
         /\ Remaining(s) \in Seq(Entries)
         /\ Range(Taken(s)) \subseteq Range(s)
         /\ Range(Remaining(s)) \subseteq Range(s)
         /\ Range(Taken(s)) \cap Range(Remaining(s)) = {}
         /\ Range(s) \subseteq Range(Taken(s)) \cup Range(Remaining(s))
         /\ NoDuplicates(Taken(s)) /\ NoDuplicates(Remaining(s))
         /\ Len(Taken(s)) <= BatchSize
         /\ Len(Remaining(s)) = IF Len(s) < BatchSize THEN 0 ELSE Len(s) - BatchSize
<1> DEFINE n == IF Len(s) < BatchSize THEN Len(s) ELSE BatchSize
           T == Taken(s)
           R == Remaining(s)
<1>1. /\ Len(s) \in Nat /\ DOMAIN s = 1..Len(s)
      /\ \A i \in 1..Len(s) : s[i] \in Entries
      /\ n \in 0..Len(s)
  BY LenProperties, TuningAssumption
<1>2. /\ T \in Seq(Entries) /\ Len(T) = n
      /\ \A i \in 1..n : T[i] = s[i]
  <2>1. \A i \in 1..n : s[i] \in Entries
    BY <1>1
  <2>2. /\ SubSeq(s, 1, n) \in Seq(Entries)
        /\ Len(SubSeq(s, 1, n)) = IF 1 <= n THEN n - 1 + 1 ELSE 0
        /\ \A i \in 1..(n - 1 + 1) : SubSeq(s, 1, n)[i] = s[1 + i - 1]
    BY <1>1, <2>1, SubSeqProperties
  <2> QED
    BY <1>1, <2>2 DEF Taken
<1>3. /\ R \in Seq(Entries) /\ Len(R) = Len(s) - n
      /\ \A i \in 1..(Len(s) - n) : R[i] = s[n + i]
  <2>1. \A i \in (n + 1)..Len(s) : s[i] \in Entries
    BY <1>1
  <2>2. /\ SubSeq(s, n + 1, Len(s)) \in Seq(Entries)
        /\ Len(SubSeq(s, n + 1, Len(s))) = IF n + 1 <= Len(s) THEN Len(s) - (n + 1) + 1 ELSE 0
        /\ \A i \in 1..(Len(s) - (n + 1) + 1) :
             SubSeq(s, n + 1, Len(s))[i] = s[(n + 1) + i - 1]
    <3>1. n + 1 \in Int /\ Len(s) \in Int
      BY <1>1
    <3> QED
      BY <2>1, <3>1, SubSeqProperties
  <2>3. R = SubSeq(s, n + 1, Len(s))
    BY <1>2 DEF Remaining
  <2> HIDE DEF n, R
  <2>4. R \in Seq(Entries) /\ Len(R) = Len(s) - n
    <3>1. R \in Seq(Entries)
      BY <2>2, <2>3
    <3>2. Len(R) = IF n + 1 <= Len(s) THEN Len(s) - (n + 1) + 1 ELSE 0
      BY <2>2, <2>3
    <3>3. n \in Nat /\ Len(s) \in Nat /\ n <= Len(s)
      BY <1>1
    <3> QED
      BY <3>1, <3>2, <3>3
  <2>5. ASSUME NEW i \in 1..(Len(s) - n) PROVE R[i] = s[n + i]
    <3>1. i \in 1..(Len(s) - (n + 1) + 1) /\ (n + 1) + i - 1 = n + i
      BY <1>1
    <3>2. SubSeq(s, n + 1, Len(s))[i] = s[(n + 1) + i - 1]
      BY <3>1, <2>2
    <3> QED
      BY <3>1, <3>2, <2>3
  <2> QED
    BY <2>4, <2>5
<1>4. DOMAIN T = 1..n /\ DOMAIN R = 1..(Len(s) - n)
  BY <1>2, <1>3, LenProperties
<1> HIDE DEF n, T, R
<1>5. Range(T) \subseteq Range(s) /\ Range(R) \subseteq Range(s)
  <2>1. \A i \in 1..n : i \in DOMAIN s /\ T[i] = s[i]
    BY <1>1, <1>2
  <2>2. \A i \in 1..(Len(s) - n) : n + i \in DOMAIN s /\ R[i] = s[n + i]
    BY <1>1, <1>3
  <2> QED
    BY <1>4, <2>1, <2>2 DEF Range
<1>6. Range(T) \cap Range(R) = {}
  <2> SUFFICES ASSUME NEW i \in 1..n, NEW j \in 1..(Len(s) - n), T[i] = R[j]
               PROVE  FALSE
    BY <1>4 DEF Range
  <2>1. i \in DOMAIN s /\ n + j \in DOMAIN s /\ i # n + j
    BY <1>1
  <2> QED
    BY <2>1, <1>2, <1>3 DEF NoDuplicates
<1>7. NoDuplicates(R)
  <2> SUFFICES ASSUME NEW i \in 1..(Len(s) - n), NEW j \in 1..(Len(s) - n), R[i] = R[j]
               PROVE  i = j
    BY <1>4 DEF NoDuplicates
  <2>1. n + i \in DOMAIN s /\ n + j \in DOMAIN s /\ s[n + i] = s[n + j]
    <3>1. n + i \in DOMAIN s /\ n + j \in DOMAIN s
      BY <1>1
    <3>2. R[i] = s[n + i] /\ R[j] = s[n + j]
      BY <1>3
    <3> QED
      BY <3>1, <3>2
  <2>2. n + i = n + j
    BY <2>1 DEF NoDuplicates
  <2> QED
    BY <2>2, <1>1
<1>8. NoDuplicates(T)
  BY <1>1, <1>2, <1>4 DEF NoDuplicates
<1>9. Range(s) \subseteq Range(T) \cup Range(R)
  <2> SUFFICES ASSUME NEW i \in 1..Len(s) PROVE s[i] \in Range(T) \cup Range(R)
    BY <1>1 DEF Range
  <2>1. CASE i \in 1..n
    BY <2>1, <1>2, <1>4 DEF Range
  <2>2. CASE i \notin 1..n
    <3>1. i - n \in 1..(Len(s) - n) /\ n + (i - n) = i
      BY <2>2, <1>1
    <3>2. R[i - n] = s[i]
      BY <3>1, <1>3
    <3> QED BY <3>1, <3>2, <1>4 DEF Range
  <2> QED BY <2>1, <2>2
<1>10. /\ Len(T) <= BatchSize
       /\ Len(R) = IF Len(s) < BatchSize THEN 0 ELSE Len(s) - BatchSize
  <2>1. Len(T) = n /\ Len(R) = Len(s) - n /\ Len(s) \in Nat /\ BatchSize \in Nat
    BY <1>1, <1>2, <1>3, TuningAssumption
  <2>2. n = IF Len(s) < BatchSize THEN Len(s) ELSE BatchSize
    BY DEF n
  <2> QED BY <2>1, <2>2
<1> QED
  BY <1>2, <1>3, <1>5, <1>6, <1>7, <1>8, <1>9, <1>10 DEF T, R

\* push adds what it pushes, and no duplicate if that is new.
LEMMA PushAdds ==
  ASSUME NEW s \in Seq(Entries), NEW p \in Seq(Entries),
         NoDuplicates(s), NoDuplicates(p), Range(s) \cap Range(p) = {}
  PROVE  /\ s \o p \in Seq(Entries)
         /\ NoDuplicates(s \o p)
         /\ Range(s \o p) = Range(s) \cup Range(p)
<1> DEFINE q == s \o p
<1>1. /\ q \in Seq(Entries) /\ Len(q) = Len(s) + Len(p)
      /\ \A i \in 1..(Len(s) + Len(p)) : q[i] = IF i <= Len(s) THEN s[i] ELSE p[i - Len(s)]
  BY ConcatProperties
<1>2. /\ Len(s) \in Nat /\ Len(p) \in Nat
      /\ DOMAIN s = 1..Len(s) /\ DOMAIN p = 1..Len(p) /\ DOMAIN q = 1..(Len(s) + Len(p))
  BY <1>1, LenProperties
<1> HIDE DEF q
<1>3. ASSUME NEW i \in DOMAIN q
      PROVE  \/ i \in DOMAIN s /\ q[i] = s[i]
             \/ i \notin DOMAIN s /\ i - Len(s) \in DOMAIN p /\ q[i] = p[i - Len(s)]
  BY <1>1, <1>2
<1>4. Range(q) = Range(s) \cup Range(p)
  <2>1. Range(q) \subseteq Range(s) \cup Range(p)
    BY <1>3 DEF Range
  <2>2. \A i \in DOMAIN s : i \in DOMAIN q /\ q[i] = s[i]
    BY <1>1, <1>2
  <2>3. ASSUME NEW i \in DOMAIN p PROVE Len(s) + i \in DOMAIN q /\ q[Len(s) + i] = p[i]
    BY <1>1, <1>2
  <2> QED BY <2>1, <2>2, <2>3 DEF Range
<1>5. NoDuplicates(q)
  <2> SUFFICES ASSUME NEW i \in DOMAIN q, NEW j \in DOMAIN q, q[i] = q[j]
               PROVE  i = j
    BY DEF NoDuplicates
  <2>1. CASE i \in DOMAIN s /\ j \in DOMAIN s
    BY <2>1, <1>3 DEF NoDuplicates
  <2>2. CASE i \notin DOMAIN s /\ j \notin DOMAIN s
    <3>1. i - Len(s) = j - Len(s)
      BY <2>2, <1>3 DEF NoDuplicates
    <3> QED
      BY <3>1, <1>2
  <2>3. CASE i \in DOMAIN s /\ j \notin DOMAIN s
    BY <2>3, <1>3 DEF Range
  <2>4. CASE i \notin DOMAIN s /\ j \in DOMAIN s
    BY <2>4, <1>3 DEF Range
  <2> QED
    BY <2>1, <2>2, <2>3, <2>4
<1> QED
  BY <1>1, <1>4, <1>5 DEF q

\* An entry's dead letter key is a key of the map.
LEMMA KeyType == \A e \in Entries : KindOf[e.event] \in Kinds /\ Key(e) \in MapKeys
BY EventsAssumption DEF Entries, Key, MapKeys

\* The values of Map are the functions from keys to items.
Maps == UNION {[K -> Items] : K \in SUBSET MapKeys}

LEMMA MapType == \A m : m \in Maps <=> IsMap(m)
BY DEF Maps, IsMap

\* The empty map is one of them.
LEMMA EmptyMapType == EmptyMap \in Maps /\ DOMAIN EmptyMap = {}
<1>1. DOMAIN EmptyMap = {} /\ EmptyMap \in [{} -> Items]
  BY DEF EmptyMap
<1>2. IsMap(EmptyMap)
  BY <1>1 DEF IsMap
<1> QED
  BY <1>1, <1>2, MapType

\* What the catch of a flush does to the dead letter queue: old letters keep their
\* event and lose no failure, new ones are events of the batch under their own key.
LEMMA DeadLettersAdds ==
  ASSUME NEW map, IsMap(map), NEW batch \in Seq(Entries)
  PROVE  LET D == DeadLetters(map, batch)
         IN  /\ IsMap(D)
             /\ DOMAIN map \subseteq DOMAIN D
             /\ \A m \in DOMAIN map : /\ D[m].entry = map[m].entry
                                      /\ D[m].failures >= map[m].failures
             /\ \A m \in DOMAIN D \ DOMAIN map : /\ D[m].entry \in Range(batch)
                                                 /\ Key(D[m].entry) = m
<1> DEFINE at(m)    == {i \in DOMAIN batch : Key(batch[i]) = m}
           first(m) == CHOOSE i \in at(m) : \A j \in at(m) : i <= j
           new      == {Key(batch[i]) : i \in DOMAIN batch}
           D        == DeadLetters(map, batch)
<1>1. /\ DOMAIN batch = 1..Len(batch) /\ Len(batch) \in Nat
      /\ \A i \in DOMAIN batch : batch[i] \in Entries
  BY LenProperties
<1>2. ASSUME NEW m PROVE Cardinality(at(m)) \in Nat
  <2>1. IsFiniteSet(1..Len(batch))
    BY <1>1, FS_Interval
  <2>2. at(m) \in SUBSET (1..Len(batch))
    BY <1>1
  <2>3. IsFiniteSet(at(m))
    BY <2>1, <2>2, FS_Subset
  <2> QED
    BY <2>3, FS_CardinalityType
<1>3. ASSUME NEW m \in new
      PROVE  /\ Cardinality(at(m)) # 0
             /\ first(m) \in DOMAIN batch
             /\ Key(batch[first(m)]) = m
  <2>1. at(m) # {}
    OBVIOUS
  <2>2. at(m) \in SUBSET (1..Len(batch)) /\ at(m) \in SUBSET Nat
    BY <1>1
  <2>3. \E i \in at(m) : \A j \in at(m) : i <= j
    <3> HIDE DEF at
    <3> QED
      BY <2>1, <2>2, LeastExists
  <2>4. first(m) \in at(m)
    <3> HIDE DEF at
    <3> QED
      BY <2>3
  <2>5. IsFiniteSet(at(m))
    <3>1. IsFiniteSet(1..Len(batch))
      BY <1>1, FS_Interval
    <3> QED
      BY <3>1, <2>2, FS_Subset
  <2>6. Cardinality(at(m)) # 0
    <3> HIDE DEF at
    <3> QED
      BY <2>1, <2>5, FS_EmptySet
  <2> HIDE DEF first
  <2> QED
    BY <2>4, <2>6
<1>4. D = [m \in DOMAIN map \cup new |->
             IF m \in DOMAIN map
             THEN [entry |-> map[m].entry, failures |-> map[m].failures + Cardinality(at(m))]
             ELSE [entry |-> batch[first(m)], failures |-> Cardinality(at(m))]]
  BY DEF DeadLetters
<1>5. new \subseteq MapKeys
  BY <1>1, KeyType
<1>6. \A m \in DOMAIN map : m \in MapKeys /\ map[m].entry \in Entries /\ map[m].failures \in Nat \ {0}
  BY DEF IsMap, Items
<1> HIDE DEF at, first, new, D
<1>7. DOMAIN D = DOMAIN map \cup new
  BY <1>4
<1>8. ASSUME NEW m \in DOMAIN map
      PROVE  /\ D[m] = [entry |-> map[m].entry, failures |-> map[m].failures + Cardinality(at(m))]
             /\ D[m] \in Items
             /\ D[m].entry = map[m].entry
             /\ D[m].failures >= map[m].failures
  <2>1. D[m] = [entry |-> map[m].entry, failures |-> map[m].failures + Cardinality(at(m))]
    BY <1>4
  <2> QED
    BY <2>1, <1>2, <1>6 DEF Items
<1>9. ASSUME NEW m \in new, m \notin DOMAIN map
      PROVE  /\ D[m] \in Items
             /\ D[m].entry \in Range(batch)
             /\ Key(D[m].entry) = m
  <2>1. D[m] = [entry |-> batch[first(m)], failures |-> Cardinality(at(m))]
    BY <1>4, <1>9
  <2>2. batch[first(m)] \in Range(batch) /\ batch[first(m)] \in Entries
    BY <1>1, <1>3 DEF Range
  <2>3. Cardinality(at(m)) \in Nat \ {0}
    BY <1>2, <1>3
  <2>4. D[m] \in Items
    BY <2>1, <2>2, <2>3 DEF Items
  <2>5. D[m].entry = batch[first(m)]
    BY <2>1
  <2> QED
    BY <2>2, <2>4, <2>5, <1>3
<1>10. IsMap(D)
  <2>1. DOMAIN D \subseteq MapKeys
    BY <1>5, <1>6, <1>7
  <2>2. D = [m \in DOMAIN D |-> D[m]]
    BY <1>4
  <2>3. \A m \in DOMAIN D : D[m] \in Items
    BY <1>7, <1>8, <1>9
  <2> QED
    BY <2>1, <2>2, <2>3 DEF IsMap
<1> QED
  BY <1>7, <1>8, <1>9, <1>10 DEF D

\* The attempts of f failed rounds.
Rounds(f) == (MaxRetries + 1) * f

\* A round more is MaxRetries + 1 attempts more, and more rounds are more attempts.
LEMMA RoundsGrow ==
  /\ \A f \in Nat : Rounds(f) \in Nat /\ Rounds(f + 1) = Rounds(f) + MaxRetries + 1
  /\ \A f, g \in Nat : f <= g => Rounds(f) <= Rounds(g)
<1>1. \A f \in Nat : Rounds(f) \in Nat /\ Rounds(f + 1) = Rounds(f) + MaxRetries + 1
  BY TuningAssumption DEF Rounds
<1>2. ASSUME NEW f \in Nat, NEW g \in Nat, f <= g PROVE Rounds(f) <= Rounds(g)
  <2>1. PICK d \in Nat : g = f + d
    BY <1>2
  <2>2. (MaxRetries + 1) * d \in Nat
    BY TuningAssumption
  <2>3. (MaxRetries + 1) * (f + d) = (MaxRetries + 1) * f + (MaxRetries + 1) * d
    BY TuningAssumption
  <2> QED
    BY <2>1, <2>2, <2>3, <1>1 DEF Rounds
<1> QED
  BY <1>1, <1>2

-----------------------------------------------------------------------------
(* The inductive invariant *)

InBuffer(e)   == e \in Range(buffer[KindOf[e.event]])
InFlush(e, c) == e \in Range(flush[c][KindOf[e.event]].batch)
InDlq(e)      == Key(e) \in DOMAIN dlq /\ dlq[Key(e)].entry = e
InRetry(e, c) == Key(e) \in DOMAIN retry[c].items /\ retry[c].items[Key(e)].entry = e

\* Every entry is in the buffer of its kind and under its own key.
WellPlaced ==
  /\ \A k \in Kinds : \A e \in Range(buffer[k]) : KindOf[e.event] = k
  /\ \A c \in Calls, k \in Kinds : \A e \in Range(flush[c][k].batch) : KindOf[e.event] = k
  /\ \A m \in DOMAIN dlq : Key(dlq[m].entry) = m
  /\ \A c \in Calls : \A m \in DOMAIN retry[c].items : Key(retry[c].items[m].entry) = m

\* A buffer holds an entry once.
Unduplicated == \A k \in Kinds : NoDuplicates(buffer[k])

\* No entry is in two places.
SinglePlace ==
  \A e \in Entries :
    /\ InBuffer(e) => ~InDlq(e) /\ \A c \in Calls : ~InFlush(e, c) /\ ~InRetry(e, c)
    /\ InDlq(e) => \A c \in Calls : ~InFlush(e, c) /\ ~InRetry(e, c)
    /\ \A c, d \in Calls : InFlush(e, c) => ~InRetry(e, d)
    /\ \A c, d \in Calls : InFlush(e, c) /\ InFlush(e, d) => c = d
    /\ \A c, d \in Calls : InRetry(e, c) /\ InRetry(e, d) => c = d

\* What is in memory is neither saved nor given up.
HeldIsPending ==
  \A e \in Entries :
    InBuffer(e) \/ InDlq(e) \/ (\E c \in Calls : InFlush(e, c) \/ InRetry(e, c))
      => fate[e] = "pending"

\* An event that was not received has left no trace.
UnseenIsUntouched ==
  \A e \in Entries : /\ fate[e] = "unseen" => failed[e] = 0
                     /\ fate[Raw(e.event)] = "unseen" => fate[e] = "unseen"

\* How often the attempts with an entry can have failed, by the place it is in.
WithinAttempts(e) ==
  /\ failed[e] <= Rounds(DeadLetterThreshold)
  /\ InBuffer(e) => failed[e] = 0
  /\ \A c \in Calls : InFlush(e, c) =>
       failed[e] <= MaxRetries - flush[c][KindOf[e.event]].left
  /\ InDlq(e) => failed[e] <= Rounds(dlq[Key(e)].failures)
  /\ \A c \in Calls : InRetry(e, c) =>
       LET items == retry[c].items
       IN  items[Key(e)].failures < DeadLetterThreshold =>
             failed[e] <= Rounds(items[Key(e)].failures)
                            + (IF Key(e)[1] = Phase(items) THEN MaxRetries - retry[c].left ELSE 0)

AttemptsByPlace == \A e \in Entries : WithinAttempts(e)

\* TypeOK, with the set that retry is a function to.
Typed ==
  /\ buffer   \in [Kinds -> Seq(Entries)]
  /\ dlq      \in Maps
  /\ flush    \in [Calls -> [Kinds -> [batch : Seq(Entries), left : 0..MaxRetries]]]
  /\ retry    \in [Calls -> [items : Maps, left : 0..MaxRetries]]
  /\ awaiting \in Calls \cup {NoCall}
  /\ closing  \in Calls \cup {NoCall}
  /\ applied  \in [Entries -> Nat]
  /\ fate     \in [Entries -> Fates]
  /\ failed   \in [Entries -> Nat]
  /\ stops    \in 0..MaxStops

IInv ==
  /\ Typed
  /\ WellPlaced
  /\ Unduplicated
  /\ SinglePlace
  /\ HeldIsPending
  /\ UnseenIsUntouched
  /\ AttemptsByPlace
  /\ CountedOncePerAttempt

\* The empty array has no elements.
LEMMA EmptyRange == Range(<<>>) = {}
BY DEF Range

\* The initial state: nothing is in memory, nothing is in the database.
LEMMA InitIInv == Init => IInv
<1> SUFFICES ASSUME Init PROVE IInv
  OBVIOUS
<1>e. EmptyMap \in Maps /\ DOMAIN EmptyMap = {}
  BY EmptyMapType
<1>r. Rounds(DeadLetterThreshold) >= 0
  BY RoundsGrow, TuningAssumption
<1>1. Typed
  <2>1. NoRetry \in [items : Maps, left : 0..MaxRetries]
    BY <1>e, TuningAssumption DEF NoRetry
  <2>2. NoFlush \in [batch : Seq(Entries), left : 0..MaxRetries]
    BY TuningAssumption DEF NoFlush
  <2> QED
    BY <1>e, <2>1, <2>2, DeploymentAssumption DEF Init, Typed, Fates
<1>2. /\ \A k \in Kinds : buffer[k] = <<>>
      /\ \A c \in Calls, k \in Kinds : flush[c][k].batch = <<>>
      /\ DOMAIN dlq = {}
      /\ \A c \in Calls : DOMAIN retry[c].items = {}
  BY <1>e DEF Init, NoFlush, NoRetry
<1>3. \A e \in Entries : ~InBuffer(e) /\ ~InDlq(e) /\ \A c \in Calls : ~InFlush(e, c) /\ ~InRetry(e, c)
  BY <1>2, KeyType, EmptyRange DEF InBuffer, InFlush, InDlq, InRetry
<1>4. WellPlaced /\ Unduplicated
  BY <1>2, EmptyRange DEF WellPlaced, Unduplicated, NoDuplicates
<1>5. SinglePlace /\ HeldIsPending
  BY <1>3 DEF SinglePlace, HeldIsPending
<1>6. UnseenIsUntouched
  BY DEF Init, UnseenIsUntouched, Raw, Entries
<1>7. AttemptsByPlace
  BY <1>3, <1>r DEF AttemptsByPlace, WithinAttempts, Init
<1>8. CountedOncePerAttempt
  BY DEF CountedOncePerAttempt, Init
<1> QED
  BY <1>1, <1>4, <1>5, <1>6, <1>7, <1>8 DEF IInv

\* Entries that only move on, from the buffer to a flush, from a flush to the dead
\* letters, between dead letters and a retry, stay in a single place.
LEMMA MovesKeepSinglePlace ==
  ASSUME SinglePlace, NEW c,
         \A e \in Entries : InBuffer(e)' => InBuffer(e) \/ fate[e] = "unseen",
         \A e \in Entries, d \in Calls : InFlush(e, d)' =>
            \/ InFlush(e, d)
            \/ d = c /\ (InBuffer(e) \/ fate[e] = "unseen") /\ ~InBuffer(e)',
         \A e \in Entries : InDlq(e)' =>
            \/ InDlq(e)
            \/ \E d \in Calls : (InFlush(e, d) /\ ~InFlush(e, d)') \/ (InRetry(e, d) /\ ~InRetry(e, d)'),
         \A e \in Entries, d \in Calls : InRetry(e, d)' =>
            InRetry(e, d) \/ (d = c /\ InDlq(e) /\ ~InDlq(e)'),
         HeldIsPending
  PROVE  SinglePlace'
<1> SUFFICES ASSUME NEW e \in Entries
             PROVE  /\ InBuffer(e)' => ~InDlq(e)' /\ \A d \in Calls : ~InFlush(e, d)' /\ ~InRetry(e, d)'
                    /\ InDlq(e)' => \A d \in Calls : ~InFlush(e, d)' /\ ~InRetry(e, d)'
                    /\ \A d, g \in Calls : InFlush(e, d)' => ~InRetry(e, g)'
                    /\ \A d, g \in Calls : InFlush(e, d)' /\ InFlush(e, g)' => d = g
                    /\ \A d, g \in Calls : InRetry(e, d)' /\ InRetry(e, g)' => d = g
  BY DEF SinglePlace
<1>1. fate[e] = "unseen" => /\ ~InBuffer(e) /\ ~InDlq(e)
                            /\ \A d \in Calls : ~InFlush(e, d) /\ ~InRetry(e, d)
  BY DEF HeldIsPending
<1>2. InBuffer(e)' => ~InDlq(e)' /\ \A d \in Calls : ~InFlush(e, d)' /\ ~InRetry(e, d)'
  BY <1>1 DEF SinglePlace
<1>3. InDlq(e)' => \A d \in Calls : ~InFlush(e, d)' /\ ~InRetry(e, d)'
  BY <1>1 DEF SinglePlace
<1>4. \A d, g \in Calls : InFlush(e, d)' => ~InRetry(e, g)'
  BY <1>1 DEF SinglePlace
<1>5. \A d, g \in Calls : InFlush(e, d)' /\ InFlush(e, g)' => d = g
  BY <1>1 DEF SinglePlace
<1>6. \A d, g \in Calls : InRetry(e, d)' /\ InRetry(e, g)' => d = g
  BY <1>1 DEF SinglePlace
<1> QED
  BY <1>2, <1>3, <1>4, <1>5, <1>6

-----------------------------------------------------------------------------
(* What the parts of the actions do *)

\* A successful save counts its pending entries once more and ends them.
LEMMA SavedCounts ==
  ASSUME Typed, CountedOncePerAttempt, NEW S \in SUBSET Entries,
         \A e \in S : fate[e] = "pending", Saved(S)
  PROVE  /\ applied' \in [Entries -> Nat] /\ fate' \in [Entries -> Fates] /\ failed' = failed
         /\ \A e \in S : fate'[e] = "saved"
         /\ \A e \in Entries \ S : fate'[e] = fate[e]
         /\ CountedOncePerAttempt'
<1>1. applied' \in [Entries -> Nat] /\ fate' \in [Entries -> Fates] /\ failed' = failed
  BY DEF Saved, Typed, Fates
<1>2. \A e \in S : fate'[e] = "saved" /\ applied'[e] = applied[e] + 1
  BY DEF Saved
<1>3. \A e \in Entries \ S : fate'[e] = fate[e] /\ applied'[e] = applied[e]
  BY DEF Saved
<1>4. CountedOncePerAttempt'
  <2> SUFFICES ASSUME NEW e \in Entries
               PROVE  applied'[e] \in (IF fate'[e] = "saved" THEN 1 ELSE 0)..
                                     ((IF fate'[e] = "saved" THEN 1 ELSE 0) + failed[e])
    BY <1>1 DEF CountedOncePerAttempt
  <2>t. applied[e] \in Nat /\ failed[e] \in Nat
    BY DEF Typed
  <2>c. applied[e] \in (IF fate[e] = "saved" THEN 1 ELSE 0)..
                         ((IF fate[e] = "saved" THEN 1 ELSE 0) + failed[e])
    BY DEF CountedOncePerAttempt
  <2>1. CASE e \in S
    BY <2>1, <2>t, <2>c, <1>2
  <2>2. CASE e \notin S
    BY <2>2, <2>c, <1>3
  <2> QED
    BY <2>1, <2>2
<1> QED
  BY <1>1, <1>2, <1>3, <1>4

\* A failed attempt is one more for each of its entries, counted or not.
LEMMA AttemptCounts ==
  ASSUME Typed, CountedOncePerAttempt, NEW S, NEW k, AttemptFails(S, k),
         \A e \in Entries : fate'[e] = "saved" <=> fate[e] = "saved"
  PROVE  /\ applied' \in [Entries -> Nat] /\ failed' \in [Entries -> Nat]
         /\ \A e \in Entries : failed'[e] = IF e \in S THEN failed[e] + 1 ELSE failed[e]
         /\ CountedOncePerAttempt'
<1>1. PICK T \in Reached(S, k) :
        applied' = [e \in Entries |-> IF e \in T THEN applied[e] + 1 ELSE applied[e]]
  BY DEF AttemptFails
<1>2. T \subseteq S
  BY DEF Reached
<1>3. /\ \A e \in Entries : failed'[e] = IF e \in S THEN failed[e] + 1 ELSE failed[e]
      /\ failed' \in [Entries -> Nat]
  BY DEF AttemptFails, Typed
<1>4. applied' \in [Entries -> Nat]
  BY <1>1 DEF Typed
<1>5. CountedOncePerAttempt'
  <2> SUFFICES ASSUME NEW e \in Entries
               PROVE  applied'[e] \in (IF fate[e] = "saved" THEN 1 ELSE 0)..
                                     ((IF fate[e] = "saved" THEN 1 ELSE 0) + failed'[e])
    BY DEF CountedOncePerAttempt
  <2>1. applied'[e] = IF e \in T THEN applied[e] + 1 ELSE applied[e]
    BY <1>1
  <2> QED
    BY <2>1, <1>2, <1>3 DEF CountedOncePerAttempt, Typed
<1> QED
  BY <1>3, <1>4, <1>5

\* The entries of a batch are the ones its flush holds.
LEMMA BatchEntries ==
  ASSUME IInv, NEW c \in Calls, NEW k \in Kinds
  PROVE  /\ Range(flush[c][k].batch) \subseteq Entries
         /\ \A e \in Entries : e \in Range(flush[c][k].batch) <=> InFlush(e, c) /\ KindOf[e.event] = k
<1>1. flush[c][k].batch \in Seq(Entries)
  BY DEF IInv, Typed
<1>2. Range(flush[c][k].batch) \subseteq Entries
  BY <1>1, LenProperties DEF Range
<1> QED
  BY <1>2 DEF IInv, WellPlaced, InFlush

\* The entries at some keys of a retry are the ones it holds there.
LEMMA ItemEntries ==
  ASSUME IInv, NEW c \in Calls, NEW keys \in SUBSET DOMAIN retry[c].items
  PROVE  /\ EntriesAt(retry[c].items, keys) \subseteq Entries
         /\ \A e \in Entries :
              e \in EntriesAt(retry[c].items, keys) <=> InRetry(e, c) /\ Key(e) \in keys
<1>1. IsMap(retry[c].items)
  BY MapType DEF IInv, Typed
<1>2. \A m \in DOMAIN retry[c].items : retry[c].items[m].entry \in Entries
  BY <1>1 DEF IsMap, Items
<1>3. \A m \in DOMAIN retry[c].items : Key(retry[c].items[m].entry) = m
  BY DEF IInv, WellPlaced
<1> QED
  BY <1>2, <1>3 DEF EntriesAt, InRetry

\* When a flush is over, its batch is nowhere and the other batches are where they were.
LEMMA FlushEnds ==
  ASSUME IInv, NEW c \in Calls, NEW k \in Kinds, flush' = [flush EXCEPT ![c][k] = NoFlush]
  PROVE  /\ flush' \in [Calls -> [Kinds -> [batch : Seq(Entries), left : 0..MaxRetries]]]
         /\ \A d \in Calls, j \in Kinds : \A e \in Range(flush'[d][j].batch) : KindOf[e.event] = j
         /\ \A e \in Entries, d \in Calls :
              InFlush(e, d)' => /\ InFlush(e, d)
                                /\ ~(d = c /\ KindOf[e.event] = k)
                                /\ flush'[d][KindOf[e.event]] = flush[d][KindOf[e.event]]
<1>1. flush' \in [Calls -> [Kinds -> [batch : Seq(Entries), left : 0..MaxRetries]]]
  <2>1. NoFlush \in [batch : Seq(Entries), left : 0..MaxRetries]
    BY TuningAssumption DEF NoFlush
  <2> QED
    BY <2>1 DEF IInv, Typed
<1>2. \A d \in Calls, j \in Kinds :
        flush'[d][j] = IF d = c /\ j = k THEN NoFlush ELSE flush[d][j]
  BY DEF IInv, Typed
<1>3. Range(NoFlush.batch) = {}
  BY EmptyRange DEF NoFlush
<1>4. \A d \in Calls, j \in Kinds : \A e \in Range(flush'[d][j].batch) : KindOf[e.event] = j
  BY <1>2, <1>3 DEF IInv, WellPlaced
<1> QED
  BY <1>1, <1>2, <1>3, <1>4, KeyType DEF InFlush

\* When a retry is done with some keys, among them all it was saving, the rest of it is
\* as it was and starts with all its attempts.
LEMMA ProceedEffect ==
  ASSUME IInv, NEW c \in Calls, NEW keys, Proceed(c, keys),
         \A m \in DOMAIN retry[c].items :
           m[1] = Phase(retry[c].items) /\ retry[c].items[m].failures < DeadLetterThreshold
             => m \in keys
  PROVE  /\ retry' \in [Calls -> [items : Maps, left : 0..MaxRetries]]
         /\ \A d \in Calls : \A m \in DOMAIN retry'[d].items : Key(retry'[d].items[m].entry) = m
         /\ \A e \in Entries, d \in Calls :
              InRetry(e, d)' => InRetry(e, d) /\ ~(d = c /\ Key(e) \in keys)
         /\ \A e \in Entries, d \in Calls :
              InRetry(e, d)' =>
                LET items == retry'[d].items
                IN  items[Key(e)].failures < DeadLetterThreshold =>
                      failed[e] <= Rounds(items[Key(e)].failures)
                        + (IF Key(e)[1] = Phase(items) THEN MaxRetries - retry'[d].left ELSE 0)
<1> DEFINE old == retry[c].items
           new == Without(old, keys)
<1>1. IsMap(old) /\ \A d \in Calls : IsMap(retry[d].items) /\ retry[d].left \in 0..MaxRetries
  BY MapType DEF IInv, Typed
<1>2. DOMAIN new = DOMAIN old \ keys /\ \A m \in DOMAIN new : new[m] = old[m]
  BY DEF Without, Restrict
<1>3. IsMap(new)
  <2>1. new = [m \in DOMAIN new |-> new[m]]
    BY DEF Without, Restrict
  <2> QED
    BY <1>1, <1>2, <2>1 DEF IsMap
<1>e. EmptyMap \in Maps /\ DOMAIN EmptyMap = {}
  BY EmptyMapType
<1>4. /\ retry' = [retry EXCEPT ![c] = IF DOMAIN new = {} THEN NoRetry
                                      ELSE [items |-> new, left |-> MaxRetries]]
  BY DEF Proceed
<1> HIDE DEF new
<1>5. retry' \in [Calls -> [items : Maps, left : 0..MaxRetries]]
  <2>1. NoRetry \in [items : Maps, left : 0..MaxRetries]
    BY <1>e, TuningAssumption DEF NoRetry
  <2>2. [items |-> new, left |-> MaxRetries] \in [items : Maps, left : 0..MaxRetries]
    BY <1>3, MapType, TuningAssumption
  <2> QED
    BY <1>4, <2>1, <2>2 DEF IInv, Typed
<1>6. \A d \in Calls \ {c} : retry'[d] = retry[d]
  BY <1>4 DEF IInv, Typed
<1>7. /\ DOMAIN retry'[c].items = DOMAIN new
      /\ \A m \in DOMAIN retry'[c].items : retry'[c].items[m] = old[m] /\ retry'[c].left = MaxRetries
  <2>1. CASE DOMAIN new = {}
    BY <2>1, <1>4, <1>e DEF NoRetry, IInv, Typed
  <2>2. CASE DOMAIN new # {}
    BY <2>2, <1>2, <1>4 DEF IInv, Typed
  <2> QED
    BY <2>1, <2>2
<1>8. \A d \in Calls : \A m \in DOMAIN retry'[d].items : Key(retry'[d].items[m].entry) = m
  BY <1>2, <1>6, <1>7 DEF IInv, WellPlaced
<1>9. \A e \in Entries, d \in Calls :
        InRetry(e, d)' => InRetry(e, d) /\ ~(d = c /\ Key(e) \in keys)
  BY <1>2, <1>6, <1>7 DEF InRetry
<1>10. ASSUME NEW e \in Entries, NEW d \in Calls, InRetry(e, d)',
              retry'[d].items[Key(e)].failures < DeadLetterThreshold
       PROVE  failed[e] <= Rounds(retry'[d].items[Key(e)].failures)
                + (IF Key(e)[1] = Phase(retry'[d].items) THEN MaxRetries - retry'[d].left ELSE 0)
  <2>1. CASE d # c
    BY <2>1, <1>6, <1>9, <1>10 DEF IInv, AttemptsByPlace, WithinAttempts
  <2>2. CASE d = c
    <3>1. /\ Key(e) \in DOMAIN retry'[c].items /\ Key(e) \in DOMAIN old /\ Key(e) \notin keys
          /\ retry'[c].items[Key(e)] = old[Key(e)] /\ retry'[c].left = MaxRetries
      BY <2>2, <1>2, <1>7, <1>10 DEF InRetry
    <3>2. Key(e)[1] # Phase(old)
      BY <3>1, <2>2, <1>10
    <3>3. failed[e] <= Rounds(old[Key(e)].failures) + 0
      BY <3>1, <3>2, <2>2, <1>9, <1>10 DEF IInv, AttemptsByPlace, WithinAttempts
    <3>4. MaxRetries - retry'[c].left = 0
      BY <3>1, TuningAssumption
    <3> QED
      BY <2>2, <3>1, <3>3, <3>4
  <2> QED
    BY <2>1, <2>2
<1> QED
  BY <1>5, <1>8, <1>9, <1>10

\* Both copies of an event are entries.
LEMMA RawType == \A e \in Entries : Raw(e.event) \in Entries
BY DEF Raw, Entries

-----------------------------------------------------------------------------
(* One lemma for each action *)

\* A save that succeeds keeps the accounting.
LEMMA FlushSavedIInv ==
  ASSUME IInv, NEW c \in Calls, NEW k \in Kinds, FlushSaved(c, k)
  PROVE  IInv'
<1> DEFINE S == Range(flush[c][k].batch)
<1>1. S \in SUBSET Entries /\ \A e \in Entries : e \in S <=> InFlush(e, c) /\ KindOf[e.event] = k
  BY BatchEntries
<1>2. \A e \in S : fate[e] = "pending"
  BY <1>1 DEF IInv, HeldIsPending
<1>3. /\ applied' \in [Entries -> Nat] /\ fate' \in [Entries -> Fates] /\ failed' = failed
      /\ \A e \in S : fate'[e] = "saved"
      /\ \A e \in Entries \ S : fate'[e] = fate[e]
      /\ CountedOncePerAttempt'
  <2> HIDE DEF S
  <2> QED
    BY <1>1, <1>2, SavedCounts DEF FlushSaved, IInv, S
<1>4. /\ flush' \in [Calls -> [Kinds -> [batch : Seq(Entries), left : 0..MaxRetries]]]
      /\ \A d \in Calls, j \in Kinds : \A e \in Range(flush'[d][j].batch) : KindOf[e.event] = j
      /\ \A e \in Entries, d \in Calls :
           InFlush(e, d)' => /\ InFlush(e, d)
                             /\ ~(d = c /\ KindOf[e.event] = k)
                             /\ flush'[d][KindOf[e.event]] = flush[d][KindOf[e.event]]
  BY FlushEnds DEF FlushSaved
<1> HIDE DEF S
<1>u. UNCHANGED <<buffer, dlq, retry, closing, stops>>
  BY DEF FlushSaved
<1>5. /\ \A e \in Entries : (InBuffer(e)' <=> InBuffer(e)) /\ (InDlq(e)' <=> InDlq(e))
      /\ \A e \in Entries, d \in Calls : InRetry(e, d)' <=> InRetry(e, d)
  BY <1>u DEF InBuffer, InDlq, InRetry
<1>6. Typed'
  BY <1>3, <1>4, <1>u DEF IInv, Typed, FlushSaved, Release
<1>7. WellPlaced' /\ Unduplicated'
  BY <1>4, <1>u DEF IInv, WellPlaced, Unduplicated
<1>8. SinglePlace'
  BY <1>4, <1>5, MovesKeepSinglePlace DEF IInv
<1>9. HeldIsPending'
  BY <1>1, <1>3, <1>4, <1>5 DEF IInv, HeldIsPending, SinglePlace
<1>10. UnseenIsUntouched'
  BY <1>2, <1>3, RawType DEF IInv, UnseenIsUntouched
<1>11. AttemptsByPlace'
  BY <1>3, <1>4, <1>5, <1>u DEF IInv, AttemptsByPlace, WithinAttempts
<1> QED
  BY <1>3, <1>6, <1>7, <1>8, <1>9, <1>10, <1>11 DEF IInv

\* A save that is tried again keeps it.
LEMMA FlushRetriesIInv ==
  ASSUME IInv, NEW c \in Calls, NEW k \in Kinds, FlushRetries(c, k)
  PROVE  IInv'
<1> DEFINE S == Range(flush[c][k].batch)
<1>u. UNCHANGED <<buffer, dlq, retry, awaiting, closing, fate, stops>>
  BY DEF FlushRetries
<1>1. \A e \in Entries : e \in S <=> InFlush(e, c) /\ KindOf[e.event] = k
  BY BatchEntries
<1>2. /\ applied' \in [Entries -> Nat] /\ failed' \in [Entries -> Nat]
      /\ \A e \in Entries : failed'[e] = IF e \in S THEN failed[e] + 1 ELSE failed[e]
      /\ CountedOncePerAttempt'
  <2> HIDE DEF S
  <2> QED
    BY <1>u, AttemptCounts DEF FlushRetries, IInv, S
<1> HIDE DEF S
<1> DEFINE new == [batch |-> flush[c][k].batch, left |-> flush[c][k].left - 1]
<1>3. /\ flush[c][k].left \in 1..MaxRetries
      /\ flush[c][k].batch \in Seq(Entries)
      /\ new \in [batch : Seq(Entries), left : 0..MaxRetries]
  <2>1. flush[c][k] \in [batch : Seq(Entries), left : 0..MaxRetries]
    BY DEF IInv, Typed
  <2>2. flush[c][k].left \in 1..MaxRetries /\ flush[c][k].left - 1 \in 0..MaxRetries
    BY <2>1, TuningAssumption DEF FlushRetries
  <2>3. flush[c][k].batch \in Seq(Entries)
    BY <2>1
  <2> QED
    BY <2>2, <2>3
<1>4. /\ flush' \in [Calls -> [Kinds -> [batch : Seq(Entries), left : 0..MaxRetries]]]
      /\ flush'[c][k] = new
      /\ \A d \in Calls, j \in Kinds : ~(d = c /\ j = k) => flush'[d][j] = flush[d][j]
  <2>1. flush' = [flush EXCEPT ![c][k] = new]
    BY DEF FlushRetries
  <2> HIDE DEF new
  <2> QED
    BY <1>3, <2>1 DEF IInv, Typed
<1>b. /\ flush'[c][k].left = flush[c][k].left - 1
      /\ \A d \in Calls, j \in Kinds : flush'[d][j].batch = flush[d][j].batch
  <2>1. new.left = flush[c][k].left - 1 /\ new.batch = flush[c][k].batch
    OBVIOUS
  <2> HIDE DEF new
  <2> QED
    BY <2>1, <1>4
<1> HIDE DEF new
<1>5. \A e \in Entries : /\ InBuffer(e)' <=> InBuffer(e)
                         /\ InDlq(e)' <=> InDlq(e)
                         /\ \A d \in Calls : InRetry(e, d)' <=> InRetry(e, d)
                         /\ \A d \in Calls : InFlush(e, d)' <=> InFlush(e, d)
  BY <1>u, <1>b, KeyType DEF InBuffer, InDlq, InRetry, InFlush
<1>6. Typed'
  BY <1>2, <1>4, <1>u DEF IInv, Typed
<1>7. WellPlaced' /\ Unduplicated'
  BY <1>b, <1>u DEF IInv, WellPlaced, Unduplicated
<1>8. SinglePlace'
  BY <1>5, MovesKeepSinglePlace DEF IInv
<1>9. HeldIsPending'
  BY <1>5, <1>u DEF IInv, HeldIsPending
<1>10. UnseenIsUntouched'
  BY <1>1, <1>2, <1>u, RawType DEF IInv, UnseenIsUntouched, HeldIsPending
<1>11. AttemptsByPlace'
  <2> SUFFICES ASSUME NEW e \in Entries
               PROVE  WithinAttempts(e)'
    BY DEF AttemptsByPlace
  <2>1. CASE e \notin S
    <3>1. failed'[e] = failed[e]
      BY <2>1, <1>2
    <3>2. \A d \in Calls : InFlush(e, d) => flush'[d][KindOf[e.event]] = flush[d][KindOf[e.event]]
      BY <2>1, <1>1, <1>4, KeyType
    <3> QED
      BY <3>1, <3>2, <1>5, <1>u DEF IInv, AttemptsByPlace, WithinAttempts
  <2>2. CASE e \in S
    <3>1. InFlush(e, c) /\ KindOf[e.event] = k /\ failed'[e] = failed[e] + 1
      BY <2>2, <1>1, <1>2
    <3>2. ~InBuffer(e) /\ ~InDlq(e) /\ \A d \in Calls : ~InRetry(e, d) /\ (InFlush(e, d) => d = c)
      BY <3>1 DEF IInv, SinglePlace
    <3>3. failed[e] <= MaxRetries - flush[c][k].left
      BY <3>1 DEF IInv, AttemptsByPlace, WithinAttempts
    <3>4. failed[e] \in Nat
      BY DEF IInv, Typed
    <3>5. failed'[e] <= MaxRetries - flush'[c][k].left
      <4>1. flush[c][k].left \in Int /\ MaxRetries \in Int
        BY <1>3, TuningAssumption
      <4>2. failed[e] + 1 <= MaxRetries - (flush[c][k].left - 1)
        BY <4>1, <3>3, <3>4
      <4> QED
        BY <4>2, <3>1, <1>b
    <3>6. failed'[e] <= Rounds(DeadLetterThreshold)
      <4>1. Rounds(1) = MaxRetries + 1
        BY TuningAssumption DEF Rounds
      <4>2. Rounds(1) <= Rounds(DeadLetterThreshold) /\ Rounds(DeadLetterThreshold) \in Nat
        BY RoundsGrow, TuningAssumption
      <4>3. flush[c][k].left \in 1..MaxRetries /\ MaxRetries \in Nat
        BY <1>3, TuningAssumption
      <4>4. failed'[e] <= MaxRetries + 1 /\ failed'[e] \in Nat
        BY <4>3, <3>1, <3>3, <3>4
      <4> QED
        BY <4>1, <4>2, <4>3, <4>4
    <3> QED
      BY <3>1, <3>2, <3>5, <3>6, <1>5 DEF WithinAttempts
  <2> QED
    BY <2>1, <2>2
<1> QED
  BY <1>2, <1>6, <1>7, <1>8, <1>9, <1>10, <1>11 DEF IInv

\* So does the last attempt, which makes dead letters.
LEMMA FlushFailsIInv ==
  ASSUME IInv, NEW c \in Calls, NEW k \in Kinds, FlushFails(c, k)
  PROVE  IInv'
<1> DEFINE batch == flush[c][k].batch
           S     == Range(batch)
<1>u. UNCHANGED <<buffer, retry, closing, stops>>
  BY DEF FlushFails
<1>1. \A e \in Entries : e \in S <=> InFlush(e, c) /\ KindOf[e.event] = k
  BY BatchEntries
<1>2. \A e \in Entries : e \in S => fate[e] = "pending"
  BY <1>1 DEF IInv, HeldIsPending
<1>3. /\ fate' \in [Entries -> Fates]
      /\ \A e \in Entries : \/ fate'[e] = fate[e]
                            \/ /\ fate'[e] = "dropped"
                               /\ e \in S /\ \A m \in DOMAIN dlq' : dlq'[m].entry # e
  <2>1. fate' = [e \in Entries |->
                  IF e \in S /\ \A m \in DOMAIN dlq' : dlq'[m].entry # e THEN "dropped" ELSE fate[e]]
    BY DEF FlushFails
  <2> QED
    BY <2>1 DEF IInv, Typed, Fates
<1>4. /\ applied' \in [Entries -> Nat] /\ failed' \in [Entries -> Nat]
      /\ \A e \in Entries : failed'[e] = IF e \in S THEN failed[e] + 1 ELSE failed[e]
      /\ CountedOncePerAttempt'
  <2>1. \A e \in Entries : fate'[e] = "saved" <=> fate[e] = "saved"
    BY <1>2, <1>3
  <2>2. AttemptFails(S, k)
    BY DEF FlushFails
  <2> HIDE DEF S
  <2> QED
    BY <2>1, <2>2, AttemptCounts DEF IInv
<1>5. /\ flush' \in [Calls -> [Kinds -> [batch : Seq(Entries), left : 0..MaxRetries]]]
      /\ \A d \in Calls, j \in Kinds : \A e \in Range(flush'[d][j].batch) : KindOf[e.event] = j
      /\ \A e \in Entries, d \in Calls :
           InFlush(e, d)' => /\ InFlush(e, d)
                             /\ ~(d = c /\ KindOf[e.event] = k)
                             /\ flush'[d][KindOf[e.event]] = flush[d][KindOf[e.event]]
  BY FlushEnds DEF FlushFails
<1>6. /\ IsMap(dlq')
      /\ DOMAIN dlq \subseteq DOMAIN dlq'
      /\ \A m \in DOMAIN dlq : dlq'[m].entry = dlq[m].entry /\ dlq'[m].failures >= dlq[m].failures
      /\ \A m \in DOMAIN dlq' \ DOMAIN dlq : dlq'[m].entry \in S /\ Key(dlq'[m].entry) = m
  <2>1. IsMap(dlq) /\ batch \in Seq(Entries)
    BY MapType DEF IInv, Typed
  <2>2. CASE TimestampIsDate
    <3>1. dlq' = DeadLetters(dlq, batch)
      BY <2>2 DEF FlushFails
    <3> HIDE DEF batch
    <3> QED
      BY <2>1, <3>1, DeadLettersAdds
  <2>3. CASE ~TimestampIsDate
    <3>1. dlq' = dlq
      BY <2>3 DEF FlushFails
    <3>2. \A m \in DOMAIN dlq : dlq[m].failures \in Nat
      BY <2>1 DEF IsMap, Items
    <3> QED
      BY <2>1, <3>1, <3>2
  <2> QED
    BY <2>2, <2>3
<1>f. flush[c][k].left = 0
  BY DEF FlushFails
<1>a. awaiting' \in Calls \cup {NoCall}
  BY DEF FlushFails, Release, IInv, Typed
<1> HIDE DEF S, batch
<1>7. /\ \A e \in Entries : InBuffer(e)' <=> InBuffer(e)
      /\ \A e \in Entries, d \in Calls : InRetry(e, d)' <=> InRetry(e, d)
  BY <1>u DEF InBuffer, InRetry
<1>8. \A e \in Entries : InDlq(e)' => InDlq(e) \/ e \in S
  BY <1>6 DEF InDlq
<1>9. Typed'
  BY <1>3, <1>4, <1>5, <1>6, <1>u, <1>a, MapType DEF IInv, Typed
<1>10. WellPlaced' /\ Unduplicated'
  <2>1. \A m \in DOMAIN dlq' : Key(dlq'[m].entry) = m
    BY <1>6 DEF IInv, WellPlaced
  <2> QED
    BY <1>5, <1>u, <2>1 DEF IInv, WellPlaced, Unduplicated
<1>11. SinglePlace'
  <2>1. \A e \in Entries : InDlq(e)' =>
          \/ InDlq(e)
          \/ \E d \in Calls : (InFlush(e, d) /\ ~InFlush(e, d)') \/ (InRetry(e, d) /\ ~InRetry(e, d)')
    <3>1. ASSUME NEW e \in Entries, e \in S PROVE InFlush(e, c) /\ ~InFlush(e, c)'
      <4>1. InFlush(e, c) /\ KindOf[e.event] = k
        BY <3>1, <1>1
      <4> QED
        BY <4>1, <1>5
    <3> QED
      BY <3>1, <1>8
  <2>2. /\ \A e \in Entries : InBuffer(e)' => InBuffer(e)
        /\ \A e \in Entries, d \in Calls : InFlush(e, d)' => InFlush(e, d)
        /\ \A e \in Entries, d \in Calls : InRetry(e, d)' => InRetry(e, d)
    BY <1>5, <1>7
  <2> QED
    BY <2>1, <2>2, MovesKeepSinglePlace DEF IInv
<1>12. HeldIsPending'
  <2> SUFFICES ASSUME NEW e \in Entries,
                      \/ InBuffer(e)' \/ InDlq(e)'
                      \/ \E d \in Calls : InFlush(e, d)' \/ InRetry(e, d)'
               PROVE  fate'[e] = "pending"
    BY DEF HeldIsPending
  <2>1. CASE e \in S
    <3>1. InDlq(e)'
      BY <2>1, <1>1, <1>5, <1>7 DEF IInv, SinglePlace
    <3>2. fate'[e] = fate[e]
      BY <3>1, <1>3 DEF InDlq
    <3> QED
      BY <3>2, <2>1, <1>2
  <2>2. CASE e \notin S
    <3>1. fate'[e] = fate[e]
      BY <2>2, <1>3
    <3> QED
      BY <3>1, <2>2, <1>5, <1>7, <1>8 DEF IInv, HeldIsPending
  <2> QED
    BY <2>1, <2>2
<1>13. UnseenIsUntouched'
  <2>1. \A e \in Entries : fate'[e] = "unseen" <=> fate[e] = "unseen"
    BY <1>2, <1>3
  <2> QED
    BY <2>1, <1>2, <1>4, RawType DEF IInv, UnseenIsUntouched
<1>14. AttemptsByPlace'
  <2> SUFFICES ASSUME NEW e \in Entries
               PROVE  WithinAttempts(e)'
    BY DEF AttemptsByPlace
  <2>1. CASE e \notin S
    <3>1. failed'[e] = failed[e] /\ failed[e] \in Nat
      BY <2>1, <1>4 DEF IInv, Typed
    <3>2. InDlq(e)' => failed[e] <= Rounds(dlq'[Key(e)].failures)
      <4> SUFFICES ASSUME InDlq(e)' PROVE failed[e] <= Rounds(dlq'[Key(e)].failures)
        OBVIOUS
      <4>1. InDlq(e) /\ Key(e) \in DOMAIN dlq /\ Key(e) \in DOMAIN dlq'
        BY <2>1, <1>6, <1>8 DEF InDlq
      <4>2. failed[e] <= Rounds(dlq[Key(e)].failures)
        BY <4>1 DEF IInv, AttemptsByPlace, WithinAttempts
      <4>3. dlq[Key(e)].failures \in Nat /\ dlq'[Key(e)].failures \in Nat
        BY <4>1, <1>6, MapType DEF IInv, Typed, IsMap, Items
      <4>4. dlq[Key(e)].failures <= dlq'[Key(e)].failures
        BY <4>1, <4>3, <1>6
      <4>5. /\ Rounds(dlq[Key(e)].failures) <= Rounds(dlq'[Key(e)].failures)
            /\ Rounds(dlq[Key(e)].failures) \in Nat /\ Rounds(dlq'[Key(e)].failures) \in Nat
        BY <4>3, <4>4, RoundsGrow
      <4> QED
        BY <3>1, <4>2, <4>5
    <3> QED
      BY <3>1, <3>2, <1>5, <1>7, <1>u DEF IInv, AttemptsByPlace, WithinAttempts
  <2>2. CASE e \in S
    <3>1. InFlush(e, c) /\ KindOf[e.event] = k /\ failed'[e] = failed[e] + 1 /\ failed[e] \in Nat
      BY <2>2, <1>1, <1>4 DEF IInv, Typed
    <3>2. ~InBuffer(e)' /\ \A d \in Calls : ~InFlush(e, d)' /\ ~InRetry(e, d)'
      BY <3>1, <1>5, <1>7 DEF IInv, SinglePlace
    <3>3. failed[e] <= MaxRetries
      BY <3>1, <1>f, TuningAssumption DEF IInv, AttemptsByPlace, WithinAttempts
    <3>4. Rounds(1) = MaxRetries + 1
      BY TuningAssumption DEF Rounds
    <3>5. failed'[e] <= Rounds(1)
      BY <3>1, <3>3, <3>4, TuningAssumption
    <3>6. \A f \in Nat \ {0} : failed'[e] <= Rounds(f)
      <4>1. \A f \in Nat \ {0} : Rounds(1) <= Rounds(f) /\ Rounds(f) \in Nat
        BY RoundsGrow
      <4> QED
        BY <4>1, <3>1, <3>4, <3>5, TuningAssumption
    <3>7. InDlq(e)' => dlq'[Key(e)].failures \in Nat \ {0}
      BY <1>6 DEF InDlq, IsMap, Items
    <3> QED
      BY <3>2, <3>6, <3>7, TuningAssumption DEF WithinAttempts
  <2> QED
    BY <2>1, <2>2
<1> QED
  BY <1>4, <1>9, <1>10, <1>11, <1>12, <1>13, <1>14 DEF IInv

\* What a retry saves, it holds; and it is all of its kind that may be retried.
LEMMA RetryKeys ==
  ASSUME IInv, NEW c \in Calls, NEW keys,
         keys = Retryable(retry[c].items, Phase(retry[c].items))
  PROVE  /\ keys \in SUBSET DOMAIN retry[c].items
         /\ \A m \in keys : m[1] = Phase(retry[c].items) /\ retry[c].items[m].failures < DeadLetterThreshold
         /\ \A m \in DOMAIN retry[c].items :
              m[1] = Phase(retry[c].items) /\ retry[c].items[m].failures < DeadLetterThreshold
                => m \in keys
BY DEF Retryable

\* Dead letters that are saved keep it.
LEMMA RetrySavedIInv ==
  ASSUME IInv, NEW c \in Calls, RetrySaved(c)
  PROVE  IInv'
<1> DEFINE items == retry[c].items
           keys  == Retryable(items, Phase(items))
           S     == EntriesAt(items, keys)
<1>u. UNCHANGED <<buffer, dlq, flush, awaiting, closing, stops>> /\ Saved(S) /\ Proceed(c, keys)
  BY DEF RetrySaved
<1>k. /\ keys \in SUBSET DOMAIN retry[c].items
      /\ \A m \in DOMAIN retry[c].items :
           m[1] = Phase(retry[c].items) /\ retry[c].items[m].failures < DeadLetterThreshold
             => m \in keys
  BY RetryKeys
<1> HIDE DEF keys
<1>1. S \in SUBSET Entries /\ \A e \in Entries : e \in S <=> InRetry(e, c) /\ Key(e) \in keys
  BY <1>k, ItemEntries
<1>2. \A e \in S : fate[e] = "pending"
  BY <1>1 DEF IInv, HeldIsPending
<1> HIDE DEF S
<1>3. /\ applied' \in [Entries -> Nat] /\ fate' \in [Entries -> Fates] /\ failed' = failed
      /\ \A e \in S : fate'[e] = "saved"
      /\ \A e \in Entries \ S : fate'[e] = fate[e]
      /\ CountedOncePerAttempt'
  BY <1>u, <1>1, <1>2, SavedCounts DEF IInv
<1>4. /\ retry' \in [Calls -> [items : Maps, left : 0..MaxRetries]]
      /\ \A d \in Calls : \A m \in DOMAIN retry'[d].items : Key(retry'[d].items[m].entry) = m
      /\ \A e \in Entries, d \in Calls :
           InRetry(e, d)' => InRetry(e, d) /\ ~(d = c /\ Key(e) \in keys)
      /\ \A e \in Entries, d \in Calls :
           InRetry(e, d)' =>
             (retry'[d].items[Key(e)].failures < DeadLetterThreshold =>
                failed[e] <= Rounds(retry'[d].items[Key(e)].failures)
                  + (IF Key(e)[1] = Phase(retry'[d].items) THEN MaxRetries - retry'[d].left ELSE 0))
  BY <1>u, <1>k, ProceedEffect
<1>5. /\ \A e \in Entries : (InBuffer(e)' <=> InBuffer(e)) /\ (InDlq(e)' <=> InDlq(e))
      /\ \A e \in Entries, d \in Calls : InFlush(e, d)' <=> InFlush(e, d)
  BY <1>u DEF InBuffer, InDlq, InFlush
<1>6. Typed'
  BY <1>3, <1>4, <1>u DEF IInv, Typed
<1>7. WellPlaced' /\ Unduplicated'
  BY <1>4, <1>u DEF IInv, WellPlaced, Unduplicated
<1>8. SinglePlace'
  BY <1>4, <1>5, MovesKeepSinglePlace DEF IInv
<1>9. HeldIsPending'
  BY <1>1, <1>3, <1>4, <1>5 DEF IInv, HeldIsPending, SinglePlace
<1>10. UnseenIsUntouched'
  BY <1>2, <1>3, RawType DEF IInv, UnseenIsUntouched
<1>11. AttemptsByPlace'
  BY <1>3, <1>4, <1>5, <1>u DEF IInv, AttemptsByPlace, WithinAttempts
<1> QED
  BY <1>3, <1>6, <1>7, <1>8, <1>9, <1>10, <1>11 DEF IInv

\* Dead letters whose save is tried again keep it.
LEMMA RetryRetriesIInv ==
  ASSUME IInv, NEW c \in Calls, RetryRetries(c)
  PROVE  IInv'
<1> DEFINE items == retry[c].items
           keys  == Retryable(items, Phase(items))
           S     == EntriesAt(items, keys)
           new   == [items |-> retry[c].items, left |-> retry[c].left - 1]
<1>u. UNCHANGED <<buffer, dlq, flush, awaiting, closing, fate, stops>>
  BY DEF RetryRetries
<1>k. /\ keys \in SUBSET DOMAIN retry[c].items
      /\ \A m \in keys : m[1] = Phase(items) /\ items[m].failures < DeadLetterThreshold
      /\ \A m \in DOMAIN items : m[1] = Phase(items) /\ items[m].failures < DeadLetterThreshold
                                  => m \in keys
  BY RetryKeys
<1>2. /\ applied' \in [Entries -> Nat] /\ failed' \in [Entries -> Nat]
      /\ \A e \in Entries : failed'[e] = IF e \in S THEN failed[e] + 1 ELSE failed[e]
      /\ CountedOncePerAttempt'
  <2>1. AttemptFails(S, Phase(items))
    BY DEF RetryRetries
  <2> HIDE DEF S
  <2> QED
    BY <1>u, <2>1, AttemptCounts DEF IInv
<1>3. /\ retry[c].left \in 1..MaxRetries
      /\ new \in [items : Maps, left : 0..MaxRetries]
  <2>1. retry[c] \in [items : Maps, left : 0..MaxRetries]
    BY DEF IInv, Typed
  <2>2. retry[c].left \in 1..MaxRetries /\ retry[c].left - 1 \in 0..MaxRetries
    BY <2>1, TuningAssumption DEF RetryRetries
  <2>3. retry[c].items \in Maps
    BY <2>1
  <2> QED
    BY <2>2, <2>3
<1>4. /\ retry' \in [Calls -> [items : Maps, left : 0..MaxRetries]]
      /\ retry'[c] = new
      /\ \A d \in Calls \ {c} : retry'[d] = retry[d]
  <2>1. retry' = [retry EXCEPT ![c] = new]
    BY DEF RetryRetries
  <2> HIDE DEF new
  <2> QED
    BY <1>3, <2>1 DEF IInv, Typed
<1> HIDE DEF keys
<1>1. \A e \in Entries : e \in S <=> InRetry(e, c) /\ Key(e) \in keys
  BY <1>k, ItemEntries
<1>b. retry'[c].left = retry[c].left - 1 /\ \A d \in Calls : retry'[d].items = retry[d].items
  <2>1. new.left = retry[c].left - 1 /\ new.items = retry[c].items
    OBVIOUS
  <2> HIDE DEF new
  <2> QED
    BY <2>1, <1>4
<1> HIDE DEF S, new
<1>5. \A e \in Entries : /\ InBuffer(e)' <=> InBuffer(e)
                         /\ InDlq(e)' <=> InDlq(e)
                         /\ \A d \in Calls : InRetry(e, d)' <=> InRetry(e, d)
                         /\ \A d \in Calls : InFlush(e, d)' <=> InFlush(e, d)
  BY <1>u, <1>b DEF InBuffer, InDlq, InRetry, InFlush
<1>6. Typed'
  BY <1>2, <1>4, <1>u DEF IInv, Typed
<1>7. WellPlaced' /\ Unduplicated'
  BY <1>b, <1>u DEF IInv, WellPlaced, Unduplicated
<1>8. SinglePlace'
  BY <1>5, MovesKeepSinglePlace DEF IInv
<1>9. HeldIsPending'
  BY <1>5, <1>u DEF IInv, HeldIsPending
<1>10. UnseenIsUntouched'
  BY <1>1, <1>2, <1>u, RawType DEF IInv, UnseenIsUntouched, HeldIsPending
<1>11. AttemptsByPlace'
  <2> SUFFICES ASSUME NEW e \in Entries
               PROVE  WithinAttempts(e)'
    BY DEF AttemptsByPlace
  <2>0. failed[e] \in Nat
    BY DEF IInv, Typed
  <2>1. CASE e \notin S
    <3>1. failed'[e] = failed[e]
      BY <2>1, <1>2
    <3>2. ASSUME NEW d \in Calls, InRetry(e, d)',
                 retry'[d].items[Key(e)].failures < DeadLetterThreshold
          PROVE  failed[e] <= Rounds(retry'[d].items[Key(e)].failures)
                   + (IF Key(e)[1] = Phase(retry'[d].items) THEN MaxRetries - retry'[d].left ELSE 0)
      <4>1. InRetry(e, d) /\ retry'[d].items = retry[d].items
        BY <3>2, <1>5, <1>b
      <4>2. CASE d = c
        <5>1. Key(e) \notin keys
          BY <4>1, <4>2, <2>1, <1>1
        <5>2. Key(e)[1] # Phase(items)
          BY <5>1, <4>1, <4>2, <3>2, <1>k DEF InRetry
        <5> QED
          BY <5>2, <4>1, <4>2, <3>2 DEF IInv, AttemptsByPlace, WithinAttempts
      <4>3. CASE d # c
        BY <4>1, <4>3, <3>2, <1>4 DEF IInv, AttemptsByPlace, WithinAttempts
      <4> QED
        BY <4>2, <4>3
    <3> QED
      BY <3>1, <3>2, <1>5, <1>u DEF IInv, AttemptsByPlace, WithinAttempts
  <2>2. CASE e \in S
    <3>1. InRetry(e, c) /\ Key(e) \in keys /\ failed'[e] = failed[e] + 1
      BY <2>2, <1>1, <1>2
    <3>2. ~InBuffer(e) /\ ~InDlq(e) /\ \A d \in Calls : ~InFlush(e, d) /\ (InRetry(e, d) => d = c)
      BY <3>1 DEF IInv, SinglePlace
    <3>3. /\ Key(e)[1] = Phase(items) /\ items[Key(e)].failures < DeadLetterThreshold
          /\ items[Key(e)].failures \in Nat
      BY <3>1, <1>k, MapType DEF IInv, Typed, IsMap, Items
    <3>4. failed[e] <= Rounds(items[Key(e)].failures) + (MaxRetries - retry[c].left)
      BY <3>1, <3>3 DEF IInv, AttemptsByPlace, WithinAttempts
    <3> DEFINE f == items[Key(e)].failures
    <3>f. f \in Nat /\ f + 1 \in Nat /\ f + 1 <= DeadLetterThreshold /\ DeadLetterThreshold \in Nat
      BY <3>3, TuningAssumption
    <3> HIDE DEF f
    <3>5. /\ Rounds(f) \in Nat /\ Rounds(f + 1) = Rounds(f) + MaxRetries + 1
          /\ Rounds(f + 1) <= Rounds(DeadLetterThreshold) /\ Rounds(DeadLetterThreshold) \in Nat
      BY <3>f, RoundsGrow
    <3>6. failed'[e] <= Rounds(f) + (MaxRetries - retry'[c].left)
      BY <2>0, <3>1, <3>4, <3>5, <1>3, <1>b, TuningAssumption DEF f
    <3>7. failed'[e] <= Rounds(DeadLetterThreshold)
      BY <2>0, <3>1, <3>4, <3>5, <1>3, TuningAssumption DEF f
    <3>8. retry'[c].items = items
      BY <1>b
    <3> QED
      BY <3>2, <3>3, <3>6, <3>7, <3>8, <1>5 DEF WithinAttempts, f
  <2> QED
    BY <2>1, <2>2
<1> QED
  BY <1>2, <1>6, <1>7, <1>8, <1>9, <1>10, <1>11 DEF IInv

\* Dead letters that fail once more keep it.
LEMMA RetryFailsIInv ==
  ASSUME IInv, NEW c \in Calls, RetryFails(c)
  PROVE  IInv'
<1> DEFINE items == retry[c].items
           keys  == Retryable(items, Phase(items))
           S     == EntriesAt(items, keys)
<1>u. UNCHANGED <<buffer, flush, awaiting, closing, stops>> /\ Proceed(c, keys) /\ retry[c].left = 0
  BY DEF RetryFails
<1>d. dlq' = [m \in DOMAIN dlq \cup keys |->
                IF m \in keys
                THEN [entry |-> items[m].entry, failures |-> items[m].failures + 1]
                ELSE dlq[m]]
  BY DEF RetryFails
<1>f. fate' = [e \in Entries |->
                 IF e \in EntriesAt(dlq, keys \cap DOMAIN dlq) THEN "dropped" ELSE fate[e]]
  BY DEF RetryFails
<1>t. AttemptFails(S, Phase(items))
  BY DEF RetryFails
<1>k. /\ keys \in SUBSET DOMAIN retry[c].items
      /\ \A m \in keys : m[1] = Phase(items) /\ items[m].failures < DeadLetterThreshold
      /\ \A m \in DOMAIN retry[c].items :
           m[1] = Phase(retry[c].items) /\ retry[c].items[m].failures < DeadLetterThreshold
             => m \in keys
  BY RetryKeys
<1> HIDE DEF keys
<1>1. \A e \in Entries : e \in S <=> InRetry(e, c) /\ Key(e) \in keys
  BY <1>k, ItemEntries
<1>m. IsMap(items) /\ IsMap(dlq)
  BY MapType DEF IInv, Typed
<1>2. /\ DOMAIN dlq' = DOMAIN dlq \cup keys
      /\ \A m \in keys : /\ dlq'[m].entry = items[m].entry
                         /\ dlq'[m].failures = items[m].failures + 1
                         /\ items[m].failures \in Nat \ {0}
                         /\ items[m].entry \in Entries
      /\ \A m \in DOMAIN dlq \ keys : dlq'[m] = dlq[m]
      /\ IsMap(dlq')
  <2>1. DOMAIN dlq' = DOMAIN dlq \cup keys
    BY <1>d
  <2>2. \A m \in keys : m \in MapKeys /\ items[m].entry \in Entries /\ items[m].failures \in Nat \ {0}
    BY <1>k, <1>m DEF IsMap, Items
  <2>3. \A m \in keys : dlq'[m] = [entry |-> items[m].entry, failures |-> items[m].failures + 1]
    BY <1>d
  <2>4. ASSUME NEW m \in keys
        PROVE  /\ dlq'[m] \in Items
               /\ dlq'[m].entry = items[m].entry
               /\ dlq'[m].failures = items[m].failures + 1
    <3>1. dlq'[m] = [entry |-> items[m].entry, failures |-> items[m].failures + 1]
      BY <2>3
    <3>2. items[m].entry \in Entries /\ items[m].failures + 1 \in Nat \ {0}
      BY <2>2
    <3> HIDE DEF items
    <3> QED
      BY <3>1, <3>2 DEF Items
  <2>5. \A m \in DOMAIN dlq \ keys : dlq'[m] = dlq[m] /\ dlq[m] \in Items /\ m \in MapKeys
    BY <1>d, <1>m DEF IsMap
  <2>6. dlq' = [m \in DOMAIN dlq' |-> dlq'[m]]
    BY <1>d
  <2>7. IsMap(dlq')
    BY <2>1, <2>2, <2>4, <2>5, <2>6 DEF IsMap
  <2> QED
    BY <2>1, <2>2, <2>4, <2>5, <2>7
<1>3. /\ fate' \in [Entries -> Fates]
      /\ \A e \in Entries : \/ fate'[e] = fate[e] /\ ~(InDlq(e) /\ Key(e) \in keys)
                            \/ fate'[e] = "dropped" /\ InDlq(e) /\ Key(e) \in keys
  <2>1. fate' \in [Entries -> Fates]
    BY <1>f DEF IInv, Typed, Fates
  <2>2. \A e \in Entries : e \in EntriesAt(dlq, keys \cap DOMAIN dlq) <=> InDlq(e) /\ Key(e) \in keys
    BY DEF EntriesAt, InDlq, IInv, WellPlaced
  <2> QED
    BY <1>f, <2>1, <2>2
<1>4. /\ applied' \in [Entries -> Nat] /\ failed' \in [Entries -> Nat]
      /\ \A e \in Entries : failed'[e] = IF e \in S THEN failed[e] + 1 ELSE failed[e]
      /\ CountedOncePerAttempt'
  <2>1. \A e \in Entries : fate'[e] = "saved" <=> fate[e] = "saved"
    BY <1>3 DEF IInv, HeldIsPending
  <2> HIDE DEF S
  <2> QED
    BY <2>1, <1>t, AttemptCounts DEF IInv
<1>5. /\ retry' \in [Calls -> [items : Maps, left : 0..MaxRetries]]
      /\ \A d \in Calls : \A m \in DOMAIN retry'[d].items : Key(retry'[d].items[m].entry) = m
      /\ \A e \in Entries, d \in Calls :
           InRetry(e, d)' => InRetry(e, d) /\ ~(d = c /\ Key(e) \in keys)
      /\ \A e \in Entries, d \in Calls :
           InRetry(e, d)' =>
             (retry'[d].items[Key(e)].failures < DeadLetterThreshold =>
                failed[e] <= Rounds(retry'[d].items[Key(e)].failures)
                  + (IF Key(e)[1] = Phase(retry'[d].items) THEN MaxRetries - retry'[d].left ELSE 0))
  BY <1>u, <1>k, ProceedEffect
<1> HIDE DEF S
<1>6. /\ \A e \in Entries : InBuffer(e)' <=> InBuffer(e)
      /\ \A e \in Entries, d \in Calls : InFlush(e, d)' <=> InFlush(e, d)
  BY <1>u DEF InBuffer, InFlush
<1>7. \A e \in Entries : InDlq(e)' => e \in S \/ (InDlq(e) /\ Key(e) \notin keys)
  BY <1>1, <1>2, <1>k DEF InDlq, InRetry
<1>8. \A e \in Entries : e \in S => InRetry(e, c) /\ \A d \in Calls : ~InRetry(e, d)'
  BY <1>1, <1>5 DEF IInv, SinglePlace
<1>9. Typed'
  BY <1>2, <1>3, <1>4, <1>5, <1>u, MapType DEF IInv, Typed
<1>10. WellPlaced' /\ Unduplicated'
  <2>1. \A m \in DOMAIN dlq' : Key(dlq'[m].entry) = m
    BY <1>2, <1>k DEF IInv, WellPlaced
  <2> QED
    BY <1>5, <1>u, <2>1 DEF IInv, WellPlaced, Unduplicated
<1>11. SinglePlace'
  <2>1. \A e \in Entries : InDlq(e)' =>
          \/ InDlq(e)
          \/ \E d \in Calls : (InFlush(e, d) /\ ~InFlush(e, d)') \/ (InRetry(e, d) /\ ~InRetry(e, d)')
    BY <1>7, <1>8
  <2>2. /\ \A e \in Entries : InBuffer(e)' => InBuffer(e)
        /\ \A e \in Entries, d \in Calls : InFlush(e, d)' => InFlush(e, d)
        /\ \A e \in Entries, d \in Calls : InRetry(e, d)' => InRetry(e, d)
    BY <1>5, <1>6
  <2> QED
    BY <2>1, <2>2, MovesKeepSinglePlace DEF IInv
<1>12. HeldIsPending'
  <2> SUFFICES ASSUME NEW e \in Entries,
                      \/ InBuffer(e)' \/ InDlq(e)'
                      \/ \E d \in Calls : InFlush(e, d)' \/ InRetry(e, d)'
               PROVE  fate'[e] = "pending"
    BY DEF HeldIsPending
  <2>1. ~(InDlq(e) /\ Key(e) \in keys)
    BY <1>5, <1>6, <1>7, <1>8 DEF IInv, SinglePlace
  <2>2. fate'[e] = fate[e]
    BY <2>1, <1>3
  <2> QED
    BY <2>2, <1>5, <1>6, <1>7, <1>8 DEF IInv, HeldIsPending
<1>13. UnseenIsUntouched'
  <2>1. \A e \in Entries : fate'[e] = "unseen" <=> fate[e] = "unseen"
    BY <1>3 DEF IInv, HeldIsPending
  <2>2. \A e \in S : e \in Entries => fate[e] = "pending"
    BY <1>8 DEF IInv, HeldIsPending
  <2> QED
    BY <2>1, <2>2, <1>4, RawType DEF IInv, UnseenIsUntouched
<1>14. AttemptsByPlace'
  <2> SUFFICES ASSUME NEW e \in Entries
               PROVE  WithinAttempts(e)'
    BY DEF AttemptsByPlace
  <2>1. CASE e \notin S
    <3>1. failed'[e] = failed[e]
      BY <2>1, <1>4
    <3>2. InDlq(e)' => InDlq(e) /\ dlq'[Key(e)] = dlq[Key(e)]
      BY <2>1, <1>2, <1>7 DEF InDlq
    <3> QED
      BY <3>1, <3>2, <1>5, <1>6, <1>u DEF IInv, AttemptsByPlace, WithinAttempts
  <2>2. CASE e \in S
    <3> DEFINE f == items[Key(e)].failures
    <3>1. /\ InRetry(e, c) /\ Key(e) \in keys
          /\ failed'[e] = failed[e] + 1 /\ failed[e] \in Nat
      BY <2>2, <1>1, <1>4 DEF IInv, Typed
    <3>2. ~InBuffer(e)' /\ \A d \in Calls : ~InFlush(e, d)' /\ ~InRetry(e, d)'
      BY <2>2, <3>1, <1>6, <1>8 DEF IInv, SinglePlace
    <3>3. /\ Key(e)[1] = Phase(items) /\ f < DeadLetterThreshold /\ f \in Nat
          /\ dlq'[Key(e)].failures = f + 1
      BY <3>1, <1>2, <1>k
    <3>4. failed[e] <= Rounds(f) + (MaxRetries - retry[c].left)
      BY <3>1, <3>3 DEF IInv, AttemptsByPlace, WithinAttempts
    <3> HIDE DEF f
    <3>5. f + 1 \in Nat /\ f + 1 <= DeadLetterThreshold /\ DeadLetterThreshold \in Nat
      BY <3>3, TuningAssumption
    <3>6. /\ Rounds(f) \in Nat /\ Rounds(f + 1) = Rounds(f) + MaxRetries + 1
          /\ Rounds(f + 1) <= Rounds(DeadLetterThreshold) /\ Rounds(DeadLetterThreshold) \in Nat
      BY <3>3, <3>5, RoundsGrow
    <3>7. failed'[e] <= Rounds(f + 1)
      BY <3>1, <3>4, <3>6, <1>u, TuningAssumption
    <3>8. failed'[e] <= Rounds(DeadLetterThreshold)
      BY <3>1, <3>6, <3>7, TuningAssumption
    <3> QED
      BY <3>2, <3>3, <3>7, <3>8 DEF WithinAttempts
  <2> QED
    BY <2>1, <2>2
<1> QED
  BY <1>4, <1>9, <1>10, <1>11, <1>12, <1>13, <1>14 DEF IInv

\* Giving up dead letters keeps it.
LEMMA ReportIInv ==
  ASSUME IInv, NEW c \in Calls, Report(c)
  PROVE  IInv'
<1> DEFINE items == retry[c].items
           keys  == Exhausted(items)
           S     == EntriesAt(items, keys)
<1>u. /\ UNCHANGED <<buffer, dlq, flush, awaiting, closing, applied, failed, stops>>
      /\ Proceed(c, keys)
      /\ Phase(items) = "report"
  BY DEF Report
<1>k. /\ keys \in SUBSET DOMAIN retry[c].items
      /\ \A m \in DOMAIN retry[c].items :
           m[1] = Phase(retry[c].items) /\ retry[c].items[m].failures < DeadLetterThreshold
             => m \in keys
  <2>1. IsMap(items)
    BY MapType DEF IInv, Typed
  <2>2. \A m \in MapKeys : m[1] \in Kinds
    BY DEF MapKeys
  <2> QED
    BY <1>u, <2>1, <2>2 DEF Exhausted, IsMap, Kinds
<1> HIDE DEF keys
<1>1. S \in SUBSET Entries /\ \A e \in Entries : e \in S <=> InRetry(e, c) /\ Key(e) \in keys
  BY <1>k, ItemEntries
<1>2. \A e \in S : fate[e] = "pending"
  BY <1>1 DEF IInv, HeldIsPending
<1>3. /\ fate' \in [Entries -> Fates]
      /\ \A e \in S : fate'[e] \in {"reported", "dropped"}
      /\ \A e \in Entries \ S : fate'[e] = fate[e]
  <2>1. PICK sent \in SUBSET S :
          fate' = [e \in Entries |-> IF e \in sent THEN "reported"
                                     ELSE IF e \in S THEN "dropped" ELSE fate[e]]
    BY DEF Report, keys
  <2> HIDE DEF S
  <2> QED
    BY <1>1, <2>1 DEF IInv, Typed, Fates
<1> HIDE DEF S
<1>4. /\ retry' \in [Calls -> [items : Maps, left : 0..MaxRetries]]
      /\ \A d \in Calls : \A m \in DOMAIN retry'[d].items : Key(retry'[d].items[m].entry) = m
      /\ \A e \in Entries, d \in Calls :
           InRetry(e, d)' => InRetry(e, d) /\ ~(d = c /\ Key(e) \in keys)
      /\ \A e \in Entries, d \in Calls :
           InRetry(e, d)' =>
             (retry'[d].items[Key(e)].failures < DeadLetterThreshold =>
                failed[e] <= Rounds(retry'[d].items[Key(e)].failures)
                  + (IF Key(e)[1] = Phase(retry'[d].items) THEN MaxRetries - retry'[d].left ELSE 0))
  BY <1>u, <1>k, ProceedEffect
<1>5. /\ \A e \in Entries : (InBuffer(e)' <=> InBuffer(e)) /\ (InDlq(e)' <=> InDlq(e))
      /\ \A e \in Entries, d \in Calls : InFlush(e, d)' <=> InFlush(e, d)
  BY <1>u DEF InBuffer, InDlq, InFlush
<1>6. Typed'
  BY <1>3, <1>4, <1>u DEF IInv, Typed
<1>7. WellPlaced' /\ Unduplicated'
  BY <1>4, <1>u DEF IInv, WellPlaced, Unduplicated
<1>8. SinglePlace'
  BY <1>4, <1>5, MovesKeepSinglePlace DEF IInv
<1>9. HeldIsPending'
  BY <1>1, <1>3, <1>4, <1>5 DEF IInv, HeldIsPending, SinglePlace
<1>10. UnseenIsUntouched'
  BY <1>2, <1>3, <1>u, RawType DEF IInv, UnseenIsUntouched
<1>11. AttemptsByPlace'
  BY <1>4, <1>5, <1>u DEF IInv, AttemptsByPlace, WithinAttempts
<1>12. CountedOncePerAttempt'
  <2>1. \A e \in Entries : fate'[e] = "saved" <=> fate[e] = "saved"
    BY <1>2, <1>3
  <2> QED
    BY <2>1, <1>u DEF IInv, CountedOncePerAttempt
<1> QED
  BY <1>6, <1>7, <1>8, <1>9, <1>10, <1>11, <1>12 DEF IInv

\* A flush that starts holds the part of the buffer it has taken.
LEMMA FlushStarts ==
  ASSUME NEW s \in Seq(Entries), NoDuplicates(s)
  PROVE  /\ StartFlush(s) \in [batch : Seq(Entries), left : 0..MaxRetries]
         /\ StartFlush(s).batch = Taken(s)
         /\ StartFlush(s).left = MaxRetries
<1>1. Taken(s) \in Seq(Entries)
  BY SpliceDivides
<1> QED
  BY <1>1, TuningAssumption DEF StartFlush

\* An event that arrives keeps it.
LEMMA ReceiveIInv ==
  ASSUME IInv, NEW v \in Events, NEW pushed \in Seq(Entries), NoDuplicates(pushed),
         \A e \in Range(pushed) : e \in Entries /\ e.event = v,
         Raw(v) \in Entries, Receive(v, pushed)
  PROVE  IInv'
<1> DEFINE k == KindOf[v]
           s == buffer[k] \o pushed
           KeptOrFilled(d, j, c) ==
             \/ flush'[d][j] = flush[d][j]
             \/ /\ d = c /\ j = k /\ flush'[d][j].left = MaxRetries
                /\ Range(flush'[d][j].batch) \subseteq Range(s)
                /\ Range(flush'[d][j].batch) \cap Range(buffer'[k]) = {}
           Effect(c) ==
             /\ awaiting' \in Calls \cup {NoCall}
             /\ buffer' \in [Kinds -> Seq(Entries)] /\ NoDuplicates(buffer'[k])
             /\ Range(buffer'[k]) \subseteq Range(s)
             /\ \A j \in Kinds \ {k} : buffer'[j] = buffer[j]
             /\ flush' \in [Calls -> [Kinds -> [batch : Seq(Entries), left : 0..MaxRetries]]]
             /\ \A d \in Calls, j \in Kinds : KeptOrFilled(d, j, c)
<1>u. UNCHANGED <<dlq, retry, closing, applied, failed, stops>>
  BY DEF Receive
<1>k. k \in Kinds /\ buffer[k] \in Seq(Entries) /\ NoDuplicates(buffer[k])
  BY EventsAssumption DEF IInv, Typed, Unduplicated
<1>1. \A e \in Entries : e.event = v => fate[e] = "unseen" /\ failed[e] = 0
  <2>1. fate[Raw(v)] = "unseen"
    BY DEF Receive
  <2> QED
    BY <2>1 DEF IInv, UnseenIsUntouched
<1>2. \A e \in Entries : e \in Range(buffer[k]) => InBuffer(e) /\ e.event # v
  BY <1>1, <1>k DEF IInv, WellPlaced, InBuffer, HeldIsPending
<1>3. /\ s \in Seq(Entries)
      /\ NoDuplicates(s)
      /\ Range(s) \subseteq Range(buffer[k]) \cup Range(pushed)
  <2>1. Range(buffer[k]) \cap Range(pushed) = {}
    BY <1>2
  <2> HIDE DEF k
  <2> QED
    BY <2>1, <1>k, PushAdds
<1>4. /\ fate' \in [Entries -> Fates]
      /\ \A e \in Entries : fate'[e] = IF e.event = v THEN "pending" ELSE fate[e]
  BY DEF Receive, IInv, Typed, Fates
<1>5. \A e \in Entries : e \in Range(s) => /\ KindOf[e.event] = k
                                           /\ InBuffer(e) \/ (e.event = v /\ fate[e] = "unseen")
  BY <1>1, <1>2, <1>3, <1>k DEF IInv, WellPlaced
<1>6. \E c \in Calls \cup {NoCall} : Effect(c)
  <2>1. CASE /\ Len(s) < BatchSize
             /\ buffer' = [buffer EXCEPT ![k] = s]
             /\ UNCHANGED <<flush, awaiting>>
    <3> HIDE DEF k, s
    <3>1. /\ buffer' \in [Kinds -> Seq(Entries)] /\ buffer'[k] = s
          /\ \A j \in Kinds \ {k} : buffer'[j] = buffer[j]
      BY <2>1, <1>3, <1>k DEF IInv, Typed
    <3>2. Effect(NoCall)
      BY <2>1, <3>1, <1>3 DEF IInv, Typed
    <3> HIDE DEF Effect
    <3> QED
      BY <3>2
  <2>2. ASSUME NEW c \in Calls,
               flush' = [flush EXCEPT ![c][k] = StartFlush(s)], awaiting' = c,
               buffer' = [buffer EXCEPT ![k] = Remaining(s)]
        PROVE  Effect(c)
    <3> HIDE DEF k, s
    <3>1. /\ Remaining(s) \in Seq(Entries)
          /\ Range(Taken(s)) \subseteq Range(s)
          /\ Range(Remaining(s)) \subseteq Range(s)
          /\ Range(Taken(s)) \cap Range(Remaining(s)) = {}
          /\ NoDuplicates(Remaining(s))
      BY <1>3, SpliceDivides
    <3>2. /\ StartFlush(s) \in [batch : Seq(Entries), left : 0..MaxRetries]
          /\ StartFlush(s).batch = Taken(s)
          /\ StartFlush(s).left = MaxRetries
      BY <1>3, FlushStarts
    <3>3. /\ buffer' \in [Kinds -> Seq(Entries)] /\ buffer'[k] = Remaining(s)
          /\ \A j \in Kinds \ {k} : buffer'[j] = buffer[j]
      BY <2>2, <3>1, <1>k DEF IInv, Typed
    <3>4. /\ flush' \in [Calls -> [Kinds -> [batch : Seq(Entries), left : 0..MaxRetries]]]
          /\ flush'[c][k] = StartFlush(s)
          /\ \A d \in Calls, j \in Kinds : ~(d = c /\ j = k) => flush'[d][j] = flush[d][j]
      BY <2>2, <3>2, <1>k DEF IInv, Typed
    <3> QED
      BY <2>2, <3>1, <3>2, <3>3, <3>4
  <2>3. CASE /\ buffer' = [buffer EXCEPT ![k] = Remaining(s)]
             /\ \E c \in Calls : /\ flush' = [flush EXCEPT ![c][k] = StartFlush(s)]
                                 /\ awaiting' = c
    <3>1. PICK c \in Calls : /\ flush' = [flush EXCEPT ![c][k] = StartFlush(s)]
                            /\ awaiting' = c
      BY <2>3
    <3> HIDE DEF Effect, k, s
    <3> QED
      BY <2>3, <3>1, <2>2
  <2>4. \/ /\ Len(s) < BatchSize
           /\ buffer' = [buffer EXCEPT ![k] = s]
           /\ UNCHANGED <<flush, awaiting>>
        \/ /\ buffer' = [buffer EXCEPT ![k] = Remaining(s)]
           /\ \E c \in Calls : /\ flush' = [flush EXCEPT ![c][k] = StartFlush(s)]
                               /\ awaiting' = c
    BY Zenon DEF Receive
  <2> HIDE DEF Effect, k, s
  <2> QED
    BY <2>1, <2>3, <2>4
<1>7. PICK c \in Calls \cup {NoCall} : Effect(c)
  <2> HIDE DEF Effect
  <2> QED
    BY <1>6
<1> HIDE DEF s, k
<1>8. /\ \A e \in Entries : InDlq(e)' <=> InDlq(e)
      /\ \A e \in Entries, d \in Calls : InRetry(e, d)' <=> InRetry(e, d)
  BY <1>u DEF InDlq, InRetry
<1>9. \A e \in Entries : InBuffer(e)' => InBuffer(e) \/ (e.event = v /\ fate[e] = "unseen")
  BY <1>5, <1>7, <1>k, KeyType DEF InBuffer
<1>10. ASSUME NEW e \in Entries, NEW d \in Calls, InFlush(e, d)'
       PROVE  \/ InFlush(e, d) /\ flush'[d][KindOf[e.event]] = flush[d][KindOf[e.event]]
              \/ /\ d = c /\ ~InBuffer(e)' /\ flush'[d][KindOf[e.event]].left = MaxRetries
                 /\ InBuffer(e) \/ (e.event = v /\ fate[e] = "unseen")
  BY <1>5, <1>7, <1>10, KeyType DEF InFlush, InBuffer
<1>11. Typed'
  BY <1>4, <1>7, <1>u DEF IInv, Typed
<1>12. WellPlaced' /\ Unduplicated'
  <2>1. Range(s) \subseteq Entries
    BY <1>3, LenProperties DEF Range
  <2>2. ASSUME NEW j \in Kinds, NEW e \in Range(buffer'[j])
        PROVE  KindOf[e.event] = j
    <3>1. CASE j = k
      <4>1. Range(buffer'[k]) \subseteq Range(s)
        BY <1>7
      <4>2. e \in Entries /\ e \in Range(s)
        BY <3>1, <4>1, <2>1, <2>2
      <4> QED
        BY <4>2, <3>1, <1>5, Zenon
    <3>2. CASE j # k
      <4>1. buffer'[j] = buffer[j]
        BY <3>2, <1>7
      <4> QED
        BY <4>1, <2>2 DEF IInv, WellPlaced
    <3> QED
      BY <3>1, <3>2
  <2>3. ASSUME NEW d \in Calls, NEW j \in Kinds, NEW e \in Range(flush'[d][j].batch)
        PROVE  KindOf[e.event] = j
    <3>1. CASE flush'[d][j] = flush[d][j]
      BY <3>1, <2>3 DEF IInv, WellPlaced
    <3>2. CASE j = k /\ Range(flush'[d][j].batch) \subseteq Range(s)
      <4>1. e \in Entries /\ e \in Range(s)
        BY <3>2, <2>1, <2>3
      <4> QED
        BY <4>1, <3>2, <1>5
    <3> QED
      BY <3>1, <3>2, <1>7
  <2>4. \A j \in Kinds : NoDuplicates(buffer'[j])
    BY <1>7 DEF IInv, Unduplicated
  <2> QED
    BY <2>2, <2>3, <2>4, <1>u DEF IInv, WellPlaced, Unduplicated
<1>13. SinglePlace'
  BY <1>8, <1>9, <1>10, MovesKeepSinglePlace DEF IInv
<1>14. HeldIsPending'
  BY <1>1, <1>4, <1>8, <1>9, <1>10 DEF IInv, HeldIsPending
<1>15. UnseenIsUntouched'
  <2>1. \A e \in Entries : Raw(e.event) \in Entries /\ Raw(e.event).event = e.event
    BY RawType DEF Raw
  <2> QED
    BY <2>1, <1>4, <1>u DEF IInv, UnseenIsUntouched
<1>16. AttemptsByPlace'
  <2> SUFFICES ASSUME NEW e \in Entries
               PROVE  WithinAttempts(e)'
    BY DEF AttemptsByPlace
  <2>1. InBuffer(e)' => failed[e] = 0
    BY <1>1, <1>9 DEF IInv, AttemptsByPlace, WithinAttempts
  <2>2. ASSUME NEW d \in Calls, InFlush(e, d)'
        PROVE  failed[e] <= MaxRetries - flush'[d][KindOf[e.event]].left
    <3>1. CASE InFlush(e, d) /\ flush'[d][KindOf[e.event]] = flush[d][KindOf[e.event]]
      BY <3>1 DEF IInv, AttemptsByPlace, WithinAttempts
    <3>2. CASE /\ flush'[d][KindOf[e.event]].left = MaxRetries
               /\ InBuffer(e) \/ (e.event = v /\ fate[e] = "unseen")
      <4>1. failed[e] = 0
        BY <3>2, <1>1 DEF IInv, AttemptsByPlace, WithinAttempts
      <4> QED
        BY <4>1, <3>2, TuningAssumption
    <3> QED
      BY <2>2, <3>1, <3>2, <1>10
  <2> QED
    BY <2>1, <2>2, <1>8, <1>u DEF IInv, AttemptsByPlace, WithinAttempts
<1>17. CountedOncePerAttempt'
  <2>1. \A e \in Entries : fate'[e] = "saved" <=> fate[e] = "saved"
    BY <1>1, <1>4
  <2> QED
    BY <2>1, <1>u DEF IInv, CountedOncePerAttempt
<1> QED
  BY <1>11, <1>12, <1>13, <1>14, <1>15, <1>16, <1>17 DEF IInv

\* flushAllBuffers moves entries from the buffers to its flushes, and from the dead
\* letter queue to its retry.
LEMMA FlushAllIInv ==
  ASSUME IInv, NEW c \in Calls, flushAllBuffers(c), closing' \in Calls \cup {NoCall}
  PROVE  IInv'
<1> DEFINE started(k) == IF buffer[k] = <<>> THEN NoFlush ELSE StartFlush(buffer[k])
           taken == IF DOMAIN dlq = {} THEN NoRetry ELSE [items |-> dlq, left |-> MaxRetries]
<1>u. UNCHANGED <<awaiting, applied, fate, failed, stops>> /\ dlq' = EmptyMap
  BY DEF flushAllBuffers
<1>e. EmptyMap \in Maps /\ DOMAIN EmptyMap = {}
  BY EmptyMapType
<1>1. ASSUME NEW k \in Kinds
      PROVE  /\ Remaining(buffer[k]) \in Seq(Entries)
             /\ NoDuplicates(Remaining(buffer[k]))
             /\ Range(Remaining(buffer[k])) \subseteq Range(buffer[k])
             /\ Range(started(k).batch) \subseteq Range(buffer[k])
             /\ Range(started(k).batch) \cap Range(Remaining(buffer[k])) = {}
             /\ started(k) \in [batch : Seq(Entries), left : 0..MaxRetries]
             /\ \A e \in Range(started(k).batch) : started(k).left = MaxRetries
  <2>1. buffer[k] \in Seq(Entries) /\ NoDuplicates(buffer[k])
    BY DEF IInv, Typed, Unduplicated
  <2>2. /\ Remaining(buffer[k]) \in Seq(Entries)
        /\ Range(Taken(buffer[k])) \subseteq Range(buffer[k])
        /\ Range(Remaining(buffer[k])) \subseteq Range(buffer[k])
        /\ Range(Taken(buffer[k])) \cap Range(Remaining(buffer[k])) = {}
        /\ NoDuplicates(Remaining(buffer[k]))
    BY <2>1, SpliceDivides
  <2>3. CASE buffer[k] = <<>>
    <3>1. /\ NoFlush \in [batch : Seq(Entries), left : 0..MaxRetries]
          /\ Range(NoFlush.batch) = {}
      BY EmptyRange, TuningAssumption DEF NoFlush
    <3> QED
      BY <2>2, <2>3, <3>1
  <2>4. CASE buffer[k] # <<>>
    <3>1. /\ StartFlush(buffer[k]) \in [batch : Seq(Entries), left : 0..MaxRetries]
          /\ StartFlush(buffer[k]).batch = Taken(buffer[k])
          /\ StartFlush(buffer[k]).left = MaxRetries
      BY <2>1, FlushStarts
    <3> QED
      BY <2>2, <2>4, <3>1
  <2> QED
    BY <2>3, <2>4
<1>2. /\ flush' \in [Calls -> [Kinds -> [batch : Seq(Entries), left : 0..MaxRetries]]]
      /\ \A k \in Kinds : flush'[c][k] = started(k)
      /\ \A d \in Calls : d # c => flush'[d] = flush[d]
  <2>1. flush' = [flush EXCEPT ![c] = [k \in Kinds |-> started(k)]]
    BY DEF flushAllBuffers
  <2> HIDE DEF started
  <2>2. [k \in Kinds |-> started(k)] \in [Kinds -> [batch : Seq(Entries), left : 0..MaxRetries]]
    BY <1>1
  <2> QED
    BY <2>1, <2>2 DEF IInv, Typed
<1>3. /\ buffer' \in [Kinds -> Seq(Entries)]
      /\ \A k \in Kinds : buffer'[k] = Remaining(buffer[k])
  BY <1>1 DEF flushAllBuffers
<1>4. /\ retry' \in [Calls -> [items : Maps, left : 0..MaxRetries]]
      /\ retry'[c] = taken
      /\ \A d \in Calls : d # c => retry'[d] = retry[d]
  <2>1. retry' = [retry EXCEPT ![c] = taken]
    BY DEF flushAllBuffers
  <2>2. taken \in [items : Maps, left : 0..MaxRetries]
    BY <1>e, TuningAssumption DEF NoRetry, IInv, Typed
  <2> HIDE DEF taken
  <2> QED
    BY <2>1, <2>2 DEF IInv, Typed
<1>5. /\ DOMAIN taken.items = DOMAIN dlq
      /\ \A m \in DOMAIN taken.items : taken.items[m] = dlq[m] /\ taken.left = MaxRetries
  BY <1>e DEF NoRetry
<1> HIDE DEF started, taken
<1>6. \A e \in Entries : InBuffer(e)' => InBuffer(e)
  BY <1>1, <1>3, KeyType DEF InBuffer
<1>7. ASSUME NEW e \in Entries, NEW d \in Calls, InFlush(e, d)'
      PROVE  \/ d # c /\ InFlush(e, d) /\ flush'[d] = flush[d]
             \/ /\ d = c /\ InBuffer(e) /\ ~InBuffer(e)'
                /\ flush'[d][KindOf[e.event]].left = MaxRetries
  <2>1. CASE d # c
    BY <2>1, <1>2, <1>7 DEF InFlush
  <2>2. CASE d = c
    <3>1. e \in Range(started(KindOf[e.event]).batch)
      BY <2>2, <1>2, <1>7, KeyType DEF InFlush
    <3> QED
      BY <3>1, <2>2, <1>1, <1>2, <1>3, KeyType DEF InBuffer
  <2> QED
    BY <2>1, <2>2
<1>8. ASSUME NEW e \in Entries, NEW d \in Calls, InRetry(e, d)'
      PROVE  \/ d # c /\ InRetry(e, d) /\ retry'[d] = retry[d]
             \/ /\ d = c /\ InDlq(e)
                /\ retry'[d].items[Key(e)] = dlq[Key(e)] /\ retry'[d].left = MaxRetries
  <2>1. CASE d # c
    BY <2>1, <1>4, <1>8 DEF InRetry
  <2>2. CASE d = c
    BY <2>2, <1>4, <1>5, <1>8 DEF InRetry, InDlq
  <2> QED
    BY <2>1, <2>2
<1>9. \A e \in Entries : ~InDlq(e)'
  BY <1>u, <1>e DEF InDlq
<1>10. Typed'
  BY <1>u, <1>e, <1>2, <1>3, <1>4 DEF IInv, Typed
<1>11. WellPlaced' /\ Unduplicated'
  <2>1. \A k \in Kinds : \A e \in Range(buffer'[k]) : KindOf[e.event] = k
    BY <1>1, <1>3 DEF IInv, WellPlaced
  <2>2. ASSUME NEW d \in Calls, NEW k \in Kinds, NEW e \in Range(flush'[d][k].batch)
        PROVE  KindOf[e.event] = k
    <3>1. CASE d # c
      <4>1. e \in Range(flush[d][k].batch)
        BY <3>1, <2>2, <1>2
      <4> QED
        BY <4>1 DEF IInv, WellPlaced
    <3>2. CASE d = c
      <4>1. e \in Range(buffer[k])
        BY <3>2, <2>2, <1>1, <1>2
      <4> QED
        BY <4>1 DEF IInv, WellPlaced
    <3> QED
      BY <3>1, <3>2
  <2>3. \A d \in Calls : \A m \in DOMAIN retry'[d].items : Key(retry'[d].items[m].entry) = m
    BY <1>4, <1>5 DEF IInv, WellPlaced
  <2> QED
    BY <2>1, <2>2, <2>3, <1>1, <1>3, <1>u, <1>e DEF WellPlaced, Unduplicated
<1>12. SinglePlace'
  BY <1>6, <1>7, <1>8, <1>9, MovesKeepSinglePlace DEF IInv
<1>13. HeldIsPending'
  BY <1>6, <1>7, <1>8, <1>9, <1>u DEF IInv, HeldIsPending
<1>14. UnseenIsUntouched' /\ CountedOncePerAttempt'
  BY <1>u DEF IInv, UnseenIsUntouched, CountedOncePerAttempt
<1>15. AttemptsByPlace'
  <2> SUFFICES ASSUME NEW e \in Entries
               PROVE  WithinAttempts(e)'
    BY DEF AttemptsByPlace
  <2>w. WithinAttempts(e)
    BY DEF IInv, AttemptsByPlace
  <2>1. ASSUME NEW d \in Calls, InFlush(e, d)'
        PROVE  failed[e] <= MaxRetries - flush'[d][KindOf[e.event]].left
    <3>1. CASE InFlush(e, d) /\ flush'[d] = flush[d]
      BY <3>1, <2>w DEF WithinAttempts
    <3>2. CASE InBuffer(e) /\ flush'[d][KindOf[e.event]].left = MaxRetries
      BY <3>2, <2>w, TuningAssumption DEF WithinAttempts
    <3> QED
      BY <2>1, <3>1, <3>2, <1>7
  <2>2. ASSUME NEW d \in Calls, InRetry(e, d)',
               retry'[d].items[Key(e)].failures < DeadLetterThreshold
        PROVE  failed[e] <= Rounds(retry'[d].items[Key(e)].failures)
                 + (IF Key(e)[1] = Phase(retry'[d].items) THEN MaxRetries - retry'[d].left ELSE 0)
    <3>1. CASE InRetry(e, d) /\ retry'[d] = retry[d]
      BY <3>1, <2>2, <2>w DEF WithinAttempts
    <3>2. CASE /\ InDlq(e) /\ retry'[d].items[Key(e)] = dlq[Key(e)]
               /\ retry'[d].left = MaxRetries
      <4>1. failed[e] <= Rounds(dlq[Key(e)].failures)
        BY <3>2, <2>w DEF WithinAttempts
      <4>2. MaxRetries - retry'[d].left = 0
        BY <3>2, TuningAssumption
      <4>3. failed[e] \in Nat /\ Rounds(dlq[Key(e)].failures) \in Nat
        <5>1. IsMap(dlq)
          BY MapType DEF IInv, Typed
        <5>2. dlq[Key(e)].failures \in Nat
          BY <5>1, <3>2 DEF IsMap, Items, InDlq
        <5> QED
          BY <5>2, RoundsGrow DEF IInv, Typed
      <4> QED
        BY <4>1, <4>2, <4>3, <3>2
    <3> QED
      BY <2>2, <3>1, <3>2, <1>8
  <2>3. failed'[e] = failed[e]
    BY <1>u
  <2> QED
    BY <2>1, <2>2, <2>3, <2>w, <1>6, <1>9 DEF WithinAttempts
<1> QED
  BY <1>10, <1>11, <1>12, <1>13, <1>14, <1>15 DEF IInv

\* processClickEvent pushes the event as it came.
LEMMA ProcessClickIInv ==
  ASSUME IInv, NEW v \in Events, processClickEvent(v)
  PROVE  IInv'
<1>1. Raw(v) \in Entries /\ Raw(v).event = v
  BY DEF Raw, Entries
<1> DEFINE p == <<Raw(v)>>
<1>2. p \in Seq(Entries) /\ NoDuplicates(p) /\ \A e \in Range(p) : e = Raw(v)
  BY <1>1 DEF NoDuplicates, Range
<1>3. Receive(v, p)
  BY DEF processClickEvent
<1> HIDE DEF p
<1> QED
  BY <1>1, <1>2, <1>3, ReceiveIInv

\* processAnalyticsEvent pushes the event twice, as it came and enriched.
LEMMA ProcessAnalyticsIInv ==
  ASSUME IInv, NEW v \in Events, processAnalyticsEvent(v)
  PROVE  IInv'
<1>1. /\ Raw(v) \in Entries /\ Raw(v).event = v
      /\ Enriched(v) \in Entries /\ Enriched(v).event = v
      /\ Raw(v) # Enriched(v)
  BY DEF Raw, Enriched, Entries, processAnalyticsEvent
<1> DEFINE p == <<Raw(v), Enriched(v)>>
<1>2. p \in Seq(Entries) /\ NoDuplicates(p) /\ \A e \in Range(p) : e = Raw(v) \/ e = Enriched(v)
  BY <1>1 DEF NoDuplicates, Range
<1>3. Receive(v, p)
  BY DEF processAnalyticsEvent
<1> HIDE DEF p
<1> QED
  BY <1>1, <1>2, <1>3, ReceiveIInv

\* Dying empties the memory; what was in it is lost.
LEMMA DieIInv ==
  ASSUME IInv, NEW how \in {"stopped", "killed"}, Die(how)
  PROVE  IInv'
<1>e. EmptyMap \in Maps /\ DOMAIN EmptyMap = {}
  BY EmptyMapType
<1>1. /\ \A k \in Kinds : buffer'[k] = <<>>
      /\ \A c \in Calls, k \in Kinds : flush'[c][k] = NoFlush
      /\ dlq' = EmptyMap
      /\ \A c \in Calls : retry'[c] = NoRetry
      /\ UNCHANGED <<applied, failed>>
  BY DEF Die
<1>2. \A e \in Entries : fate'[e] = IF fate[e] = "pending" THEN how ELSE fate[e]
  BY DEF Die
<1>3. Typed'
  <2>1. NoRetry \in [items : Maps, left : 0..MaxRetries]
    BY <1>e, TuningAssumption DEF NoRetry
  <2>2. NoFlush \in [batch : Seq(Entries), left : 0..MaxRetries]
    BY TuningAssumption DEF NoFlush
  <2>3. fate' \in [Entries -> Fates]
    BY DEF Die, IInv, Typed, Fates
  <2>4. stops' \in 0..MaxStops
    BY DeploymentAssumption DEF Die, IInv, Typed
  <2> QED
    BY <1>e, <2>1, <2>2, <2>3, <2>4 DEF Die, IInv, Typed
<1>4. /\ \A k \in Kinds : Range(buffer'[k]) = {}
      /\ \A c \in Calls, k \in Kinds : Range(flush'[c][k].batch) = {}
      /\ \A c \in Calls : DOMAIN retry'[c].items = {}
  BY <1>1, <1>e, EmptyRange DEF NoFlush, NoRetry
<1>5. \A e \in Entries : ~InBuffer(e)' /\ ~InDlq(e)' /\ \A c \in Calls : ~InFlush(e, c)' /\ ~InRetry(e, c)'
  BY <1>1, <1>4, <1>e, KeyType DEF InBuffer, InFlush, InDlq, InRetry
<1>6. WellPlaced' /\ Unduplicated'
  <2>1. WellPlaced'
    BY <1>1, <1>4, <1>e DEF WellPlaced
  <2>2. \A k \in Kinds : DOMAIN buffer'[k] = {}
    BY <1>1
  <2> QED
    BY <2>1, <2>2 DEF Unduplicated, NoDuplicates
<1>7. SinglePlace' /\ HeldIsPending'
  BY <1>5 DEF SinglePlace, HeldIsPending
<1>8. UnseenIsUntouched'
  <2>1. \A e \in Entries : fate'[e] = "unseen" <=> fate[e] = "unseen"
    BY <1>2
  <2> QED
    BY <2>1, <1>1, RawType DEF IInv, UnseenIsUntouched
<1>9. AttemptsByPlace'
  BY <1>1, <1>5 DEF IInv, AttemptsByPlace, WithinAttempts
<1>10. CountedOncePerAttempt'
  <2>1. \A e \in Entries : fate'[e] = "saved" <=> fate[e] = "saved"
    BY <1>2
  <2> QED
    BY <2>1, <1>1 DEF IInv, CountedOncePerAttempt
<1> QED
  BY <1>3, <1>6, <1>7, <1>8, <1>9, <1>10 DEF IInv

\* Every step of the service preserves the invariant.
LEMMA NextIInv == IInv /\ [Next]_vars => IInv'
<1> SUFFICES ASSUME IInv, [Next]_vars PROVE IInv'
  OBVIOUS
<1>1. CASE \E v \in Events : processClickEvent(v) \/ processAnalyticsEvent(v)
  BY <1>1, ProcessClickIInv, ProcessAnalyticsIInv
<1>2. CASE \E c \in Calls : Tick(c) \/ onModuleDestroy(c)
  <2>1. ASSUME NEW c \in Calls, Tick(c) PROVE IInv'
    BY <2>1, FlushAllIInv DEF Tick, IInv, Typed
  <2>2. ASSUME NEW c \in Calls, onModuleDestroy(c) PROVE IInv'
    BY <2>2, FlushAllIInv DEF onModuleDestroy
  <2> QED
    BY <1>2, <2>1, <2>2
<1>3. CASE \E c \in Calls, k \in Kinds :
             FlushSaved(c, k) \/ FlushRetries(c, k) \/ FlushFails(c, k)
  BY <1>3, FlushSavedIInv, FlushRetriesIInv, FlushFailsIInv
<1>4. CASE \E c \in Calls : RetrySaved(c) \/ RetryRetries(c) \/ RetryFails(c) \/ Report(c)
  BY <1>4, RetrySavedIInv, RetryRetriesIInv, RetryFailsIInv, ReportIInv
<1>5. CASE Exit \/ Terminate \/ Kill
  BY <1>5, DieIInv DEF Exit, Terminate, Kill
<1>6. CASE UNCHANGED vars
  <2>1. /\ \A e \in Entries : InBuffer(e)' <=> InBuffer(e)
        /\ \A e \in Entries : InDlq(e)' <=> InDlq(e)
        /\ \A e \in Entries, c \in Calls : InFlush(e, c)' <=> InFlush(e, c)
        /\ \A e \in Entries, c \in Calls : InRetry(e, c)' <=> InRetry(e, c)
    BY <1>6 DEF vars, InBuffer, InDlq, InFlush, InRetry
  <2>2. Typed' /\ WellPlaced' /\ Unduplicated'
    BY <1>6 DEF IInv, vars, Typed, WellPlaced, Unduplicated
  <2>3. SinglePlace' /\ HeldIsPending' /\ UnseenIsUntouched' /\ CountedOncePerAttempt'
    BY <1>6, <2>1 DEF IInv, vars, SinglePlace, HeldIsPending, UnseenIsUntouched,
                      CountedOncePerAttempt
  <2>4. AttemptsByPlace'
    BY <1>6, <2>1 DEF IInv, vars, AttemptsByPlace, WithinAttempts
  <2> QED
    BY <2>2, <2>3, <2>4 DEF IInv
<1> QED
  BY <1>1, <1>2, <1>3, <1>4, <1>5, <1>6, Zenon DEF Next

\* What is saved or given up is in no place that a step could take it from.
LEMMA FateKept ==
  ASSUME IInv, [Next]_vars, NEW e \in Entries, fate[e] \notin {"unseen", "pending"}
  PROVE  fate'[e] = fate[e]
<1>1. /\ ~InBuffer(e) /\ ~InDlq(e)
      /\ \A c \in Calls : ~InFlush(e, c) /\ ~InRetry(e, c)
  BY DEF IInv, HeldIsPending
<1>2. ASSUME NEW v \in Events, processClickEvent(v) \/ processAnalyticsEvent(v)
      PROVE  fate'[e] = fate[e]
  <2>1. /\ fate[Raw(v)] = "unseen"
        /\ fate' = [g \in Entries |-> IF g.event = v THEN "pending" ELSE fate[g]]
    BY <1>2 DEF processClickEvent, processAnalyticsEvent, Receive
  <2>2. e.event # v
    BY <2>1 DEF IInv, UnseenIsUntouched
  <2> QED
    BY <2>1, <2>2
<1>3. ASSUME NEW c \in Calls, Tick(c) \/ onModuleDestroy(c)
      PROVE  fate'[e] = fate[e]
  BY <1>3 DEF Tick, onModuleDestroy, flushAllBuffers
<1>4. ASSUME NEW c \in Calls, NEW k \in Kinds,
             FlushSaved(c, k) \/ FlushRetries(c, k) \/ FlushFails(c, k)
      PROVE  fate'[e] = fate[e]
  <2>1. e \notin Range(flush[c][k].batch)
    BY <1>1, BatchEntries
  <2>2. CASE FlushSaved(c, k)
    BY <2>1, <2>2 DEF FlushSaved, Saved
  <2>3. CASE FlushRetries(c, k)
    BY <2>3 DEF FlushRetries
  <2>4. CASE FlushFails(c, k)
    BY <2>1, <2>4 DEF FlushFails
  <2> QED
    BY <1>4, <2>2, <2>3, <2>4
<1>5. ASSUME NEW c \in Calls, RetrySaved(c) \/ RetryRetries(c) \/ RetryFails(c) \/ Report(c)
      PROVE  fate'[e] = fate[e]
  <2> DEFINE items == retry[c].items
  <2>1. ASSUME NEW keys \in SUBSET DOMAIN items
        PROVE  e \notin EntriesAt(items, keys)
    BY <1>1, ItemEntries
  <2>2. Exhausted(items) \subseteq DOMAIN items
    BY DEF Exhausted
  <2>3. Retryable(items, Phase(items)) \subseteq DOMAIN items
    BY DEF Retryable
  <2>4. CASE RetrySaved(c)
    BY <2>1, <2>3, <2>4 DEF RetrySaved, Saved
  <2>5. CASE RetryRetries(c)
    BY <2>5 DEF RetryRetries
  <2>6. CASE RetryFails(c)
    <3>1. ASSUME NEW keys PROVE e \notin EntriesAt(dlq, keys \cap DOMAIN dlq)
      BY <1>1 DEF EntriesAt, InDlq, IInv, WellPlaced
    <3> QED
      BY <2>6, <3>1 DEF RetryFails
  <2>7. CASE Report(c)
    <3>1. e \notin EntriesAt(items, Exhausted(items))
      BY <2>1, <2>2
    <3> HIDE DEF items
    <3>2. PICK sent \in SUBSET EntriesAt(items, Exhausted(items)) :
            fate' = [g \in Entries |-> IF g \in sent THEN "reported"
                                       ELSE IF g \in EntriesAt(items, Exhausted(items))
                                       THEN "dropped" ELSE fate[g]]
      BY <2>7 DEF Report, items
    <3> QED
      BY <3>1, <3>2
  <2> QED
    BY <1>5, <2>4, <2>5, <2>6, <2>7
<1>6. CASE Exit \/ Terminate \/ Kill
  BY <1>6 DEF Exit, Terminate, Kill, Die
<1>7. CASE UNCHANGED vars
  BY <1>7 DEF vars
<1> QED
  BY <1>2, <1>3, <1>4, <1>5, <1>6, <1>7 DEF Next

-----------------------------------------------------------------------------
(* Nothing leaks *)

Held(e) == InBuffer(e) \/ InDlq(e) \/ \E c \in Calls : InFlush(e, c) \/ InRetry(e, c)

\* What was received and is neither saved nor given up is somewhere in memory.
PendingIsHeld == \A e \in Entries : fate[e] = "pending" => Held(e)

\* A buffer holds less than a batch between two callbacks, a flush no more than one, and
\* neither holds an entry twice.
WithinBatch ==
  /\ \A k \in Kinds : Len(buffer[k]) < BatchSize
  /\ \A c \in Calls, k \in Kinds : /\ Len(flush[c][k].batch) <= BatchSize
                                   /\ NoDuplicates(flush[c][k].batch)

\* The first arrival of an event puts all its copies into the buffer or into a flush that
\* held nothing.
LEMMA ReceiveHolds ==
  ASSUME IInv, PendingIsHeld, WithinBatch, NEW v \in Events,
         NEW pushed \in Seq(Entries), NoDuplicates(pushed), Len(pushed) <= 2,
         \A e \in Entries : e.event = v <=> e \in Range(pushed),
         Raw(v) \in Entries, Receive(v, pushed)
  PROVE  PendingIsHeld' /\ WithinBatch'
<1> DEFINE k == KindOf[v]
           s == buffer[k] \o pushed
           Effect ==
             /\ \A e \in Range(s) : \/ e \in Range(buffer'[k])
                                    \/ \E c \in Calls : e \in Range(flush'[c][k].batch)
             /\ Len(buffer'[k]) < BatchSize
             /\ \A j \in Kinds \ {k} : buffer'[j] = buffer[j]
             /\ \A c \in Calls, j \in Kinds :
                  \/ flush'[c][j] = flush[c][j]
                  \/ /\ Range(flush[c][j].batch) = {}
                     /\ Len(flush'[c][j].batch) <= BatchSize
                     /\ NoDuplicates(flush'[c][j].batch)
<1>k. k \in Kinds /\ buffer[k] \in Seq(Entries) /\ NoDuplicates(buffer[k])
  BY EventsAssumption DEF IInv, Typed, Unduplicated
<1>1. \A e \in Entries : e.event = v => fate[e] = "unseen" /\ KindOf[e.event] = k
  <2>1. fate[Raw(v)] = "unseen"
    BY DEF Receive
  <2> QED BY <2>1 DEF IInv, UnseenIsUntouched
<1>2. Range(buffer[k]) \cap Range(pushed) = {}
  <2> HIDE DEF k
  <2>1. Range(buffer[k]) \subseteq Entries
    BY <1>k, LenProperties DEF Range
  <2>2. \A e \in Range(buffer[k]) : e \in Entries /\ InBuffer(e)
    BY <1>k, <2>1 DEF IInv, WellPlaced, InBuffer
  <2> QED BY <1>1, <2>2 DEF IInv, HeldIsPending
<1>3. /\ s \in Seq(Entries) /\ NoDuplicates(s)
      /\ Range(s) = Range(buffer[k]) \cup Range(pushed)
      /\ Len(s) = Len(buffer[k]) + Len(pushed)
  <2> HIDE DEF k
  <2> QED BY <1>k, <1>2, PushAdds, ConcatProperties
<1>4. Len(s) \in Nat /\ Len(s) <= BatchSize + 1 /\ BatchSize \in Nat \ {0, 1}
  <2>1. Len(buffer[k]) \in Nat /\ Len(pushed) \in Nat /\ Len(buffer[k]) < BatchSize
    BY <1>k, LenProperties DEF WithinBatch
  <2> HIDE DEF s
  <2> QED BY <2>1, <1>3, TuningAssumption
<1>5. Effect
  <2> HIDE DEF k, s
  <2>1. CASE /\ Len(s) < BatchSize
             /\ buffer' = [buffer EXCEPT ![k] = s]
             /\ UNCHANGED <<flush, awaiting>>
    BY <2>1, <1>k DEF IInv, Typed
  <2>2. ASSUME NEW c \in Calls, Len(s) >= BatchSize, Free(c),
               flush' = [flush EXCEPT ![c][k] = StartFlush(s)],
               buffer' = [buffer EXCEPT ![k] = Remaining(s)]
        PROVE  Effect
    <3>1. /\ buffer'[k] = Remaining(s)
          /\ \A j \in Kinds \ {k} : buffer'[j] = buffer[j]
          /\ flush'[c][k].batch = Taken(s)
          /\ \A d \in Calls, j \in Kinds : ~(d = c /\ j = k) => flush'[d][j] = flush[d][j]
      BY <2>2, <1>k DEF IInv, Typed, StartFlush
    <3>2. /\ Range(s) \subseteq Range(Taken(s)) \cup Range(Remaining(s))
          /\ NoDuplicates(Taken(s))
          /\ Len(Taken(s)) <= BatchSize
          /\ Len(Remaining(s)) = IF Len(s) < BatchSize THEN 0 ELSE Len(s) - BatchSize
      BY <1>3, SpliceDivides
    <3>3. Len(Remaining(s)) < BatchSize
      BY <3>2, <1>4, <2>2
    <3>4. Range(flush[c][k].batch) = {}
      BY <2>2, <1>k, EmptyRange DEF Free, Idle
    <3> QED BY <3>1, <3>2, <3>3, <3>4
  <2>3. CASE /\ Len(s) >= BatchSize
             /\ \E c \in Calls : /\ Free(c)
                                 /\ flush' = [flush EXCEPT ![c][k] = StartFlush(s)]
                                 /\ awaiting' = c
             /\ buffer' = [buffer EXCEPT ![k] = Remaining(s)]
    <3>1. PICK c \in Calls : /\ Free(c)
                             /\ flush' = [flush EXCEPT ![c][k] = StartFlush(s)]
      BY <2>3
    <3> HIDE DEF Effect
    <3> QED BY <2>2, <2>3, <3>1
  <2> HIDE DEF Effect
  <2> QED BY <2>1, <2>3, Zenon DEF Receive, k, s
<1>6. /\ \A e \in Entries : fate'[e] = IF e.event = v THEN "pending" ELSE fate[e]
      /\ dlq' = dlq /\ retry' = retry
  BY DEF Receive, IInv, Typed
<1> HIDE DEF k, s
<1>7. WithinBatch'
  BY <1>5 DEF WithinBatch
<1>8. ASSUME NEW e \in Entries, fate'[e] = "pending" PROVE Held(e)'
  <2>1. CASE e \in Range(s)
    <3>1. KindOf[e.event] = k
      BY <2>1, <1>1, <1>3, <1>k DEF IInv, WellPlaced
    <3> QED BY <2>1, <3>1, <1>5 DEF Held, InBuffer, InFlush
  <2>2. CASE e \notin Range(s)
    <3>1. fate[e] = "pending" /\ e \notin Range(buffer[k]) /\ KindOf[e.event] \in Kinds
      BY <2>2, <1>3, <1>6, <1>8, KeyType
    <3>2. InBuffer(e) => InBuffer(e)'
      BY <3>1, <1>5 DEF InBuffer
    <3>3. \A c \in Calls : InFlush(e, c) => InFlush(e, c)'
      BY <3>1, <1>5 DEF InFlush
    <3>4. (InDlq(e) <=> InDlq(e)') /\ \A c \in Calls : InRetry(e, c) <=> InRetry(e, c)'
      BY <1>6 DEF InDlq, InRetry
    <3> QED BY <3>1, <3>2, <3>3, <3>4 DEF PendingIsHeld, Held
  <2> QED BY <2>1, <2>2
<1> QED BY <1>7, <1>8 DEF PendingIsHeld

\* flushAllBuffers takes nothing from memory: its calls were free, and what it removes
\* from the buffers and the dead letters is in them.
LEMMA FlushAllHolds ==
  ASSUME IInv, PendingIsHeld, WithinBatch, NEW c \in Calls, flushAllBuffers(c)
  PROVE  PendingIsHeld' /\ WithinBatch'
<1> DEFINE started(k) == IF buffer[k] = <<>> THEN NoFlush ELSE StartFlush(buffer[k])
           taken == IF DOMAIN dlq = {} THEN NoRetry ELSE [items |-> dlq, left |-> MaxRetries]
<1>1. /\ \A k \in Kinds : buffer'[k] = Remaining(buffer[k]) /\ flush'[c][k] = started(k)
      /\ \A d \in Calls \ {c} : flush'[d] = flush[d] /\ retry'[d] = retry[d]
      /\ retry'[c] = taken
      /\ fate' = fate
  BY DEF flushAllBuffers, IInv, Typed
<1>2. /\ \A k \in Kinds : Range(flush[c][k].batch) = {}
      /\ DOMAIN retry[c].items = {}
  BY EmptyRange DEF flushAllBuffers, Free, Idle
<1>3. ASSUME NEW k \in Kinds
      PROVE  /\ Range(buffer[k]) \subseteq Range(started(k).batch) \cup Range(buffer'[k])
             /\ Len(buffer'[k]) < BatchSize
             /\ Len(started(k).batch) <= BatchSize
             /\ NoDuplicates(started(k).batch)
  <2>1. /\ buffer[k] \in Seq(Entries) /\ NoDuplicates(buffer[k])
        /\ Len(buffer[k]) < BatchSize /\ BatchSize \in Nat \ {0, 1}
    BY TuningAssumption DEF IInv, Typed, Unduplicated, WithinBatch
  <2>2. /\ Range(buffer[k]) \subseteq Range(Taken(buffer[k])) \cup Range(Remaining(buffer[k]))
        /\ NoDuplicates(Taken(buffer[k]))
        /\ Len(Taken(buffer[k])) <= BatchSize
        /\ Len(Remaining(buffer[k])) = 0
    BY <2>1, SpliceDivides
  <2>3. CASE buffer[k] = <<>>
    <3>1. started(k).batch = <<>> /\ Range(buffer[k]) = {}
      BY <2>3, EmptyRange DEF NoFlush
    <3>2. Len(<<>>) = 0 /\ NoDuplicates(<<>>)
      BY DEF NoDuplicates
    <3> HIDE DEF started
    <3> QED BY <3>1, <3>2, <2>1, <2>2, <1>1
  <2>4. CASE buffer[k] # <<>>
    <3>1. started(k).batch = Taken(buffer[k])
      BY <2>4 DEF StartFlush
    <3> HIDE DEF started
    <3> QED BY <3>1, <2>1, <2>2, <1>1
  <2> QED BY <2>3, <2>4
<1>4. \A m \in DOMAIN dlq : m \in DOMAIN taken.items /\ taken.items[m] = dlq[m]
  OBVIOUS
<1> HIDE DEF started, taken
<1>5. WithinBatch'
  BY <1>1, <1>3 DEF WithinBatch
<1>6. ASSUME NEW e \in Entries, Held(e) PROVE Held(e)'
  <2>1. CASE InBuffer(e)
    BY <2>1, <1>1, <1>3, KeyType DEF Held, InBuffer, InFlush
  <2>2. CASE InDlq(e)
    <3>1. InRetry(e, c)'
      BY <2>2, <1>1, <1>4 DEF InDlq, InRetry
    <3> QED BY <3>1 DEF Held
  <2>3. ASSUME NEW d \in Calls, InFlush(e, d) \/ InRetry(e, d) PROVE Held(e)'
    <3>1. d # c
      BY <2>3, <1>2, KeyType DEF InFlush, InRetry
    <3>2. InFlush(e, d)' \/ InRetry(e, d)'
      BY <2>3, <3>1, <1>1 DEF InFlush, InRetry
    <3> QED BY <3>2 DEF Held
  <2> QED BY <1>6, <2>1, <2>2, <2>3 DEF Held
<1> QED BY <1>1, <1>5, <1>6 DEF PendingIsHeld

\* A flush that is tried again keeps its batch; one that is over gives up what is neither
\* saved nor a dead letter.
LEMMA FlushHolds ==
  ASSUME IInv, IInv', PendingIsHeld, WithinBatch, NEW c \in Calls, NEW k \in Kinds,
         FlushSaved(c, k) \/ FlushRetries(c, k) \/ FlushFails(c, k)
  PROVE  PendingIsHeld' /\ WithinBatch'
<1>u. buffer' = buffer /\ retry' = retry
  BY DEF FlushSaved, FlushRetries, FlushFails
<1>1. /\ \A d \in Calls, j \in Kinds :
           d # c \/ j # k => flush'[d][j] = flush[d][j]
      /\ flush'[c][k].batch \in {flush[c][k].batch, <<>>}
      /\ FlushRetries(c, k) => flush'[c][k].batch = flush[c][k].batch
  <2>1. CASE FlushRetries(c, k)
    <3>1. flush' = [flush EXCEPT ![c][k] = [batch |-> flush[c][k].batch, left |-> flush[c][k].left - 1]]
      BY <2>1 DEF FlushRetries
    <3> QED BY <3>1 DEF IInv, Typed
  <2>2. CASE ~FlushRetries(c, k)
    <3>1. flush' = [flush EXCEPT ![c][k] = NoFlush]
      BY <2>2 DEF FlushSaved, FlushFails
    <3> QED BY <2>2, <3>1 DEF IInv, Typed, NoFlush
  <2> QED BY <2>1, <2>2
<1>2. Len(<<>>) <= BatchSize /\ NoDuplicates(<<>>)
  BY TuningAssumption DEF NoDuplicates
<1>3. WithinBatch'
  BY <1>u, <1>1, <1>2 DEF WithinBatch
<1>4. \A e \in Entries, d \in Calls :
        InFlush(e, d) => InFlush(e, d)' \/ e \in Range(flush[c][k].batch)
  BY <1>1, KeyType DEF InFlush
<1>5. \A e \in Entries : /\ InBuffer(e) => InBuffer(e)'
                         /\ \A d \in Calls : InRetry(e, d) => InRetry(e, d)'
  BY <1>u DEF InBuffer, InRetry
<1>6. CASE FlushSaved(c, k)
  <2>1. /\ dlq' = dlq
        /\ \A e \in Entries : fate'[e] = IF e \in Range(flush[c][k].batch) THEN "saved" ELSE fate[e]
    BY <1>6 DEF FlushSaved, Saved
  <2>2. \A e \in Entries : InDlq(e) => InDlq(e)'
    BY <2>1 DEF InDlq
  <2> QED BY <1>3, <1>4, <1>5, <2>1, <2>2 DEF PendingIsHeld, Held
<1>7. CASE FlushRetries(c, k)
  <2>1. /\ dlq' = dlq /\ fate' = fate
        /\ \A d \in Calls, j \in Kinds : flush'[d][j].batch = flush[d][j].batch
    BY <1>7, <1>1 DEF FlushRetries
  <2>2. \A e \in Entries : InDlq(e) => InDlq(e)'
    BY <2>1 DEF InDlq
  <2>3. \A e \in Entries, d \in Calls : InFlush(e, d) => InFlush(e, d)'
    BY <2>1, KeyType DEF InFlush
  <2> QED BY <1>3, <1>5, <2>1, <2>2, <2>3 DEF PendingIsHeld, Held
<1>8. CASE FlushFails(c, k)
  <2> DEFINE batch == flush[c][k].batch
  <2>1. batch \in Seq(Entries) /\ IsMap(dlq)
    BY MapType DEF IInv, Typed
  <2>2. /\ dlq' = IF TimestampIsDate THEN DeadLetters(dlq, batch) ELSE dlq
        /\ fate' = [e \in Entries |->
                      IF e \in Range(batch) /\ \A m \in DOMAIN dlq' : dlq'[m].entry # e
                      THEN "dropped" ELSE fate[e]]
    BY <1>8 DEF FlushFails
  <2> HIDE DEF batch
  <2>3. \A m \in DOMAIN dlq : m \in DOMAIN dlq' /\ dlq'[m].entry = dlq[m].entry
    BY <2>1, <2>2, DeadLettersAdds
  <2>4. \A e \in Entries : InDlq(e) => InDlq(e)'
    BY <2>3 DEF InDlq
  <2>5. \A m \in DOMAIN dlq' : Key(dlq'[m].entry) = m
    BY DEF IInv, WellPlaced
  <2>6. ASSUME NEW e \in Entries, e \in Range(batch), fate'[e] = "pending" PROVE InDlq(e)'
    <3>1. PICK m \in DOMAIN dlq' : dlq'[m].entry = e
      BY <2>2, <2>6
    <3> QED BY <3>1, <2>5 DEF InDlq
  <2>7. ASSUME NEW e \in Entries, e \notin Range(batch), fate'[e] = "pending" PROVE Held(e)'
    <3>1. Held(e)
      BY <2>2, <2>7 DEF PendingIsHeld
    <3> QED BY <3>1, <2>4, <2>7, <1>4, <1>5 DEF Held, batch
  <2> QED BY <1>3, <2>6, <2>7 DEF PendingIsHeld, Held
<1> QED BY <1>6, <1>7, <1>8

\* A retry that is done with some keys keeps what it has at the others.
LEMMA ProceedKeeps ==
  ASSUME IInv, NEW c \in Calls, NEW keys, Proceed(c, keys)
  PROVE  \A e \in Entries, d \in Calls :
           InRetry(e, d) => InRetry(e, d)' \/ (d = c /\ Key(e) \in keys)
<1> DEFINE items == Without(retry[c].items, keys)
           next  == IF DOMAIN items = {} THEN NoRetry ELSE [items |-> items, left |-> MaxRetries]
<1>1. /\ DOMAIN items = DOMAIN retry[c].items \ keys
      /\ \A m \in DOMAIN items : items[m] = retry[c].items[m]
  BY DEF Without, Restrict
<1>2. retry'[c] = next /\ \A d \in Calls \ {c} : retry'[d] = retry[d]
  BY DEF Proceed, IInv, Typed
<1>3. \A m \in DOMAIN items : m \in DOMAIN next.items /\ next.items[m] = items[m]
  OBVIOUS
<1> HIDE DEF items, next
<1> QED BY <1>1, <1>2, <1>3 DEF InRetry

\* A retry saves, puts back, reports or gives up what it lets go of.
LEMMA RetryHolds ==
  ASSUME IInv, IInv', PendingIsHeld, WithinBatch, NEW c \in Calls,
         RetrySaved(c) \/ RetryRetries(c) \/ RetryFails(c) \/ Report(c)
  PROVE  PendingIsHeld' /\ WithinBatch'
<1> DEFINE items == retry[c].items
<1>u. buffer' = buffer /\ flush' = flush
  BY DEF RetrySaved, RetryRetries, RetryFails, Report
<1>1. WithinBatch'
  BY <1>u DEF WithinBatch
<1>2. \A e \in Entries : /\ InBuffer(e) => InBuffer(e)'
                         /\ \A d \in Calls : InFlush(e, d) => InFlush(e, d)'
  BY <1>u DEF InBuffer, InFlush
<1>3. \A keys : \A e \in Entries : InRetry(e, c) /\ Key(e) \in keys => e \in EntriesAt(items, keys)
  BY DEF InRetry, EntriesAt
<1> HIDE DEF items
<1>4. CASE RetrySaved(c)
  <2> DEFINE keys == Retryable(items, Phase(items))
  <2>1. /\ dlq' = dlq /\ Proceed(c, keys)
        /\ \A e \in Entries : fate'[e] = IF e \in EntriesAt(items, keys) THEN "saved" ELSE fate[e]
    BY <1>4 DEF RetrySaved, Saved, items
  <2> HIDE DEF keys
  <2>2. \A e \in Entries : InDlq(e) => InDlq(e)'
    BY <2>1 DEF InDlq
  <2> QED BY <1>1, <1>2, <1>3, <2>1, <2>2, ProceedKeeps DEF PendingIsHeld, Held
<1>5. CASE RetryRetries(c)
  <2>1. /\ dlq' = dlq /\ fate' = fate
        /\ \A d \in Calls : retry'[d].items = retry[d].items
    BY <1>5 DEF RetryRetries, IInv, Typed
  <2>2. \A e \in Entries : /\ InDlq(e) => InDlq(e)'
                           /\ \A d \in Calls : InRetry(e, d) => InRetry(e, d)'
    BY <2>1 DEF InDlq, InRetry
  <2> QED BY <1>1, <1>2, <2>1, <2>2 DEF PendingIsHeld, Held
<1>6. CASE RetryFails(c)
  <2> DEFINE keys == Retryable(items, Phase(items))
  <2>1. /\ dlq' = [m \in DOMAIN dlq \cup keys |->
                     IF m \in keys
                     THEN [entry |-> items[m].entry, failures |-> items[m].failures + 1]
                     ELSE dlq[m]]
        /\ fate' = [e \in Entries |->
                      IF e \in EntriesAt(dlq, keys \cap DOMAIN dlq) THEN "dropped" ELSE fate[e]]
        /\ Proceed(c, keys)
    BY <1>6 DEF RetryFails, items
  <2> HIDE DEF keys
  <2>2. ASSUME NEW e \in Entries, InDlq(e), fate'[e] = "pending" PROVE InDlq(e)'
    <3>1. Key(e) \notin keys
      BY <2>1, <2>2 DEF InDlq, EntriesAt
    <3> QED BY <3>1, <2>1, <2>2 DEF InDlq
  <2>3. ASSUME NEW e \in Entries, InRetry(e, c), Key(e) \in keys PROVE InDlq(e)'
    BY <2>1, <2>3 DEF InDlq, InRetry, items
  <2>4. ASSUME NEW e \in Entries, fate'[e] = "pending" PROVE fate[e] = "pending"
    BY <2>1, <2>4
  <2> QED BY <1>1, <1>2, <2>1, <2>2, <2>3, <2>4, ProceedKeeps DEF PendingIsHeld, Held
<1>7. CASE Report(c)
  <2> DEFINE S == EntriesAt(items, Exhausted(items))
  <2>1. dlq' = dlq /\ Proceed(c, Exhausted(items))
    BY <1>7 DEF Report, items
  <2>2. PICK sent \in SUBSET S :
          fate' = [e \in Entries |-> IF e \in sent THEN "reported"
                                     ELSE IF e \in S THEN "dropped" ELSE fate[e]]
    BY <1>7 DEF Report, items
  <2>3. \A e \in Entries : fate'[e] = "pending" => fate[e] = "pending" /\ e \notin S
    BY <2>2
  <2>4. \A e \in Entries : InDlq(e) => InDlq(e)'
    BY <2>1 DEF InDlq
  <2> QED BY <1>1, <1>2, <1>3, <2>1, <2>3, <2>4, ProceedKeeps DEF PendingIsHeld, Held
<1> QED BY <1>4, <1>5, <1>6, <1>7

\* No step forgets an entry or overfills an array.
LEMMA NextHolds ==
  IInv /\ PendingIsHeld /\ WithinBatch /\ [Next]_vars => PendingIsHeld' /\ WithinBatch'
<1> SUFFICES ASSUME IInv, PendingIsHeld, WithinBatch, [Next]_vars
             PROVE  PendingIsHeld' /\ WithinBatch'
  OBVIOUS
<1>i. IInv'
  BY NextIInv
<1>1. ASSUME NEW v \in Events, processClickEvent(v) PROVE PendingIsHeld' /\ WithinBatch'
  <2> DEFINE p == <<Raw(v)>>
  <2>1. Raw(v) \in Entries /\ \A e \in Entries : e.event = v <=> e = Raw(v)
    BY <1>1 DEF processClickEvent, Raw, Entries
  <2>2. p \in Seq(Entries) /\ Len(p) <= 2 /\ NoDuplicates(p) /\ Range(p) = {Raw(v)}
    BY <2>1 DEF NoDuplicates, Range
  <2>3. Receive(v, p)
    BY <1>1 DEF processClickEvent
  <2> HIDE DEF p
  <2> QED BY <2>1, <2>2, <2>3, ReceiveHolds
<1>2. ASSUME NEW v \in Events, processAnalyticsEvent(v) PROVE PendingIsHeld' /\ WithinBatch'
  <2> DEFINE p == <<Raw(v), Enriched(v)>>
  <2>1. /\ Raw(v) \in Entries /\ Enriched(v) \in Entries /\ Raw(v) # Enriched(v)
        /\ \A e \in Entries : e.event = v <=> e = Raw(v) \/ e = Enriched(v)
    BY <1>2 DEF processAnalyticsEvent, Raw, Enriched, Entries
  <2>2. p \in Seq(Entries) /\ Len(p) <= 2 /\ NoDuplicates(p) /\ Range(p) = {Raw(v), Enriched(v)}
    BY <2>1 DEF NoDuplicates, Range
  <2>3. Receive(v, p)
    BY <1>2 DEF processAnalyticsEvent
  <2> HIDE DEF p
  <2> QED BY <2>1, <2>2, <2>3, ReceiveHolds
<1>3. ASSUME NEW c \in Calls, Tick(c) \/ onModuleDestroy(c) PROVE PendingIsHeld' /\ WithinBatch'
  BY <1>3, FlushAllHolds DEF Tick, onModuleDestroy
<1>4. CASE \E c \in Calls, k \in Kinds :
             FlushSaved(c, k) \/ FlushRetries(c, k) \/ FlushFails(c, k)
  BY <1>4, <1>i, FlushHolds
<1>5. CASE \E c \in Calls : RetrySaved(c) \/ RetryRetries(c) \/ RetryFails(c) \/ Report(c)
  BY <1>5, <1>i, RetryHolds
<1>6. ASSUME NEW how \in {"stopped", "killed"}, Die(how) PROVE PendingIsHeld' /\ WithinBatch'
  <2>1. \A e \in Entries : fate'[e] # "pending"
    BY <1>6 DEF Die
  <2>2. /\ \A k \in Kinds : buffer'[k] = <<>>
        /\ \A c \in Calls, k \in Kinds : flush'[c][k].batch = <<>>
    BY <1>6 DEF Die, NoFlush
  <2>3. Len(<<>>) = 0 /\ NoDuplicates(<<>>)
    BY DEF NoDuplicates
  <2> QED BY <2>1, <2>2, <2>3, TuningAssumption DEF PendingIsHeld, WithinBatch
<1>7. CASE UNCHANGED vars
  BY <1>7 DEF vars, PendingIsHeld, WithinBatch, Held, InBuffer, InDlq, InFlush, InRetry
<1> QED
  BY <1>1, <1>2, <1>3, <1>4, <1>5, <1>6, <1>7 DEF Next, Exit, Terminate, Kill

\* A set without two elements has none or one.
LEMMA NoneOrOne ==
  ASSUME NEW S, \A p, q \in S : p = q
  PROVE  Cardinality(S) = IF S = {} THEN 0 ELSE 1
<1>1. CASE S = {}
  BY <1>1, FS_EmptySet
<1>2. CASE S # {}
  <2>1. PICK p \in S : S = {p}
    BY <1>2
  <2> QED BY <2>1, <1>2, FS_Singleton
<1> QED BY <1>1, <1>2

\* Who is in one place, in one place of it, is held once.
LEMMA HeldOnce == IInv /\ PendingIsHeld /\ WithinBatch => HeldExactlyOnce
<1> SUFFICES ASSUME IInv, PendingIsHeld, WithinBatch, NEW e \in Entries
             PROVE  Holders(e) = IF fate[e] = "pending" THEN 1 ELSE 0
  BY DEF HeldExactlyOnce
<1> DEFINE B == {p \in Kinds \X (1..BatchSize) :
                   p[2] \in DOMAIN buffer[p[1]] /\ buffer[p[1]][p[2]] = e}
           F == {p \in Calls \X Kinds \X (1..BatchSize) :
                   p[3] \in DOMAIN flush[p[1]][p[2]].batch /\ flush[p[1]][p[2]].batch[p[3]] = e}
           D == {m \in DOMAIN dlq : dlq[m].entry = e}
           R == {p \in Calls \X MapKeys :
                   p[2] \in DOMAIN retry[p[1]].items /\ retry[p[1]].items[p[2]].entry = e}
<1>k. KindOf[e.event] \in Kinds /\ Key(e) \in MapKeys /\ BatchSize \in Nat
  BY KeyType, TuningAssumption
<1>1. Holders(e) = Cardinality(B) + Cardinality(F) + Cardinality(D) + Cardinality(R)
  BY DEF Holders
<1>2. (\A p, q \in B : p = q) /\ (B # {} <=> InBuffer(e))
  <2>1. ASSUME NEW p \in B PROVE p = <<KindOf[e.event], p[2]>> /\ p[2] \in DOMAIN buffer[KindOf[e.event]]
    BY DEF IInv, WellPlaced, Range
  <2>2. ASSUME NEW p \in B, NEW q \in B PROVE p = q
    <3>1. p[2] = q[2]
      BY <2>1 DEF IInv, Unduplicated, NoDuplicates
    <3> QED BY <3>1, <2>1
  <2>3. ASSUME InBuffer(e) PROVE B # {}
    <3>1. PICK i \in DOMAIN buffer[KindOf[e.event]] : buffer[KindOf[e.event]][i] = e
      BY <2>3 DEF InBuffer, Range
    <3> DEFINE b == buffer[KindOf[e.event]]
    <3>2. i \in 1..BatchSize
      <4>1. b \in Seq(Entries) /\ Len(b) <= BatchSize
        BY <1>k DEF IInv, Typed, WithinBatch
      <4> HIDE DEF b
      <4>2. Len(b) \in Nat /\ i \in 1..Len(b)
        BY <3>1, <4>1, LenProperties DEF b
      <4> QED BY <4>1, <4>2, <1>k
    <3>3. <<KindOf[e.event], i>> \in B
      BY <1>k, <3>1, <3>2
    <3> QED BY <3>3
  <2>4. ASSUME NEW p \in B PROVE InBuffer(e)
    BY <2>1 DEF InBuffer, Range
  <2> QED BY <2>2, <2>3, <2>4
<1>3. (\A p, q \in F : p = q) /\ (F # {} <=> \E c \in Calls : InFlush(e, c))
  <2>1. ASSUME NEW p \in F
        PROVE  /\ p = <<p[1], KindOf[e.event], p[3]>> /\ InFlush(e, p[1])
               /\ p[3] \in DOMAIN flush[p[1]][KindOf[e.event]].batch
    <3>1. /\ p[1] \in Calls /\ p[2] \in Kinds /\ p = <<p[1], p[2], p[3]>>
          /\ p[3] \in DOMAIN flush[p[1]][p[2]].batch /\ flush[p[1]][p[2]].batch[p[3]] = e
      OBVIOUS
    <3> HIDE DEF F
    <3>2. e \in Range(flush[p[1]][p[2]].batch)
      BY <3>1 DEF Range
    <3>3. p[2] = KindOf[e.event]
      BY <3>1, <3>2 DEF IInv, WellPlaced
    <3> QED BY <3>1, <3>2, <3>3 DEF InFlush
  <2>2. ASSUME NEW p \in F, NEW q \in F PROVE p = q
    <3>1. p[1] \in Calls /\ q[1] \in Calls /\ InFlush(e, p[1]) /\ InFlush(e, q[1])
      BY <2>1
    <3>2. p = <<p[1], KindOf[e.event], p[3]>> /\ q = <<q[1], KindOf[e.event], q[3]>>
      BY <2>1
    <3>3. p[1] = q[1]
      <4> HIDE DEF F
      <4> QED BY <3>1 DEF IInv, SinglePlace
    <3>4. p[3] = q[3]
      <4> DEFINE b == flush[p[1]][KindOf[e.event]].batch
      <4>1. p[3] \in DOMAIN b /\ q[3] \in DOMAIN b /\ b[p[3]] = e /\ b[q[3]] = e
        <5>1. /\ p[3] \in DOMAIN flush[p[1]][p[2]].batch /\ flush[p[1]][p[2]].batch[p[3]] = e
              /\ q[3] \in DOMAIN flush[q[1]][q[2]].batch /\ flush[q[1]][q[2]].batch[q[3]] = e
          OBVIOUS
        <5>2. p[2] = KindOf[e.event] /\ q[2] = KindOf[e.event]
          BY <3>2
        <5> HIDE DEF F
        <5> QED BY <5>1, <5>2, <3>3
      <4>2. NoDuplicates(b)
        BY <3>1, <1>k DEF WithinBatch
      <4> HIDE DEF b, F
      <4> QED BY <4>1, <4>2 DEF NoDuplicates
    <3> HIDE DEF F
    <3> QED BY <3>2, <3>3, <3>4
  <2>3. ASSUME NEW c \in Calls, InFlush(e, c) PROVE F # {}
    <3>1. PICK i \in DOMAIN flush[c][KindOf[e.event]].batch : flush[c][KindOf[e.event]].batch[i] = e
      BY <2>3 DEF InFlush, Range
    <3> DEFINE b == flush[c][KindOf[e.event]].batch
    <3>2. b \in Seq(Entries) /\ Len(b) <= BatchSize
      BY <1>k DEF IInv, Typed, WithinBatch
    <3>3. i \in 1..BatchSize
      <4> HIDE DEF b
      <4>1. Len(b) \in Nat /\ i \in 1..Len(b)
        BY <3>1, <3>2, LenProperties DEF b
      <4> QED BY <4>1, <3>2, <1>k
    <3>4. <<c, KindOf[e.event], i>> \in F
      BY <1>k, <3>1, <3>3
    <3> QED BY <3>4
  <2> QED BY <2>1, <2>2, <2>3
<1>4. (\A p, q \in D : p = q) /\ (D # {} <=> InDlq(e))
  BY DEF IInv, WellPlaced, InDlq
<1>5. (\A p, q \in R : p = q) /\ (R # {} <=> \E c \in Calls : InRetry(e, c))
  <2>1. ASSUME NEW p \in R PROVE p = <<p[1], Key(e)>> /\ InRetry(e, p[1])
    BY DEF IInv, WellPlaced, InRetry
  <2>2. ASSUME NEW p \in R, NEW q \in R PROVE p = q
    BY <2>1 DEF IInv, SinglePlace
  <2>3. ASSUME NEW c \in Calls, InRetry(e, c) PROVE <<c, Key(e)>> \in R
    BY <1>k, <2>3 DEF InRetry
  <2> QED BY <2>1, <2>2, <2>3
<1> HIDE DEF B, F, D, R
<1>6. /\ Cardinality(B) = IF InBuffer(e) THEN 1 ELSE 0
      /\ Cardinality(F) = IF \E c \in Calls : InFlush(e, c) THEN 1 ELSE 0
      /\ Cardinality(D) = IF InDlq(e) THEN 1 ELSE 0
      /\ Cardinality(R) = IF \E c \in Calls : InRetry(e, c) THEN 1 ELSE 0
  BY <1>2, <1>3, <1>4, <1>5, NoneOrOne
<1>7. CASE fate[e] = "pending"
  <2>1. Held(e)
    BY <1>7 DEF PendingIsHeld
  <2> QED BY <1>1, <1>6, <1>7, <2>1 DEF IInv, SinglePlace, Held
<1>8. CASE fate[e] # "pending"
  <2>1. ~Held(e)
    BY <1>8 DEF IInv, HeldIsPending, Held
  <2> QED BY <1>1, <1>6, <1>8, <2>1 DEF Held
<1> QED BY <1>7, <1>8

-----------------------------------------------------------------------------
(* The theorems *)

\* The invariant holds in every state of the service.
THEOREM Invariance == Spec => []IInv
<1>1. Init => IInv
  BY InitIInv
<1>2. IInv /\ [Next]_vars => IInv'
  BY NextIInv
<1> QED
  BY <1>1, <1>2, PTL DEF Spec

\* The buffers, the dead letter queue and the calls in progress hold what the code
\* declares them to hold (click-processor.service.ts:6-32): in particular the retries
\* left of a save never fall below zero.
THEOREM TypeCorrectness == Spec => []TypeOK
<1>1. IInv => TypeOK
  BY MapType DEF IInv, Typed, TypeOK
<1> QED
  BY <1>1, Invariance, PTL

\* No entry is in two of the buffers, flushes, dead letters and retries, however the
\* flushes of the timer and of full buffers overlap, and none that is saved or given up
\* is still in one (click-processor.service.ts:125-263).
THEOREM OnePlaceEach == Spec => [](SinglePlace /\ HeldIsPending)
<1>1. IInv => SinglePlace /\ HeldIsPending
  BY DEF IInv
<1> QED
  BY <1>1, Invariance, PTL

\* An entry is added to the counters once if no attempt with it failed, and at most once
\* more for every failed attempt (click-processor.service.ts:265-297): however calls
\* overlap, overcounting comes from attempts that failed halfway only.
THEOREM CountedOnce == Spec => []CountedOncePerAttempt
<1>1. IInv => CountedOncePerAttempt
  BY DEF IInv
<1> QED
  BY <1>1, Invariance, PTL

\* No event is attempted in vain more than (MAX_RETRIES + 1) * DEAD_LETTER_THRESHOLD
\* times, through all flushes, rounds of the dead letter queue and key collisions
\* (click-processor.service.ts:29-30, 192, 290).
THEOREM AttemptsAreBounded == Spec => []AttemptsBounded
<1>1. IInv => AttemptsBounded
  BY DEF IInv, AttemptsByPlace, WithinAttempts, AttemptsBounded, Rounds
<1> QED
  BY <1>1, Invariance, PTL

\* No entry that was saved, reported or lost ever gets another fate: no old call brings
\* one back (click-processor.service.ts:183-263).
THEOREM FatesAreFinal == Spec => FateIsFinal
<1>1. IInv /\ [Next]_vars =>
        [\A e \in Entries : fate[e] \notin {"unseen", "pending"} => fate'[e] = fate[e]]_vars
  BY FateKept
<1> QED
  BY <1>1, Invariance, PTL DEF Spec, FateIsFinal

\* An entry that was received and is neither saved nor given up is in exactly one place
\* of the service's memory, every other one is in none: nothing leaks and nothing is
\* saved by two calls, for any batch size and any number of overlapping calls
\* (click-processor.service.ts:125-263).
THEOREM NothingLeaks == Spec => []HeldExactlyOnce
<1>1. Init => PendingIsHeld /\ WithinBatch
  <2> SUFFICES ASSUME Init PROVE PendingIsHeld /\ WithinBatch
    OBVIOUS
  <2>1. /\ \A k \in Kinds : buffer[k] = <<>>
        /\ \A c \in Calls, k \in Kinds : flush[c][k].batch = <<>>
        /\ \A e \in Entries : fate[e] = "unseen"
    BY DEF Init, NoFlush
  <2>2. Len(<<>>) = 0 /\ NoDuplicates(<<>>)
    BY DEF NoDuplicates
  <2> QED
    BY <2>1, <2>2, TuningAssumption DEF PendingIsHeld, WithinBatch
<1> QED
  BY <1>1, Invariance, NextHolds, HeldOnce, PTL DEF Spec
=============================================================================
