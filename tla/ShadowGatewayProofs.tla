------------------------- MODULE ShadowGatewayProofs -------------------------
(***************************************************************************)
(* Theorems about ShadowGateway, for any adapters, bounds and faults.      *)
(*                                                                         *)
(* The table of recent ids is the heart of them: it holds sent envelopes,  *)
(* no id twice, the newest of all among them (Table), which a restart has  *)
(* to keep although the file brings the table back in another order.       *)
(***************************************************************************)
EXTENDS ShadowGateway, SequenceTheorems, FiniteSetTheorems, TLAPS

Calls == [step : {"idle", "clock", "passed"}, at : 0..MaxTime,
          cited : [Adapters -> 0..MaxSequence]]

Releases == [at : 0..MaxTime, cited : [Adapters -> 0..MaxSequence],
             values : [Adapters -> 0..MaxSequence]]

(* The table of one adapter, over the envelopes that it sent.              *)
Table(envelopes, evidence) ==
    /\ Len(evidence.recent) <= RecentLimit
    /\ \A i \in DOMAIN evidence.recent : evidence.recent[i] \in DOMAIN envelopes
    /\ \A i, j \in DOMAIN evidence.recent :
          envelopes[evidence.recent[i]].id = envelopes[evidence.recent[j]].id
             => i = j
    /\ evidence.last # 0 => evidence.last \in ToSet(evidence.recent)

TablesHold ==
    \A a \in Adapters : Table(sent[a], mem[a]) /\ Table(sent[a], disk[a])

WaitingSent == \A w \in waiting : w[2] \in DOMAIN sent[w[1]]

(* What is being saved is an envelope.                                     *)
SavingNew == \A a \in Adapters : saving = a => mem[a].last # 0

TableInvariant ==
    /\ TypeOK
    /\ reader \in Calls
    /\ release \in Releases
    /\ WaitingSent
    /\ SavingNew
    /\ TablesHold

-----------------------------------------------------------------------------
LEMMA NumbersAreNatural ==
    /\ MaxSequence \in Nat /\ MaxTime \in Nat /\ MaxAge \in Nat
    /\ Numbers \subseteq 0..MaxSequence /\ 0 \notin Numbers
  BY BoundsAssumption DEF Numbers

LEMMA EmptyTable ==
    /\ NoEvidence \in Evidence
    /\ \A envelopes : Table(envelopes, NoEvidence)
<1>1. <<>> \in Seq(Numbers) /\ Len(<<>>) = 0 /\ DOMAIN <<>> = {}
  OBVIOUS
<1> QED  BY <1>1, NumbersAreNatural, BoundsAssumption DEF NoEvidence, Evidence, Table

Smaller(T, key, n) == {p \in T : key[p] < key[n]}

(* Members of a finite set that are told apart by a number stand each      *)
(* behind another number of smaller ones.                                  *)
LEMMA RanksDiffer ==
    ASSUME NEW T, IsFiniteSet(T), NEW key \in [T -> Nat],
           \A m, n \in T : key[m] = key[n] => m = n,
           NEW m \in T, NEW n \in T,
           Cardinality(Smaller(T, key, m)) = Cardinality(Smaller(T, key, n))
    PROVE  m = n
<1> DEFINE Below(q) == Smaller(T, key, q)
<1>1. ASSUME NEW x \in T, NEW y \in T, key[x] < key[y]
      PROVE  Cardinality(Below(x)) # Cardinality(Below(y))
  <2>1. IsFiniteSet(Below(y))
    BY FS_Subset DEF Smaller
  <2>2. Below(x) \in SUBSET Below(y)
    BY <1>1 DEF Smaller
  <2>3. x \in Below(y) /\ x \notin Below(x)
    BY <1>1 DEF Smaller
  <2> QED  BY <2>1, <2>2, <2>3, FS_Subset
<1>2. key[m] = key[n]
  BY <1>1
<1> QED  BY <1>2

(* So that every place in the order is taken.                              *)
LEMMA RanksAreTaken ==
    ASSUME NEW T, IsFiniteSet(T), NEW key \in [T -> Nat],
           \A m, n \in T : key[m] = key[n] => m = n,
           NEW i \in 1..Cardinality(T)
    PROVE  \E n \in T : Cardinality(Smaller(T, key, n)) = i - 1
<1> DEFINE Below(q) == Smaller(T, key, q)
           N == Cardinality(T)
           rank == [n \in T |-> Cardinality(Below(n)) + 1]
<1>1. N \in Nat
  BY FS_CardinalityType
<1>2. ASSUME NEW n \in T PROVE Cardinality(Below(n)) \in 0..(N - 1)
  <2>1. Below(n) \in SUBSET T /\ n \in T /\ n \notin Below(n)
    BY DEF Smaller
  <2>2. IsFiniteSet(Below(n)) /\ Cardinality(Below(n)) <= N /\ Cardinality(Below(n)) # N
    BY <2>1, FS_Subset
  <2>3. Cardinality(Below(n)) \in Nat
    BY <2>2, FS_CardinalityType
  <2> QED  BY <1>1, <2>2, <2>3
<1>3. rank \in [T -> 1..N]
  <2>1. ASSUME NEW n \in T PROVE Cardinality(Below(n)) + 1 \in 1..N
    BY <1>1, <1>2
  <2> QED  BY <2>1
<1>4. rank \in Injection(T, 1..N)
  <2>1. ASSUME NEW m \in T, NEW n \in T, rank[m] = rank[n] PROVE m = n
    <3>1. Cardinality(Below(m)) = Cardinality(Below(n))
      BY <1>2, <2>1
    <3> QED  BY <3>1, RanksDiffer
  <2> QED  BY <1>3, <2>1 DEF Injection, IsInjective
<1>5. IsFiniteSet(1..N) /\ Cardinality(1..N) = N
  BY <1>1, FS_Interval
<1>6. rank \in Surjection(T, 1..N)
  BY <1>4, <1>5, FS_Injection
<1>7. PICK n \in T : rank[n] = i
  BY <1>6 DEF Surjection
<1>8. Cardinality(Below(n)) = i - 1
  BY <1>2, <1>7
<1> QED  BY <1>8

(* A sequence without repetition is as long as the set of its members.     *)
LEMMA DistinctLength ==
    ASSUME NEW S, NEW s \in Seq(S),
           \A i, j \in DOMAIN s : s[i] = s[j] => i = j
    PROVE  IsFiniteSet(ToSet(s)) /\ Cardinality(ToSet(s)) = Len(s)
<1> DEFINE N == Len(s)
<1>1. N \in Nat /\ DOMAIN s = 1..N
  BY LenProperties
<1>2. IsFiniteSet(1..N) /\ Cardinality(1..N) = N
  BY <1>1, FS_Interval
<1>3. s \in [1..N -> ToSet(s)]
  <2>1. s = [i \in 1..N |-> s[i]]
    BY <1>1, LenProperties
  <2> QED  BY <1>1, <2>1 DEF ToSet
<1>4. s \in Bijection(1..N, ToSet(s))
  <2>1. s \in Injection(1..N, ToSet(s))
    BY <1>1, <1>3 DEF Injection, IsInjective
  <2>2. s \in Surjection(1..N, ToSet(s))
    BY <1>1, <1>3 DEF Surjection, ToSet
  <2> QED  BY <2>1, <2>2 DEF Bijection
<1> QED  BY <1>2, <1>4, FS_Bijection DEF ExistsBijection

(* The file's order of a table keeps its members, its length and that no   *)
(* id is there twice.                                                      *)
LEMMA NamesInOrder ==
    ASSUME sent \in [Adapters -> Seq(Envelope)], NEW a \in Adapters,
           NEW s \in Seq(Numbers),
           \A i \in DOMAIN s : s[i] \in DOMAIN sent[a],
           \A i, j \in DOMAIN s : sent[a][s[i]].id = sent[a][s[j]].id => i = j
    PROVE  /\ ByName(a, s) \in Seq(Numbers)
           /\ Len(ByName(a, s)) = Len(s)
           /\ ToSet(ByName(a, s)) = ToSet(s)
           /\ \A i, j \in DOMAIN s :
                 sent[a][ByName(a, s)[i]].id = sent[a][ByName(a, s)[j]].id => i = j
<1> DEFINE N == Len(s)
           T == ToSet(s)
           key == [n \in T |-> sent[a][n].id]
           b == ByName(a, s)
<1>1. N \in Nat /\ DOMAIN s = 1..N /\ s \in [1..N -> Numbers]
  BY LenProperties
<1>2. T \subseteq Numbers /\ T \subseteq DOMAIN sent[a]
  BY <1>1 DEF ToSet
<1>3. key \in [T -> Nat]
  <2>1. sent[a] \in Seq(Envelope)
    OBVIOUS
  <2>2. ASSUME NEW n \in T PROVE sent[a][n].id \in Nat
    <3>1. n \in 1..Len(sent[a])
      BY <1>2, <2>1, LenProperties
    <3>2. sent[a][n] \in Envelope
      BY <2>1, <3>1, ElementOfSeq
    <3> QED  BY <3>2 DEF Envelope, Numbers
  <2> QED  BY <2>2
<1>4. ASSUME NEW m \in T, NEW n \in T, key[m] = key[n] PROVE m = n
  BY <1>4 DEF ToSet
<1>5. IsFiniteSet(T) /\ Cardinality(T) = N
  <2>1. \A i, j \in DOMAIN s : s[i] = s[j] => i = j
    OBVIOUS
  <2> QED  BY <2>1, DistinctLength
<1>6. ASSUME NEW n \in T PROVE Before(a, T, n) = Smaller(T, key, n)
  BY DEF Before, Smaller
<1>7. ASSUME NEW i \in 1..N
      PROVE  b[i] \in T /\ Cardinality(Before(a, T, b[i])) = i - 1
  <2>1. b[i] = CHOOSE n \in T : Cardinality(Before(a, T, n)) = i - 1
    BY <1>1 DEF ByName
  <2>2. \E n \in T : Cardinality(Smaller(T, key, n)) = i - 1
    <3>1. \A m, n \in T : key[m] = key[n] => m = n
      BY <1>4
    <3>2. i \in 1..Cardinality(T)
      BY <1>5
    <3>3. key \in [T -> Nat] /\ IsFiniteSet(T)
      BY <1>3, <1>5
    <3> HIDE DEF key, T
    <3> QED  BY <3>1, <3>2, <3>3, RanksAreTaken
  <2>3. \E n \in T : Cardinality(Before(a, T, n)) = i - 1
    BY <1>6, <2>2
  <2> QED  BY <2>1, <2>3
<1>8. b \in [1..N -> T]
  <2>1. DOMAIN b = 1..N /\ b = [i \in 1..N |-> b[i]]
    BY <1>1 DEF ByName
  <2> HIDE DEF b
  <2> QED  BY <1>7, <2>1
<1>9. b \in Seq(Numbers) /\ Len(b) = N
  <2> HIDE DEF b, T
  <2> QED  BY <1>1, <1>2, <1>8
<1>10. ASSUME NEW i \in 1..N, NEW j \in 1..N, sent[a][b[i]].id = sent[a][b[j]].id
       PROVE  i = j
  <2>1. b[i] = b[j]
    BY <1>4, <1>7, <1>10
  <2> QED  BY <1>7, <2>1
<1>11. ToSet(b) = T
  <2> HIDE DEF b, T
  <2>1. b \in Injection(1..N, T)
    BY <1>8, <1>10 DEF Injection, IsInjective
  <2>2. IsFiniteSet(1..N) /\ Cardinality(1..N) = N
    <3>1. 1 \in Int /\ N \in Int /\ N >= 0
      BY <1>1
    <3> HIDE DEF N
    <3> QED  BY <3>1, FS_Interval
  <2>3. b \in Surjection(1..N, T)
    BY <1>5, <2>1, <2>2, FS_Injection
  <2>4. DOMAIN b = 1..N
    BY <1>8
  <2>5. \A x : x \in ToSet(b) <=> \E i \in 1..N : x = b[i]
    BY <2>4 DEF ToSet
  <2>6. \A x \in T : \E i \in 1..N : b[i] = x
    BY <2>3 DEF Surjection
  <2>7. \A i \in 1..N : b[i] \in T
    BY <1>7
  <2>8. ASSUME NEW x PROVE x \in ToSet(b) <=> x \in T
    BY <2>5, <2>6, <2>7
  <2> QED  BY <2>8
<1> QED  BY <1>1, <1>9, <1>10, <1>11

(* A file that can be read brings back a table.                            *)
LEMMA ReadIsTable ==
    ASSUME sent \in [Adapters -> Seq(Envelope)], NEW a \in Adapters,
           disk[a] \in Evidence, Table(sent[a], disk[a])
    PROVE  /\ Loaded(a, FALSE) \in Evidence
           /\ Table(sent[a], Loaded(a, FALSE))
           /\ Loaded(a, FALSE).last = disk[a].last
           /\ ToSet(Loaded(a, FALSE).recent) = ToSet(disk[a].recent)
<1> DEFINE s == disk[a].recent
           b == ByName(a, s)
<1>1. s \in Seq(Numbers) /\ disk[a].last \in 0..MaxSequence
  BY DEF Evidence
<1>2. /\ \A i \in DOMAIN s : s[i] \in DOMAIN sent[a]
      /\ \A i, j \in DOMAIN s : sent[a][s[i]].id = sent[a][s[j]].id => i = j
      /\ Len(s) <= RecentLimit
      /\ disk[a].last # 0 => disk[a].last \in ToSet(s)
  BY DEF Table
<1>3. /\ b \in Seq(Numbers)
      /\ Len(b) = Len(s)
      /\ ToSet(b) = ToSet(s)
      /\ \A i, j \in DOMAIN s : sent[a][b[i]].id = sent[a][b[j]].id => i = j
  <2> HIDE DEF s
  <2> QED  BY <1>1, <1>2, NamesInOrder
<1>4. Loaded(a, FALSE) = [last |-> disk[a].last, recent |-> b]
  BY DEF Loaded, Evidence
<1>5. DOMAIN b = DOMAIN s
  BY <1>1, <1>3, LenProperties
<1>6. \A i \in DOMAIN b : b[i] \in DOMAIN sent[a]
  <2>1. \A i \in DOMAIN b : b[i] \in ToSet(s)
    <3> HIDE DEF b
    <3> QED  BY <1>3 DEF ToSet
  <2> QED  BY <1>2, <2>1 DEF ToSet
<1> HIDE DEF b, s
<1>7. Table(sent[a], [last |-> disk[a].last, recent |-> b])
  BY <1>2, <1>3, <1>5, <1>6 DEF Table
<1>8. [last |-> disk[a].last, recent |-> b] \in Evidence
  BY <1>1, <1>3 DEF Evidence
<1> DEFINE read == Loaded(a, FALSE)
<1>9. read = [last |-> disk[a].last, recent |-> b]
  BY <1>4
<1> HIDE DEF read
<1>10. /\ read \in Evidence /\ Table(sent[a], read)
       /\ read.last = disk[a].last /\ ToSet(read.recent) = ToSet(s)
  BY <1>3, <1>7, <1>8, <1>9
<1> QED  BY <1>10 DEF read, s

(* A file that cannot brings back an empty one.                            *)
LEMMA LoadedIsTable ==
    ASSUME sent \in [Adapters -> Seq(Envelope)], NEW a \in Adapters,
           disk[a] \in Evidence, Table(sent[a], disk[a]), NEW failed \in BOOLEAN
    PROVE  /\ Loaded(a, failed) \in Evidence
           /\ Table(sent[a], Loaded(a, failed))
           /\ failed => Loaded(a, failed) = NoEvidence
           /\ ~failed => /\ Loaded(a, failed).last = disk[a].last
                         /\ ToSet(Loaded(a, failed).recent) = ToSet(disk[a].recent)
<1>1. CASE failed
  BY <1>1, EmptyTable DEF Loaded
<1>2. CASE ~failed
  <2>1. failed = FALSE
    BY <1>2
  <2> QED  BY <2>1, ReadIsTable
<1> QED  BY <1>1, <1>2

(* The table after one more id: the end of the old one and the id.         *)
LEMMA TrimmedEnds ==
    ASSUME NEW s \in Seq(Numbers), NEW n \in Numbers
    PROVE  LET t == Trimmed(Append(s, n))
           IN  /\ t \in Seq(Numbers)
               /\ Len(t) <= RecentLimit
               /\ n \in ToSet(t)
               /\ \E k \in Nat : /\ Len(t) + k = Len(s) + 1
                                 /\ \A i \in 1..Len(t) : t[i] = Append(s, n)[i + k]
<1> DEFINE all == Append(s, n)
           N == Len(s) + 1
           t == Trimmed(all)
           Ends(u) == /\ u \in Seq(Numbers)
                      /\ Len(u) <= RecentLimit
                      /\ n \in ToSet(u)
                      /\ \E k \in Nat : /\ Len(u) + k = N
                                        /\ \A i \in 1..Len(u) : u[i] = all[i + k]
<1> SUFFICES Ends(t)
  OBVIOUS
<1>1. RecentLimit \in Nat /\ RecentLimit > 0
  BY BoundsAssumption
<1>2. all \in Seq(Numbers) /\ Len(all) = N /\ N \in Nat /\ N > 0 /\ all[N] = n
  BY AppendProperties, LenProperties
<1> HIDE DEF all, N
<1>3. CASE N <= RecentLimit
  <2>1. t = all
    BY <1>1, <1>2, <1>3 DEF Trimmed
  <2>2. DOMAIN all = 1..N
    BY <1>2, LenProperties
  <2>3. n \in ToSet(all)
    BY <1>2, <2>2 DEF ToSet
  <2>4. Len(all) + 0 = N /\ \A i \in 1..Len(all) : all[i] = all[i + 0]
    BY <1>2
  <2> QED  BY <1>2, <1>3, <2>1, <2>3, <2>4
<1>4. CASE N > RecentLimit
  <2> DEFINE k == N - RecentLimit
  <2>1. k \in Nat /\ k + 1 \in 1..N /\ t = SubSeq(all, k + 1, N) /\ k + RecentLimit = N
    BY <1>1, <1>2, <1>4 DEF Trimmed
  <2> HIDE DEF k
  <2>2. \A i \in (k + 1)..N : all[i] \in Numbers
    BY <1>2, <2>1, ElementOfSeq
  <2> HIDE DEF t
  <2>3. /\ t \in Seq(Numbers)
        /\ Len(t) = N - (k + 1) + 1
        /\ \A i \in 1..(N - (k + 1) + 1) : t[i] = all[(k + 1) + i - 1]
    <3> DEFINE m == k + 1
    <3>1. m \in Int /\ N \in Int /\ m <= N /\ t = SubSeq(all, m, N)
          /\ \A i \in m..N : all[i] \in Numbers
      BY <1>2, <2>1, <2>2
    <3> HIDE DEF m
    <3>2. /\ t \in Seq(Numbers)
          /\ Len(t) = N - m + 1
          /\ \A i \in 1..(N - m + 1) : t[i] = all[m + i - 1]
      BY <3>1, SubSeqProperties
    <3> QED  BY <3>2 DEF m
  <2>4. Len(t) = RecentLimit /\ \A i \in 1..Len(t) : t[i] = all[i + k]
    BY <1>1, <1>2, <2>1, <2>3
  <2>5. t[RecentLimit] = n /\ RecentLimit \in DOMAIN t
    <3>1. DOMAIN t = 1..Len(t)
      BY <2>3, LenProperties
    <3> QED  BY <1>1, <1>2, <2>1, <2>4, <3>1
  <2>6. n \in ToSet(t)
    BY <2>5 DEF ToSet
  <2>7. Len(t) + k = N
    BY <1>1, <1>2, <2>1, <2>4
  <2> QED  BY <1>1, <2>1, <2>3, <2>4, <2>6, <2>7
<1>5. N <= RecentLimit \/ N > RecentLimit
  BY <1>1, <1>2
<1> HIDE DEF t, Ends, N
<1> QED  BY <1>3, <1>4, <1>5

(* Entering an unknown id in a table leaves a table, of ids that were      *)
(* there and of the new one.                                               *)
LEMMA EnteredIsTable ==
    ASSUME sent \in [Adapters -> Seq(Envelope)], NEW a \in Adapters,
           mem[a] \in Evidence, Table(sent[a], mem[a]),
           NEW n \in Numbers, n \in DOMAIN sent[a], ~IdKnown(a, n)
    PROVE  LET t == Trimmed(Append(mem[a].recent, n))
           IN  /\ [last |-> n, recent |-> t] \in Evidence
               /\ Table(sent[a], [last |-> n, recent |-> t])
               /\ ToSet(t) \subseteq Recent(a) \cup {n}
               /\ n \in ToSet(t)
<1> DEFINE s == mem[a].recent
           all == Append(s, n)
           t == Trimmed(all)
<1>1. s \in Seq(Numbers)
  BY DEF Evidence
<1>2. Len(s) \in Nat /\ DOMAIN s = 1..Len(s)
  BY <1>1, LenProperties
<1>3. /\ \A i \in 1..Len(s) : all[i] = s[i]
      /\ all[Len(s) + 1] = n
  BY <1>1, AppendProperties
<1>4. /\ \A i \in 1..Len(s) : s[i] \in DOMAIN sent[a]
      /\ \A i, j \in 1..Len(s) : sent[a][s[i]].id = sent[a][s[j]].id => i = j
  BY <1>2 DEF Table
<1>5. \A i \in 1..Len(s) : sent[a][s[i]].id # sent[a][n].id
  BY <1>2 DEF IdKnown, Recent, ToSet
<1> HIDE DEF all
<1>6. /\ \A i \in 1..(Len(s) + 1) : all[i] \in DOMAIN sent[a]
      /\ \A i, j \in 1..(Len(s) + 1) : sent[a][all[i]].id = sent[a][all[j]].id => i = j
      /\ \A i \in 1..(Len(s) + 1) : all[i] \in Recent(a) \cup {n}
  <2>1. ASSUME NEW i \in 1..(Len(s) + 1) PROVE i \in 1..Len(s) \/ i = Len(s) + 1
    BY <1>2
  <2>2. \A i \in 1..Len(s) : s[i] \in Recent(a)
    BY <1>2 DEF Recent, ToSet
  <2> HIDE DEF s
  <2> QED  BY <1>2, <1>3, <1>4, <1>5, <2>1, <2>2
<1>7. /\ t \in Seq(Numbers)
      /\ Len(t) <= RecentLimit
      /\ n \in ToSet(t)
      /\ \E k \in Nat : /\ Len(t) + k = Len(s) + 1
                        /\ \A i \in 1..Len(t) : t[i] = all[i + k]
  BY <1>1, TrimmedEnds DEF all
<1> HIDE DEF t
<1>8. DOMAIN t = 1..Len(t) /\ Len(t) \in Nat
  BY <1>7, LenProperties
<1>9. PICK k \in Nat : Len(t) + k = Len(s) + 1 /\ \A i \in 1..Len(t) : t[i] = all[i + k]
  BY <1>7
<1>10. \A i \in 1..Len(t) : i + k \in 1..(Len(s) + 1)
  BY <1>2, <1>8, <1>9
<1> HIDE DEF s
<1>11. /\ \A i \in DOMAIN t : t[i] \in DOMAIN sent[a]
       /\ \A i, j \in DOMAIN t : sent[a][t[i]].id = sent[a][t[j]].id => i = j
       /\ \A i \in DOMAIN t : t[i] \in Recent(a) \cup {n}
  <2>1. ASSUME NEW i \in DOMAIN t, NEW j \in DOMAIN t,
               sent[a][t[i]].id = sent[a][t[j]].id
        PROVE  i = j
    <3>1. i + k = j + k
      BY <1>6, <1>8, <1>9, <1>10, <2>1
    <3> QED  BY <1>8, <1>9, <3>1
  <2> QED  BY <1>6, <1>8, <1>9, <1>10, <2>1
<1>12. ToSet(t) \subseteq Recent(a) \cup {n}
  BY <1>11 DEF ToSet
<1>13. n \in 0..MaxSequence
  BY BoundsAssumption DEF Numbers
<1> QED  BY <1>7, <1>11, <1>12, <1>13 DEF Table, Evidence, t, all, s

(* A table stays one when its source sends more.                           *)
LEMMA SendingKeepsTables ==
    ASSUME NEW envelopes \in Seq(Envelope), NEW next \in Envelope,
           NEW evidence \in Evidence, Table(envelopes, evidence)
    PROVE  Table(Append(envelopes, next), evidence)
<1> DEFINE more == Append(envelopes, next)
<1>1. /\ Len(envelopes) \in Nat
      /\ DOMAIN envelopes = 1..Len(envelopes)
  BY LenProperties
<1>2. /\ more \in Seq(Envelope)
      /\ Len(more) = Len(envelopes) + 1
      /\ \A n \in 1..Len(envelopes) : more[n] = envelopes[n]
  BY AppendProperties
<1>3. DOMAIN more = 1..(Len(envelopes) + 1)
  BY <1>2, LenProperties
<1> HIDE DEF more
<1>4. \A n \in DOMAIN envelopes : n \in DOMAIN more /\ more[n] = envelopes[n]
  BY <1>1, <1>2, <1>3
<1> QED  BY <1>4 DEF Table, more

-----------------------------------------------------------------------------
(* The types and the tables.                                               *)
LEMMA TablesInitially == Init => TableInvariant
<1> SUFFICES ASSUME Init PROVE TableInvariant
  OBVIOUS
<1>1. TypeOK
  <2>1. sent \in [Adapters -> Seq(Envelope)] /\ saved \in [Adapters -> Seq(Numbers)]
    BY DEF Init
  <2>2. mem \in [Adapters -> Evidence] /\ disk \in [Adapters -> Evidence]
    BY EmptyTable DEF Init
  <2>3. \A a \in Adapters : Len(mem[a].recent) <= RecentLimit
    BY EmptyTable DEF Init, Table
  <2>4. unread \in BOOLEAN
    BY DEF Init
  <2> QED  BY <2>1, <2>2, <2>3, <2>4, NumbersAreNatural DEF Init, TypeOK, Idle
<1>2. reader \in Calls /\ release \in Releases
  BY NumbersAreNatural DEF Init, Idle, NoRelease, Calls, Releases
<1>3. TablesHold
  BY EmptyTable DEF Init, TablesHold
<1>4. WaitingSent /\ SavingNew
  BY NamesAssumption DEF Init, WaitingSent, SavingNew
<1> QED  BY <1>1, <1>2, <1>3, <1>4 DEF TableInvariant

(* A source sends one envelope more.                                       *)
LEMMA SendAdds ==
    ASSUME TypeOK, NEW a \in Adapters, Send(a)
    PROVE  \E envelope \in Envelope : sent' = [sent EXCEPT ![a] = Append(@, envelope)]
<1> DEFINE n == Len(sent[a]) + 1
<1>1. PICK envelope \in Emitted(a, n) : sent' = [sent EXCEPT ![a] = Append(@, envelope)]
  BY DEF Send
<1>2. sent[a] \in Seq(Envelope) /\ now \in 0..MaxTime
  BY DEF TypeOK
<1>3. Len(sent[a]) \in Nat /\ \A m \in DOMAIN sent[a] : sent[a][m] \in Envelope
  BY <1>2, LenProperties, ElementOfSeq
<1>4. n \in Numbers
  BY <1>3, BoundsAssumption DEF Send, Numbers
<1> HIDE DEF n
<1>5. envelope \in Envelope
  <2>1. CASE \E m \in DOMAIN sent[a] : envelope = [sent[a][m] EXCEPT !.at = now]
    <3>1. PICK m \in DOMAIN sent[a] : envelope = [sent[a][m] EXCEPT !.at = now]
      BY <2>1
    <3> QED  BY <1>2, <1>3, <3>1 DEF Envelope
  <2>2. CASE \E id \in Numbers : envelope = [id |-> id, payload |-> n, at |-> now]
    BY <1>2, <1>4, <2>2 DEF Envelope
  <2>3. \A m \in DOMAIN sent[a] : sent[a][m].id \in Numbers
    BY <1>3 DEF Envelope
  <2> QED  BY <1>1, <2>1, <2>2, <2>3 DEF Emitted
<1> QED  BY <1>1, <1>5

(* It changes none of the old ones.                                        *)
LEMMA SendExtends ==
    ASSUME TypeOK, NEW a \in Adapters, Send(a), NEW b \in Adapters, NEW n \in DOMAIN sent[b]
    PROVE  n \in DOMAIN sent'[b] /\ sent'[b][n] = sent[b][n]
<1>1. PICK envelope \in Envelope : sent' = [sent EXCEPT ![a] = Append(@, envelope)]
  BY SendAdds
<1>2. sent \in [Adapters -> Seq(Envelope)] /\ sent[b] \in Seq(Envelope)
  BY DEF TypeOK
<1>3. CASE b # a
  BY <1>1, <1>2, <1>3
<1>4. CASE b = a
  <2>1. sent'[b] = Append(sent[b], envelope)
    BY <1>1, <1>2, <1>4
  <2>2. /\ Append(sent[b], envelope) \in Seq(Envelope)
        /\ Len(Append(sent[b], envelope)) = Len(sent[b]) + 1
        /\ \A i \in 1..Len(sent[b]) : Append(sent[b], envelope)[i] = sent[b][i]
    BY <1>2, AppendProperties
  <2>3. DOMAIN sent'[b] = 1..(Len(sent[b]) + 1) /\ DOMAIN sent[b] = 1..Len(sent[b])
        /\ Len(sent[b]) \in Nat
    BY <1>2, <2>1, <2>2, LenProperties
  <2> QED  BY <2>1, <2>2, <2>3
<1> QED  BY <1>3, <1>4

LEMMA SendKeepsTables ==
    ASSUME TableInvariant, NEW a \in Adapters, Send(a)
    PROVE  TableInvariant'
<1>2. TypeOK
  BY DEF TableInvariant
<1>1. PICK envelope \in Envelope : sent' = [sent EXCEPT ![a] = Append(@, envelope)]
  BY <1>2, SendAdds
<1>3. envelope \in Envelope
  OBVIOUS
<1>4. sent' \in [Adapters -> Seq(Envelope)]
  BY <1>1, <1>2, <1>3 DEF TypeOK
<1>5. UNCHANGED <<now, waiting, reader, release>> /\ UNCHANGED store
  BY DEF Send
<1>6. TypeOK'
  BY <1>2, <1>4, <1>5 DEF TypeOK, store
<1>7. reader' \in Calls /\ release' \in Releases
  BY <1>5 DEF TableInvariant
<1>8. TablesHold'
  <2> SUFFICES ASSUME NEW b \in Adapters
               PROVE  Table(sent'[b], mem[b]) /\ Table(sent'[b], disk[b])
    BY <1>5 DEF TablesHold, store
  <2>1. Table(sent[b], mem[b]) /\ Table(sent[b], disk[b])
    BY DEF TableInvariant, TablesHold
  <2>2. mem[b] \in Evidence /\ disk[b] \in Evidence /\ sent[b] \in Seq(Envelope)
    BY <1>2 DEF TypeOK
  <2>3. CASE b = a
    <3>1. sent'[b] = Append(sent[b], envelope)
      BY <1>1, <1>2, <2>3 DEF TypeOK
    <3> QED  BY <1>3, <2>1, <2>2, <3>1, SendingKeepsTables
  <2>4. CASE b # a
    BY <1>1, <1>2, <2>1, <2>4 DEF TypeOK
  <2> QED  BY <2>3, <2>4
<1>9. WaitingSent'
  <2> SUFFICES ASSUME NEW w \in waiting PROVE w[2] \in DOMAIN sent'[w[1]]
    BY <1>5 DEF WaitingSent
  <2>1. w[1] \in Adapters /\ w[2] \in DOMAIN sent[w[1]]
    BY <1>2 DEF TableInvariant, WaitingSent, TypeOK
  <2> QED  BY <1>2, <2>1, SendExtends
<1>10. SavingNew'
  BY <1>5 DEF TableInvariant, SavingNew, store
<1> QED  BY <1>6, <1>7, <1>8, <1>9, <1>10 DEF TableInvariant

LEMMA AcceptKeepsTables ==
    ASSUME TableInvariant, NEW a \in Adapters, NEW n \in Numbers, Accept(a, n)
    PROVE  TableInvariant'
<1> DEFINE t == Trimmed(Append(mem[a].recent, n))
<1>1. TypeOK
  BY DEF TableInvariant
<1>2. n \in DOMAIN sent[a]
  <2>1. <<a, n>> \in waiting
    BY DEF Accept, Locks
  <2>2. <<a, n>>[2] \in DOMAIN sent[<<a, n>>[1]]
    BY <2>1 DEF TableInvariant, WaitingSent
  <2> QED  BY <2>2
<1>3. ~IdKnown(a, n)
  BY DEF Accept, IsNew
<1>4. /\ [last |-> n, recent |-> t] \in Evidence
      /\ Table(sent[a], [last |-> n, recent |-> t])
  BY <1>1, <1>2, <1>3, EnteredIsTable DEF TypeOK, TableInvariant, TablesHold
<1>5. mem' = [mem EXCEPT ![a] = [last |-> n, recent |-> t]]
  BY DEF Accept
<1>6. mem' \in [Adapters -> Evidence] /\ mem'[a] = [last |-> n, recent |-> t]
      /\ \A b \in Adapters : b # a => mem'[b] = mem[b]
  BY <1>1, <1>4, <1>5 DEF TypeOK
<1> HIDE DEF t
<1>7. waiting' \subseteq waiting /\ UNCHANGED <<now, sent, disk, reader, release, unread, saved>>
      /\ resident' = [resident EXCEPT ![a] = n] /\ heard' = heard \cup {a} /\ saving' = a
  BY DEF Accept, Locks
<1>8. TablesHold'
  <2> SUFFICES ASSUME NEW b \in Adapters
               PROVE  Table(sent[b], mem'[b]) /\ Table(sent[b], disk[b])
    BY <1>7 DEF TablesHold
  <2>1. Table(sent[b], mem[b]) /\ Table(sent[b], disk[b])
    BY DEF TableInvariant, TablesHold
  <2> QED  BY <1>4, <1>6, <2>1
<1>9. \A b \in Adapters : Len(mem'[b].recent) <= RecentLimit
  BY <1>8 DEF TablesHold, Table
<1>10. TypeOK'
  BY <1>1, <1>6, <1>7, <1>9, NumbersAreNatural DEF TypeOK
<1>11. WaitingSent' /\ SavingNew'
  BY <1>6, <1>7, NumbersAreNatural DEF TableInvariant, WaitingSent, SavingNew
<1> QED  BY <1>7, <1>8, <1>10, <1>11 DEF TableInvariant

LEMMA CrashKeepsTables ==
    ASSUME TableInvariant, Crash
    PROVE  TableInvariant'
<1>1. TypeOK
  BY DEF TableInvariant
<1>2. /\ unread' \in BOOLEAN
      /\ mem' = [a \in Adapters |-> Loaded(a, unread')]
      /\ resident' = [a \in Adapters |-> 0] /\ waiting' = {} /\ saving' = NoAdapter
      /\ reader' = Idle /\ release' = NoRelease /\ heard' = {}
      /\ UNCHANGED <<now, sent, disk, saved>>
  BY DEF Crash, Kept, ReadFails
<1>3. ASSUME NEW a \in Adapters
      PROVE  Loaded(a, unread') \in Evidence /\ Table(sent[a], Loaded(a, unread'))
  BY <1>1, <1>2, LoadedIsTable DEF TypeOK, TableInvariant, TablesHold
<1>4. mem' \in [Adapters -> Evidence]
  BY <1>2, <1>3
<1>5. TablesHold'
  <2> SUFFICES ASSUME NEW a \in Adapters
               PROVE  Table(sent[a], mem'[a]) /\ Table(sent[a], disk[a])
    BY <1>2 DEF TablesHold
  <2> QED  BY <1>2, <1>3 DEF TableInvariant, TablesHold
<1>6. \A b \in Adapters : Len(mem'[b].recent) <= RecentLimit
  BY <1>5 DEF TablesHold, Table
<1>7. TypeOK'
  BY <1>1, <1>2, <1>4, <1>6, NumbersAreNatural DEF TypeOK, Idle
<1>8. reader' \in Calls /\ release' \in Releases
  BY <1>2, NumbersAreNatural DEF Idle, NoRelease, Calls, Releases
<1> QED  BY <1>2, <1>5, <1>7, <1>8, NamesAssumption DEF TableInvariant, WaitingSent, SavingNew

(* The other steps of the store leave the tables as they are.              *)
LEMMA StoreKeepsTables ==
    ASSUME TableInvariant,
           \/ \E a \in Adapters, n \in Numbers : Replay(a, n) \/ Reject(a, n)
           \/ Persist
           \/ PersistFails
    PROVE  TableInvariant'
<1>1. TypeOK
  BY DEF TableInvariant
<1>2. waiting' \subseteq waiting /\ UNCHANGED <<now, sent, mem, reader, release>>
  BY DEF Replay, Reject, Locks, Persist, PersistFails, store
<1>3. disk' = disk \/ disk' = mem
  BY DEF Replay, Reject, Persist, PersistFails, store
<1>4. resident' \in [Adapters -> 0..MaxSequence] /\ heard' \subseteq Adapters
  BY <1>1, NumbersAreNatural DEF TypeOK, Replay, Reject, Persist, PersistFails, store
<1>5. saving' \in Adapters \cup {NoAdapter}
  BY <1>1 DEF TypeOK, Replay, Reject, Persist, PersistFails, store
<1>6. saved' \in [Adapters -> Seq(Numbers)]
  <2>1. CASE Persist
    <3>1. saving \in Adapters /\ saved' = [Remaining EXCEPT ![saving] = Append(@, mem[saving].last)]
          /\ Remaining \in [Adapters -> Seq(Numbers)]
      BY <1>1, <2>1 DEF Persist, LockFree, TypeOK, Remaining
    <3>2. mem[saving].last \in Numbers
      BY <1>1, <3>1, NumbersAreNatural DEF TypeOK, Evidence, TableInvariant, SavingNew, Numbers
    <3> QED  BY <1>1, <3>1, <3>2 DEF TypeOK
  <2>2. CASE ~Persist
    BY <1>1, <2>2 DEF TypeOK, Replay, Reject, PersistFails, store
  <2> QED  BY <2>1, <2>2
<1>10. unread' \in BOOLEAN
  BY <1>1 DEF TypeOK, Replay, Reject, Persist, PersistFails, store
<1>7. TypeOK'
  BY <1>1, <1>2, <1>3, <1>4, <1>5, <1>6, <1>10 DEF TypeOK
<1>8. TablesHold' /\ WaitingSent'
  BY <1>2, <1>3 DEF TableInvariant, TablesHold, WaitingSent
<1>9. SavingNew'
  <2>1. saving' = saving \/ saving' = NoAdapter
    BY DEF Replay, Reject, Persist, PersistFails, store
  <2> QED  BY <1>2, <2>1, NamesAssumption DEF TableInvariant, SavingNew
<1> QED  BY <1>2, <1>7, <1>8, <1>9 DEF TableInvariant

(* So do the clock, a delivery and the reader.                             *)
LEMMA ReaderKeepsTables ==
    ASSUME TableInvariant,
           \/ Tick
           \/ \E a \in Adapters, n \in Numbers : Validate(a, n)
           \/ ReadClock
           \/ PassGates
           \/ Block
           \/ Release
    PROVE  TableInvariant'
<1>1. TypeOK /\ reader \in Calls /\ release \in Releases /\ WaitingSent
  BY DEF TableInvariant
<1>2. UNCHANGED sent /\ UNCHANGED store
  BY DEF Tick, Validate, ReadClock, PassGates, Block, Release
<1>3. now' \in 0..MaxTime
  <2>1. CASE Tick
    BY <1>1, <2>1, NumbersAreNatural DEF Tick, TypeOK
  <2>2. CASE ~Tick
    BY <1>1, <2>2 DEF TypeOK, Validate, ReadClock, PassGates, Block, Release
  <2> QED  BY <2>1, <2>2
<1>4. reader' \in Calls
  <2>1. CASE ReadClock
    BY <1>1, <2>1 DEF ReadClock, Calls, TypeOK
  <2>2. CASE PassGates
    <3>1. [a \in Adapters |-> mem[a].last] \in [Adapters -> 0..MaxSequence]
      BY <1>1 DEF TypeOK, Evidence
    <3> QED  BY <1>1, <2>2, <3>1 DEF PassGates, Calls
  <2>3. CASE Block \/ Release
    BY <2>3, NumbersAreNatural DEF Block, Release, Calls, Idle
  <2>4. CASE ~(ReadClock \/ PassGates \/ Block \/ Release)
    BY <1>1, <2>4 DEF Tick, Validate
  <2> QED  BY <2>1, <2>2, <2>3, <2>4
<1>5. release' \in Releases
  <2>1. CASE Release
    BY <1>1, <2>1 DEF Release, Releases, Calls, TypeOK
  <2>2. CASE ~Release
    BY <1>1, <2>2 DEF Tick, Validate, ReadClock, PassGates, Block
  <2> QED  BY <2>1, <2>2
<1>6. waiting' \subseteq Adapters \X Numbers /\ WaitingSent'
  <2>1. CASE \E a \in Adapters, n \in Numbers : Validate(a, n)
    <3>1. PICK a \in Adapters, n \in Numbers : Validate(a, n)
      BY <2>1
    <3>2. waiting' = waiting \cup {<<a, n>>} /\ n \in DOMAIN sent[a]
      BY <3>1 DEF Validate
    <3>3. \A w \in waiting' : w \in waiting \/ w = <<a, n>>
      BY <3>2
    <3>4. \A w \in waiting' : w[2] \in DOMAIN sent[w[1]]
      BY <1>1, <3>2, <3>3 DEF WaitingSent
    <3> QED  BY <1>1, <1>2, <3>2, <3>4 DEF TypeOK, WaitingSent
  <2>2. CASE ~\E a \in Adapters, n \in Numbers : Validate(a, n)
    <3>1. UNCHANGED waiting
      BY <2>2 DEF Tick, ReadClock, PassGates, Block, Release
    <3> QED  BY <1>1, <1>2, <3>1 DEF TypeOK, WaitingSent
  <2> QED  BY <2>1, <2>2
<1>7. TypeOK'
  BY <1>1, <1>2, <1>3, <1>4, <1>6 DEF TypeOK, store, Calls
<1>8. TablesHold' /\ SavingNew'
  BY <1>2 DEF TableInvariant, TablesHold, SavingNew, store
<1> QED  BY <1>4, <1>5, <1>6, <1>7, <1>8 DEF TableInvariant

LEMMA TablesStutter ==
    ASSUME TableInvariant, UNCHANGED vars
    PROVE  TableInvariant'
  BY DEF vars, TableInvariant, TypeOK, WaitingSent, SavingNew, TablesHold

LEMMA TablesNext ==
    ASSUME TableInvariant, [Next]_vars
    PROVE  TableInvariant'
<1>1. CASE \E a \in Adapters : Send(a)
  BY <1>1, SendKeepsTables
<1>2. CASE \E a \in Adapters, n \in Numbers : Accept(a, n)
  BY <1>2, AcceptKeepsTables
<1>3. CASE Crash
  BY <1>3, CrashKeepsTables
<1>4. CASE \/ \E a \in Adapters, n \in Numbers : Replay(a, n) \/ Reject(a, n)
           \/ Persist
           \/ PersistFails
  BY <1>4, StoreKeepsTables
<1>5. CASE \/ Tick
           \/ \E a \in Adapters, n \in Numbers : Validate(a, n)
           \/ ReadClock
           \/ PassGates
           \/ Block
           \/ Release
  BY <1>5, ReaderKeepsTables
<1>6. CASE UNCHANGED vars
  BY <1>6, TablesStutter
<1> QED  BY <1>1, <1>2, <1>3, <1>4, <1>5, <1>6 DEF Next, Ingest

(* State and tables of the gateway have their types, and a table never     *)
(* grows beyond its limit, for any adapters, envelopes and faults.         *)
THEOREM GatewayTypeCorrect == Spec => []TypeOK
  BY TablesInitially, TablesNext, PTL DEF Spec, TableInvariant

(* The newest envelope is recognised when it is sent again: ingest() and   *)
(* _load() keep its id in the table, in memory and in the file, whatever   *)
(* is delivered, fails or restarts.                                        *)
THEOREM NewestRecognised == Spec => []NewestIsRecognised
<1>1. TableInvariant => NewestIsRecognised
  BY DEF TableInvariant, TablesHold, Table, NewestIsRecognised
<1> QED  BY <1>1, TablesInitially, TablesNext, PTL DEF Spec

-----------------------------------------------------------------------------
(* What becomes durable, in order: every number that was saved is at most  *)
(* the newest in the file and, unless that file could not be read, in      *)
(* memory, and below the one being saved.                                  *)
SavedBelow ==
    \A a \in Adapters : \A i \in DOMAIN saved[a] :
        /\ saved[a][i] <= disk[a].last
        /\ ~unread => /\ saved[a][i] <= mem[a].last
                      /\ saving = a => saved[a][i] < mem[a].last

OrderInvariant == TableInvariant /\ SavedBelow /\ SavedInOrder

LEMMA OrderInitially == Init => OrderInvariant
<1> SUFFICES ASSUME Init PROVE SavedBelow /\ SavedInOrder
  BY TablesInitially DEF OrderInvariant
<1>1. \A a \in Adapters : DOMAIN saved[a] = {}
  BY DEF Init
<1> QED  BY <1>1 DEF SavedBelow, SavedInOrder

LEMMA AcceptKeepsOrder ==
    ASSUME OrderInvariant, NEW a \in Adapters, NEW n \in Numbers, Accept(a, n)
    PROVE  SavedBelow' /\ SavedInOrder'
<1>1. TypeOK
  BY DEF OrderInvariant, TableInvariant
<1>2. mem'[a].last = n /\ \A b \in Adapters : b # a => mem'[b] = mem[b]
  BY <1>1 DEF Accept, TypeOK
<1>3. saving' = a /\ saving = NoAdapter /\ UNCHANGED <<saved, disk, unread>> /\ n > mem[a].last
  BY DEF Accept, IsNew, Locks, LockFree
<1>4. ASSUME NEW b \in Adapters, NEW i \in DOMAIN saved[b]
      PROVE  /\ saved[b][i] \in Nat /\ mem[b].last \in Nat /\ n \in Nat
             /\ (~unread => saved[b][i] <= mem[b].last) /\ saved[b][i] <= disk[b].last
  <2>1. saved[b] \in Seq(Numbers)
    BY <1>1 DEF TypeOK
  <2>2. saved[b][i] \in Numbers
    BY <2>1, LenProperties, ElementOfSeq
  <2>3. mem[b].last \in 0..MaxSequence
    BY <1>1 DEF TypeOK, Evidence
  <2> QED  BY <2>2, <2>3, NumbersAreNatural DEF OrderInvariant, SavedBelow, Numbers
<1>5. ASSUME NEW b \in Adapters, NEW i \in DOMAIN saved[b]
      PROVE  /\ saved[b][i] <= disk[b].last
             /\ ~unread => /\ saved[b][i] <= mem'[b].last
                           /\ a = b => saved[b][i] < mem'[b].last
  BY <1>2, <1>3, <1>4
<1>6. SavedBelow'
  BY <1>3, <1>5 DEF SavedBelow
<1>7. SavedInOrder'
  BY <1>3 DEF OrderInvariant, SavedInOrder
<1> QED  BY <1>6, <1>7

(* What a write adds to is in order, at most what memory has, and below    *)
(* what is being saved.                                                    *)
LEMMA RemainingInOrder ==
    ASSUME OrderInvariant
    PROVE  /\ Remaining \in [Adapters -> Seq(Numbers)]
           /\ \A a \in Adapters : ToSet(Remaining[a]) \subseteq ToSet(saved[a])
           /\ ~unread => Remaining = saved
           /\ \A a \in Adapters : \A i \in DOMAIN Remaining[a] :
                 /\ Remaining[a][i] <= mem[a].last
                 /\ saving = a => Remaining[a][i] < mem[a].last
           /\ \A a \in Adapters : \A i, j \in DOMAIN Remaining[a] :
                 i < j => Remaining[a][i] < Remaining[a][j]
<1>1. CASE unread
  <2>1. Remaining = [a \in Adapters |-> <<>>]
    BY <1>1 DEF Remaining
  <2>2. DOMAIN <<>> = {} /\ <<>> \in Seq(Numbers)
    OBVIOUS
  <2> QED  BY <1>1, <2>1, <2>2 DEF ToSet
<1>2. CASE ~unread
  <2>1. Remaining = saved
    BY <1>2 DEF Remaining
  <2> QED  BY <1>2, <2>1 DEF OrderInvariant, TableInvariant, TypeOK, SavedBelow, SavedInOrder
<1> QED  BY <1>1, <1>2

LEMMA PersistKeepsOrder ==
    ASSUME OrderInvariant, Persist
    PROVE  SavedBelow' /\ SavedInOrder'
<1>1. TypeOK
  BY DEF OrderInvariant, TableInvariant
<1> DEFINE n == mem[saving].last
           old == Remaining[saving]
<1>2. saving \in Adapters /\ saving' = NoAdapter /\ disk' = mem /\ mem' = mem
      /\ saved' = [Remaining EXCEPT ![saving] = Append(old, n)] /\ unread' = FALSE
  BY <1>1 DEF Persist, LockFree, TypeOK
<1>3. old \in Seq(Numbers) /\ n \in Numbers /\ n \in Nat
  <2>1. old \in Seq(Numbers)
    BY <1>2, RemainingInOrder
  <2>2. n \in Numbers /\ n \in Nat
    BY <1>1, <1>2, NumbersAreNatural
    DEF TypeOK, Evidence, OrderInvariant, TableInvariant, SavingNew, Numbers
  <2> QED  BY <2>1, <2>2
<1>4. \A i \in DOMAIN old : old[i] < n
  BY <1>2, RemainingInOrder
<1>5. /\ Len(old) \in Nat /\ DOMAIN old = 1..Len(old)
      /\ DOMAIN Append(old, n) = 1..(Len(old) + 1)
      /\ \A i \in 1..Len(old) : Append(old, n)[i] = old[i]
      /\ Append(old, n)[Len(old) + 1] = n
  BY <1>3, AppendProperties, LenProperties
<1>6. \A i \in 1..Len(old) : old[i] \in Nat
  <2>1. \A i \in 1..Len(old) : old[i] \in Numbers
    BY <1>3, ElementOfSeq
  <2> QED  BY <2>1, NumbersAreNatural DEF Numbers
<1>7. saved'[saving] = Append(old, n) /\ \A b \in Adapters : b # saving => saved'[b] = Remaining[b]
  BY <1>2, RemainingInOrder
<1>8. SavedBelow'
  <2> SUFFICES ASSUME NEW b \in Adapters, NEW i \in DOMAIN saved'[b]
               PROVE  saved'[b][i] <= mem[b].last
    BY <1>2, NamesAssumption DEF SavedBelow
  <2>1. CASE b # saving
    BY <1>7, <2>1, RemainingInOrder
  <2>2. CASE b = saving
    <3>1. i \in 1..(Len(old) + 1) /\ saved'[b] = Append(old, n)
      BY <1>5, <1>7, <2>2
    <3>2. CASE i = Len(old) + 1
      BY <1>3, <1>5, <2>2, <3>1, <3>2
    <3>3. CASE i \in 1..Len(old)
      <4>1. saved'[b][i] = old[i]
        BY <1>5, <3>1, <3>3
      <4>2. old[i] < n
        BY <1>4, <1>5, <3>3
      <4> HIDE DEF n, old
      <4>3. old[i] <= n
        BY <1>3, <1>6, <3>3, <4>2
      <4> QED  BY <2>2, <4>1, <4>3 DEF n
    <3> QED  BY <1>5, <3>1, <3>2, <3>3
  <2> QED  BY <2>1, <2>2
<1>9. SavedInOrder'
  <2> SUFFICES ASSUME NEW b \in Adapters, NEW i \in DOMAIN saved'[b], NEW j \in DOMAIN saved'[b],
                      i < j
               PROVE  saved'[b][i] < saved'[b][j]
    BY DEF SavedInOrder
  <2>1. CASE b # saving
    BY <1>7, <2>1, RemainingInOrder
  <2>2. CASE b = saving
    <3>1. i \in 1..(Len(old) + 1) /\ j \in 1..(Len(old) + 1) /\ saved'[b] = Append(old, n)
      BY <1>5, <1>7, <2>2
    <3>2. i \in 1..Len(old) /\ saved'[b][i] = old[i]
      BY <1>5, <3>1
    <3>3. CASE j = Len(old) + 1
      BY <1>4, <1>5, <3>1, <3>2, <3>3
    <3>4. CASE j \in 1..Len(old)
      <4>1. saved'[b][j] = old[j]
        BY <1>5, <3>1, <3>4
      <4>2. old[i] < old[j]
        BY <1>2, <1>5, <3>2, <3>4, RemainingInOrder
      <4> QED  BY <3>2, <4>1, <4>2
    <3> QED  BY <1>5, <3>1, <3>3, <3>4
  <2> QED  BY <2>1, <2>2
<1> QED  BY <1>8, <1>9

LEMMA OrderNext ==
    ASSUME OrderInvariant, [Next]_vars
    PROVE  OrderInvariant'
<1>1. TableInvariant'
  BY TablesNext DEF OrderInvariant
<1>2. SavedBelow' /\ SavedInOrder'
  <2>1. CASE \E a \in Adapters, n \in Numbers : Accept(a, n)
    BY <2>1, AcceptKeepsOrder
  <2>2. CASE Persist
    BY <2>2, PersistKeepsOrder
  <2>3. CASE Crash
    <3>1. UNCHANGED <<saved, disk>> /\ saving' = NoAdapter
      BY <2>3 DEF Crash
    <3>2. ASSUME NEW a \in Adapters, ~unread' PROVE mem'[a].last = disk[a].last
      <4>1. unread' \in BOOLEAN
        BY <2>3 DEF Crash, ReadFails
      <4>2. Loaded(a, unread').last = disk[a].last
        BY <3>2, <4>1, LoadedIsTable DEF OrderInvariant, TableInvariant, TypeOK, TablesHold
      <4> QED  BY <2>3, <4>2 DEF Crash
    <3> QED  BY <3>1, <3>2, NamesAssumption DEF OrderInvariant, SavedBelow, SavedInOrder
  <2>4. CASE UNCHANGED <<saved, disk, mem, unread>> /\ (saving' = saving \/ saving' = NoAdapter)
    BY <2>4, NamesAssumption DEF OrderInvariant, SavedBelow, SavedInOrder
  <2> QED
    BY <2>1, <2>2, <2>3, <2>4 DEF Next, Ingest, vars, store, Tick, Send, Validate, Replay,
       Reject, PersistFails, ReadClock, PassGates, Block, Release
<1> QED  BY <1>1, <1>2 DEF OrderInvariant

(* Replay protection: the sequence numbers that become durable as new ones *)
(* strictly increase, for any number of envelopes, redeliveries, failed    *)
(* writes and restarts.                                                    *)
THEOREM SequencesSavedInOrder == Spec => []SavedInOrder
  BY OrderInitially, OrderNext, PTL DEF Spec, OrderInvariant

-----------------------------------------------------------------------------
(* What a source has sent to this process, and what was released of it.    *)
ResidentInvariant ==
    /\ TableInvariant
    /\ ResidentIsRecorded
    /\ \A a \in Adapters :
          resident[a] # 0 => a \in heard /\ resident[a] \in DOMAIN sent[a]
    /\ reader.step = "passed" => \A a \in Adapters : resident[a] # 0
    /\ ReleaseAfterResend

LEMMA ResidentInitially == Init => ResidentInvariant
  BY TablesInitially
  DEF Init, ResidentInvariant, ResidentIsRecorded, ReleaseAfterResend, Released, Idle

LEMMA ResidentNext ==
    ASSUME ResidentInvariant, [Next]_vars
    PROVE  ResidentInvariant'
<1>1. TableInvariant /\ TypeOK /\ TableInvariant' /\ TypeOK'
  BY TablesNext DEF ResidentInvariant, TableInvariant
<1>2. CASE \E a \in Adapters, n \in Numbers : Accept(a, n) \/ Replay(a, n)
  <2>1. PICK a \in Adapters, n \in Numbers : Accept(a, n) \/ Replay(a, n)
    BY <1>2
  <2>2. /\ resident' = [resident EXCEPT ![a] = n]
        /\ heard' = heard \cup {a}
        /\ UNCHANGED <<reader, release>>
    BY <2>1 DEF Accept, Replay
  <2>3. n \in DOMAIN sent[a] /\ UNCHANGED sent
    <3>1. <<a, n>> \in waiting /\ UNCHANGED sent
      BY <2>1 DEF Accept, Replay, Locks
    <3>2. <<a, n>>[2] \in DOMAIN sent[<<a, n>>[1]]
      BY <1>1, <3>1 DEF TableInvariant, WaitingSent
    <3> QED  BY <3>1, <3>2
  <2>4. ResidentIsRecorded'
    <3>1. SnapshotKnown(a, n)' /\ \A b \in Adapters : b # a => mem'[b] = mem[b]
      <4>1. CASE Replay(a, n)
        BY <4>1 DEF Replay, SnapshotKnown, Recent, SameSnapshot
      <4>2. CASE Accept(a, n)
        <5>1. mem'[a].last = n /\ \A b \in Adapters : b # a => mem'[b] = mem[b]
          BY <1>1, <4>2 DEF Accept, TypeOK
        <5>2. Table(sent'[a], mem'[a])
          BY <1>1 DEF TableInvariant, TablesHold
        <5>3. n \in ToSet(mem'[a].recent)
          BY <5>1, <5>2, NumbersAreNatural DEF Table
        <5> QED  BY <5>1, <5>3 DEF SnapshotKnown, Recent, SameSnapshot
      <4> QED  BY <2>1, <4>1, <4>2
    <3>2. ASSUME NEW b \in Adapters, resident'[b] # 0 PROVE SnapshotKnown(b, resident[b])'
      <4>1. CASE b = a
        BY <1>1, <2>2, <3>1, <4>1 DEF TypeOK
      <4>2. CASE b # a
        <5>1. resident'[b] = resident[b]
          BY <1>1, <2>2, <4>2 DEF TypeOK
        <5>2. SnapshotKnown(b, resident[b])
          BY <3>2, <5>1 DEF ResidentInvariant, ResidentIsRecorded
        <5> QED  BY <2>3, <3>1, <4>2, <5>1, <5>2 DEF SnapshotKnown, Recent, SameSnapshot
      <4> QED  BY <4>1, <4>2
    <3> QED  BY <3>2 DEF ResidentIsRecorded
  <2>5. \A b \in Adapters :
           resident'[b] # 0 => b \in heard' /\ resident'[b] \in DOMAIN sent'[b]
    BY <1>1, <2>2, <2>3 DEF ResidentInvariant, TypeOK
  <2>6. reader'.step = "passed" => \A b \in Adapters : resident'[b] # 0
    BY <1>1, <2>2, NumbersAreNatural DEF ResidentInvariant, TypeOK
  <2>7. ReleaseAfterResend'
    BY <2>2 DEF ResidentInvariant, ReleaseAfterResend, Released
  <2> QED  BY <1>1, <2>4, <2>5, <2>6, <2>7 DEF ResidentInvariant
<1>3. CASE Crash
  <2>1. /\ resident' = [a \in Adapters |-> 0]
        /\ reader'.step = "idle"
        /\ release' = NoRelease
    BY <1>3 DEF Crash, Kept, Idle
  <2> QED  BY <1>1, <2>1 DEF ResidentInvariant, ResidentIsRecorded, ReleaseAfterResend, Released
<1>4. CASE PassGates
  <2>1. \A a \in Adapters : resident[a] # 0
    BY <1>4 DEF PassGates, Ready
  <2>2. UNCHANGED <<sent, release>> /\ UNCHANGED store
    BY <1>4 DEF PassGates
  <2> QED  BY <1>1, <2>1, <2>2
           DEF ResidentInvariant, ResidentIsRecorded, SnapshotKnown, SameSnapshot, Recent,
               ReleaseAfterResend, Released, store
<1>5. CASE Release
  <2>1. \A a \in Adapters : a \in heard
    BY <1>5 DEF Release, ResidentInvariant
  <2>2. heard = Adapters
    BY <1>1, <2>1 DEF TypeOK
  <2>3. UNCHANGED sent /\ UNCHANGED store /\ reader'.step = "idle"
    BY <1>5 DEF Release, Idle
  <2> QED  BY <1>1, <2>2, <2>3
           DEF ResidentInvariant, ResidentIsRecorded, SnapshotKnown, SameSnapshot, Recent,
               ReleaseAfterResend, Released, store
<1>6. CASE /\ UNCHANGED <<sent, mem, resident, heard, release>>
           /\ reader' = reader \/ reader'.step # "passed"
  BY <1>1, <1>6
  DEF ResidentInvariant, ResidentIsRecorded, SnapshotKnown, SameSnapshot, Recent,
      ReleaseAfterResend, Released
<1>8. CASE \E a \in Adapters : Send(a)
  <2>1. PICK a \in Adapters : Send(a)
    BY <1>8
  <2>2. UNCHANGED <<reader, release>> /\ UNCHANGED store
    BY <2>1 DEF Send
  <2>3. ASSUME NEW b \in Adapters, resident[b] # 0
        PROVE  resident[b] \in DOMAIN sent'[b] /\ SnapshotKnown(b, resident[b])'
    <3>1. PICK m \in Recent(b) : SameSnapshot(b, m, resident[b])
      BY <2>3 DEF ResidentInvariant, ResidentIsRecorded, SnapshotKnown
    <3>2. m \in DOMAIN sent[b] /\ resident[b] \in DOMAIN sent[b]
      <4>1. Table(sent[b], mem[b])
        BY <1>1 DEF TableInvariant, TablesHold
      <4>2. PICK i \in DOMAIN mem[b].recent : m = mem[b].recent[i]
        BY <3>1 DEF Recent, ToSet
      <4> QED  BY <2>3, <4>1, <4>2 DEF Table, ResidentInvariant
    <3>3. sent'[b][m] = sent[b][m] /\ sent'[b][resident[b]] = sent[b][resident[b]]
          /\ resident[b] \in DOMAIN sent'[b]
      BY <1>1, <2>1, <3>2, SendExtends
    <3>4. m \in Recent(b)' /\ SameSnapshot(b, m, resident[b])'
      BY <2>2, <3>1, <3>3 DEF SameSnapshot, Recent, store
    <3> QED  BY <2>2, <3>3, <3>4 DEF SnapshotKnown, store
  <2> QED  BY <1>1, <2>2, <2>3
           DEF ResidentInvariant, ResidentIsRecorded, ReleaseAfterResend, Released, store
<1>7. ReadClock => reader'.step # "passed"
  BY <1>1 DEF ReadClock, TableInvariant, Calls
<1> QED
  BY <1>2, <1>3, <1>4, <1>5, <1>6, <1>7, <1>8 DEF Next, Ingest, vars, store, Tick, Validate,
     Reject, Persist, PersistFails, ReadClock, Block, Idle

(* Values in memory always have their snapshot in the table of recent ids. *)
THEOREM ResidentRecorded == Spec => []ResidentIsRecorded
  BY ResidentInitially, ResidentNext, PTL DEF Spec, ResidentInvariant

(* After a restart nothing is released before every source has resent.     *)
THEOREM ReleasedAfterResend == Spec => []ReleaseAfterResend
  BY ResidentInitially, ResidentNext, PTL DEF Spec, ResidentInvariant

-----------------------------------------------------------------------------
(* When the file can be written, only the envelope being saved is in       *)
(* memory and not in it.                                                   *)
WritesSucceed == "persist" \notin Faults

(* A process without its file has nothing but what it is saving.           *)
NothingSaved ==
    \A a \in Adapters : /\ mem[a].last # 0 => saving = a
                        /\ \A n \in Recent(a) : n = mem[a].last
                        /\ reader.step # "passed"
                        /\ ~Released

DurableInvariant ==
    /\ ResidentInvariant
    /\ \A a \in Adapters : \A n \in Recent(a) :
          n \in ToSet(saved[a]) \/ (saving = a /\ n = mem[a].last)
    /\ \A a \in Adapters : ToSet(disk[a].recent) \subseteq ToSet(saved[a])
    /\ \A a \in Adapters : ToSet(saved[a]) \subseteq DOMAIN sent[a]
    /\ unread => NothingSaved
    /\ reader.step = "passed" => \A a \in Adapters : reader.cited[a] \in ToSet(saved[a])
    /\ Released => \A a \in Adapters : release.values[a] \in DOMAIN sent[a]
    /\ ReleaseIsEvidenced

LEMMA DurableInitially == Init => DurableInvariant
<1> SUFFICES ASSUME Init PROVE DurableInvariant
  OBVIOUS
<1>1. ToSet(<<>>) = {}
  BY DEF ToSet
<1> QED
  BY <1>1, ResidentInitially
  DEF Init, DurableInvariant, Recent, NoEvidence, Idle, ReleaseIsEvidenced, Released

(* The members of a sequence.                                              *)
LEMMA SeqToSet ==
    ASSUME NEW S, NEW q \in Seq(S)
    PROVE  ToSet(q) \subseteq S
  BY LenProperties, ElementOfSeq DEF ToSet

LEMMA AcceptKeepsDurable ==
    ASSUME DurableInvariant, NEW a \in Adapters, NEW n \in Numbers, Accept(a, n)
    PROVE  DurableInvariant'
<1>1. ResidentInvariant' /\ TypeOK
  BY ResidentNext DEF Next, Ingest, DurableInvariant, ResidentInvariant, TableInvariant
<1> DEFINE t == Trimmed(Append(mem[a].recent, n))
<1>2. mem'[a] = [last |-> n, recent |-> t] /\ \A b \in Adapters : b # a => mem'[b] = mem[b]
  BY <1>1 DEF Accept, TypeOK
<1>3. ToSet(t) \subseteq Recent(a) \cup {n}
  <2>1. <<a, n>> \in waiting
    BY DEF Accept, Locks
  <2>2. <<a, n>>[2] \in DOMAIN sent[<<a, n>>[1]]
    BY <2>1 DEF DurableInvariant, ResidentInvariant, TableInvariant, WaitingSent
  <2>3. Table(sent[a], mem[a])
    BY DEF DurableInvariant, ResidentInvariant, TableInvariant, TablesHold
  <2> QED  BY <1>1, <2>2, <2>3, EnteredIsTable DEF TypeOK, Accept, IsNew
<1> HIDE DEF t
<1>4. saving = NoAdapter /\ saving' = a /\ UNCHANGED <<sent, disk, reader, release, unread, saved>>
  BY DEF Accept, Locks, LockFree
<1>5. \A b \in Adapters : Recent(b) \subseteq ToSet(saved[b])
  BY <1>4, NamesAssumption DEF DurableInvariant
<1>6. ASSUME NEW b \in Adapters, NEW m \in ToSet(mem'[b].recent)
      PROVE  m \in ToSet(saved[b]) \/ (a = b /\ m = mem'[b].last)
  BY <1>2, <1>3, <1>5 DEF Recent
<1>7. ASSUME unread PROVE NothingSaved'
  <2>1. \A b \in Adapters : mem[b].last = 0 /\ reader.step # "passed" /\ ~Released
    BY <1>4, <1>7, NamesAssumption DEF DurableInvariant, NothingSaved
  <2>2. Recent(a) = {}
    <3>1. \A m \in Recent(a) : m = 0
      BY <1>7, <2>1 DEF DurableInvariant, NothingSaved
    <3>2. \A m \in Recent(a) : m \in ToSet(saved[a])
      BY <1>5
    <3>3. \A m \in ToSet(saved[a]) : m \in Numbers
      BY <1>1, SeqToSet DEF TypeOK
    <3> QED  BY <3>1, <3>2, <3>3, NumbersAreNatural
  <2>3. \A b \in Adapters : b # a => Recent(b)' = Recent(b)
    BY <1>2 DEF Recent
  <2>4. \A m \in Recent(a)' : m = n
    BY <1>2, <1>3, <2>2 DEF Recent
  <2> QED  BY <1>2, <1>4, <1>7, <2>1, <2>3, <2>4 DEF NothingSaved, Released, DurableInvariant
<1>8. ReleaseIsEvidenced' /\ (Released' => \A b \in Adapters : release'.values[b] \in DOMAIN sent'[b])
  BY <1>4 DEF DurableInvariant, ReleaseIsEvidenced, Released, SameSnapshot
<1>9. \A b \in Adapters : ToSet(saved'[b]) \subseteq DOMAIN sent'[b]
  BY <1>4 DEF DurableInvariant
<1> QED  BY <1>1, <1>4, <1>6, <1>7, <1>8, <1>9 DEF DurableInvariant, Recent

LEMMA PersistKeepsDurable ==
    ASSUME DurableInvariant, Persist
    PROVE  DurableInvariant'
<1>1. ResidentInvariant' /\ TypeOK
  BY ResidentNext DEF Next, DurableInvariant, ResidentInvariant, TableInvariant
<1> DEFINE n == mem[saving].last
           old == Remaining[saving]
<1>2. /\ saving \in Adapters /\ saving' = NoAdapter
      /\ disk' = mem /\ UNCHANGED <<sent, mem, reader, release>>
      /\ saved' = [Remaining EXCEPT ![saving] = Append(old, n)] /\ unread' = FALSE
  BY <1>1 DEF Persist, LockFree, TypeOK
<1>11. Remaining = IF unread THEN [b \in Adapters |-> <<>>] ELSE saved
  BY DEF Remaining
<1>12. Remaining \in [Adapters -> Seq(Numbers)] /\ (~unread => Remaining = saved)
       /\ \A b \in Adapters : ToSet(Remaining[b]) \subseteq ToSet(saved[b])
  <2>1. <<>> \in Seq(Numbers) /\ ToSet(<<>>) = {}
    BY DEF ToSet
  <2> QED  BY <1>1, <1>11, <2>1 DEF TypeOK
<1>3. old \in Seq(Numbers) /\ n \in Numbers
  <2>1. old \in Seq(Numbers)
    BY <1>2, <1>12
  <2>2. n \in Numbers
    BY <1>1, <1>2
    DEF TypeOK, Evidence, DurableInvariant, ResidentInvariant, TableInvariant, SavingNew, Numbers
  <2> QED  BY <2>1, <2>2
<1>4. ToSet(Append(old, n)) = ToSet(old) \cup {n}
  <2>1. /\ Len(old) \in Nat /\ DOMAIN old = 1..Len(old)
        /\ DOMAIN Append(old, n) = 1..(Len(old) + 1)
        /\ \A i \in 1..Len(old) : Append(old, n)[i] = old[i]
        /\ Append(old, n)[Len(old) + 1] = n
    BY <1>3, AppendProperties, LenProperties
  <2>2. \A i \in 1..(Len(old) + 1) : i \in 1..Len(old) \/ i = Len(old) + 1
    BY <2>1
  <2>3. 1..Len(old) \subseteq 1..(Len(old) + 1) /\ Len(old) + 1 \in 1..(Len(old) + 1)
    BY <2>1
  <2> HIDE DEF old, n
  <2> QED  BY <2>1, <2>2, <2>3 DEF ToSet
<1> HIDE DEF old, n
<1>5. \A b \in Adapters : ToSet(saved'[b]) =
         IF b = saving THEN ToSet(Remaining[b]) \cup {mem[b].last} ELSE ToSet(Remaining[b])
  BY <1>2, <1>4, <1>12 DEF old, n
<1>6. ASSUME NEW b \in Adapters
      PROVE  ToSet(mem[b].recent) \subseteq ToSet(saved'[b])
  <2>1. CASE unread
    <3>1. CASE b = saving
      BY <1>5, <2>1, <3>1 DEF DurableInvariant, NothingSaved, Recent
    <3>2. CASE b # saving
      <4>1. mem[b].last = 0 /\ \A m \in Recent(b) : m = 0
        BY <2>1, <3>2 DEF DurableInvariant, NothingSaved
      <4>2. mem[b].recent \in Seq(Numbers)
        BY <1>1 DEF TypeOK, Evidence
      <4>3. \A m \in ToSet(mem[b].recent) : m \in Numbers
        BY <4>2, SeqToSet
      <4> QED  BY <4>1, <4>3, NumbersAreNatural DEF Recent
    <3> QED  BY <3>1, <3>2
  <2>2. CASE ~unread
    BY <1>5, <1>12, <2>2 DEF DurableInvariant, Recent
  <2> QED  BY <2>1, <2>2
<1>7. ~unread => \A b \in Adapters : ToSet(saved[b]) \subseteq ToSet(saved'[b])
  BY <1>5, <1>12
<1>8. reader'.step = "passed" => \A b \in Adapters : reader'.cited[b] \in ToSet(saved'[b])
  BY <1>2, <1>7 DEF DurableInvariant, NothingSaved
<1>9. ReleaseIsEvidenced'
  <2> SUFFICES ASSUME Released, NEW b \in Adapters
               PROVE  /\ release.cited[b] \in ToSet(saved'[b])
                      /\ release.values[b] # 0
                      /\ \E m \in ToSet(saved'[b]) : SameSnapshot(b, m, release.values[b])
    BY <1>2 DEF ReleaseIsEvidenced, Released, SameSnapshot
  <2>1. ~unread
    BY DEF DurableInvariant, NothingSaved
  <2> QED  BY <1>7, <2>1 DEF DurableInvariant, ReleaseIsEvidenced
<1>10. \A b \in Adapters : ToSet(saved'[b]) \subseteq DOMAIN sent[b]
  <2> SUFFICES ASSUME NEW b \in Adapters, NEW m \in ToSet(saved'[b]) PROVE m \in DOMAIN sent[b]
    OBVIOUS
  <2>1. m \in ToSet(saved[b]) \/ (b = saving /\ m = n)
    BY <1>5, <1>12 DEF n
  <2>2. CASE m \in ToSet(saved[b])
    BY <2>2 DEF DurableInvariant
  <2>3. CASE b = saving /\ m = n
    <3>1. Table(sent[b], mem[b])
      BY DEF DurableInvariant, ResidentInvariant, TableInvariant, TablesHold
    <3>2. mem[b].last # 0 /\ m = mem[b].last
      BY <2>3 DEF DurableInvariant, ResidentInvariant, TableInvariant, SavingNew, n
    <3> QED  BY <3>1, <3>2 DEF Table, ToSet
  <2> QED  BY <2>1, <2>2, <2>3
<1>13. Released' => \A b \in Adapters : release'.values[b] \in DOMAIN sent'[b]
  BY <1>2 DEF DurableInvariant, Released
<1> QED  BY <1>1, <1>2, <1>6, <1>8, <1>9, <1>10, <1>13 DEF DurableInvariant, Recent

LEMMA ReaderKeepsDurable ==
    ASSUME DurableInvariant, PassGates \/ Release
    PROVE  DurableInvariant'
<1>1. ResidentInvariant' /\ TypeOK /\ reader \in Calls
  BY ResidentNext DEF Next, DurableInvariant, ResidentInvariant, TableInvariant
<1>2. LockFree /\ UNCHANGED sent /\ UNCHANGED store
  BY DEF PassGates, Release
<1>3. \A a \in Adapters : Recent(a) \subseteq ToSet(saved[a])
  BY <1>2, NamesAssumption DEF DurableInvariant, LockFree
<1>4. reader'.step = "passed" => \A a \in Adapters : reader'.cited[a] \in ToSet(saved[a])
  <2>1. CASE PassGates
    <3>1. \A a \in Adapters : reader'.cited[a] = mem[a].last
      BY <1>1, <2>1 DEF PassGates, Calls
    <3>2. \A a \in Adapters : mem[a].last \in Recent(a)
      BY <2>1 DEF PassGates, Ready, DurableInvariant, ResidentInvariant, TableInvariant,
         TablesHold, Table, Recent
    <3> QED  BY <1>3, <3>1, <3>2
  <2>2. CASE Release
    BY <2>2 DEF Release, Idle
  <2> QED  BY <2>1, <2>2
<1>5. \A a \in Adapters : ~unread
  <2>1. ASSUME unread, NEW a \in Adapters PROVE FALSE
    <3>1. mem[a].last = 0 /\ reader.step # "passed"
      BY <1>2, <2>1, NamesAssumption DEF DurableInvariant, NothingSaved, LockFree
    <3> QED  BY <2>1, <3>1 DEF PassGates, Ready, Release
  <2> QED  BY <2>1
<1>6. CASE PassGates
  <2>1. UNCHANGED release
    BY <1>6 DEF PassGates
  <2>2. UNCHANGED <<sent, saved, unread, mem, saving, disk>>
    BY <1>2 DEF store
  <2>3. ReleaseIsEvidenced' /\ (Released' => \A a \in Adapters : release'.values[a] \in DOMAIN sent'[a])
    BY <2>1, <2>2 DEF DurableInvariant, ReleaseIsEvidenced, Released, SameSnapshot
  <2>4. (unread => NothingSaved)'
    BY <1>5, <2>2 DEF NothingSaved
  <2> QED  BY <1>1, <1>4, <2>2, <2>3, <2>4 DEF DurableInvariant, Recent
<1>7. CASE Release
  <2>1. release' = [at |-> reader.at, cited |-> reader.cited, values |-> resident]
    BY <1>7 DEF Release
  <2>2. UNCHANGED <<sent, saved, unread, mem, saving, disk>>
    BY <1>2 DEF store
  <2>3. ASSUME NEW a \in Adapters
        PROVE  /\ reader.cited[a] \in ToSet(saved[a])
               /\ resident[a] # 0 /\ resident[a] \in DOMAIN sent[a]
               /\ \E n \in ToSet(saved[a]) : SameSnapshot(a, n, resident[a])
    <3>1. resident[a] # 0 /\ resident[a] \in DOMAIN sent[a] /\ SnapshotKnown(a, resident[a])
      BY <1>7 DEF Release, DurableInvariant, ResidentInvariant, ResidentIsRecorded
    <3> QED  BY <1>3, <1>7, <3>1 DEF Release, DurableInvariant, SnapshotKnown
  <2>4. ReleaseIsEvidenced' /\ (Released' => \A a \in Adapters : release'.values[a] \in DOMAIN sent'[a])
    BY <2>1, <2>2, <2>3 DEF ReleaseIsEvidenced, SameSnapshot
  <2>5. (unread => NothingSaved)'
    BY <1>5, <2>2 DEF NothingSaved
  <2> QED  BY <1>1, <1>4, <2>2, <2>4, <2>5 DEF DurableInvariant, Recent
<1> QED  BY <1>6, <1>7

LEMMA CrashKeepsDurable ==
    ASSUME DurableInvariant, Crash
    PROVE  DurableInvariant'
<1>1. ResidentInvariant' /\ TypeOK
  BY ResidentNext DEF Next, DurableInvariant, ResidentInvariant, TableInvariant
<1>2. /\ UNCHANGED <<sent, disk, saved>>
      /\ reader'.step = "idle"
      /\ release' = NoRelease
      /\ unread' \in BOOLEAN
  BY DEF Crash, Idle, ReadFails
<1>3. ASSUME NEW a \in Adapters
      PROVE  IF unread' THEN mem'[a] = NoEvidence
                        ELSE ToSet(mem'[a].recent) = ToSet(disk[a].recent)
  <2>1. mem'[a] = Loaded(a, unread')
    BY DEF Crash
  <2>2. disk[a] \in Evidence /\ sent \in [Adapters -> Seq(Envelope)] /\ Table(sent[a], disk[a])
    BY <1>1 DEF DurableInvariant, ResidentInvariant, TableInvariant, TypeOK, TablesHold
  <2> QED  BY <1>2, <2>1, <2>2, LoadedIsTable
<1>4. NoEvidence.last = 0 /\ ToSet(NoEvidence.recent) = {}
  BY DEF NoEvidence, ToSet
<1>5. \A a \in Adapters : ToSet(mem'[a].recent) \subseteq ToSet(saved'[a])
  BY <1>2, <1>3, <1>4 DEF DurableInvariant
<1>6. unread' => NothingSaved'
  BY <1>2, <1>3, <1>4 DEF NothingSaved, Recent, Released
<1>7. ~Released'
  BY <1>2 DEF Released, NoRelease
<1> QED  BY <1>1, <1>2, <1>5, <1>6, <1>7 DEF DurableInvariant, Recent, ReleaseIsEvidenced

LEMMA SendKeepsDurable ==
    ASSUME DurableInvariant, NEW a \in Adapters, Send(a)
    PROVE  DurableInvariant'
<1>1. ResidentInvariant' /\ TypeOK
  BY ResidentNext DEF Next, DurableInvariant, ResidentInvariant, TableInvariant
<1>2. UNCHANGED <<reader, release, mem, disk, saving, unread, saved>>
  BY DEF Send, store
<1>3. \A b \in Adapters : \A n \in DOMAIN sent[b] : n \in DOMAIN sent'[b] /\ sent'[b][n] = sent[b][n]
  BY <1>1, SendExtends
<1>4. \A b \in Adapters : ToSet(saved[b]) \subseteq DOMAIN sent'[b]
  BY <1>3 DEF DurableInvariant
<1>5. Released => \A b \in Adapters : release.values[b] \in DOMAIN sent'[b]
  BY <1>3 DEF DurableInvariant
<1>6. ReleaseIsEvidenced'
  <2> SUFFICES ASSUME Released, NEW b \in Adapters
               PROVE  /\ release.cited[b] \in ToSet(saved[b])
                      /\ release.values[b] # 0
                      /\ \E n \in ToSet(saved[b]) : SameSnapshot(b, n, release.values[b])'
    BY <1>2 DEF ReleaseIsEvidenced, Released, SameSnapshot
  <2>1. PICK n \in ToSet(saved[b]) : SameSnapshot(b, n, release.values[b])
    BY DEF DurableInvariant, ReleaseIsEvidenced
  <2>2. n \in DOMAIN sent[b] /\ release.values[b] \in DOMAIN sent[b]
    BY DEF DurableInvariant
  <2>3. SameSnapshot(b, n, release.values[b])'
    BY <1>2, <1>3, <2>1, <2>2 DEF SameSnapshot
  <2> QED  BY <2>3 DEF DurableInvariant, ReleaseIsEvidenced
<1>7. (unread => NothingSaved)'
  BY <1>2 DEF DurableInvariant, NothingSaved, Recent, Released
<1> QED  BY <1>1, <1>2, <1>4, <1>5, <1>6, <1>7 DEF DurableInvariant, Recent, Released

LEMMA DurableNext ==
    ASSUME WritesSucceed, DurableInvariant, [Next]_vars
    PROVE  DurableInvariant'
<1>1. CASE \E a \in Adapters, n \in Numbers : Accept(a, n)
  BY <1>1, AcceptKeepsDurable
<1>2. CASE Persist
  BY <1>2, PersistKeepsDurable
<1>3. CASE PassGates \/ Release
  BY <1>3, ReaderKeepsDurable
<1>4. CASE Crash
  BY <1>4, CrashKeepsDurable
<1>7. CASE \E a \in Adapters : Send(a)
  BY <1>7, SendKeepsDurable
<1>5. CASE /\ UNCHANGED <<sent, mem, disk, saving, unread, saved, release>>
           /\ reader' = reader \/ reader'.step # "passed"
  <2>1. ResidentInvariant'
    BY ResidentNext DEF DurableInvariant
  <2>2. ReleaseIsEvidenced' /\ (Released' => \A a \in Adapters : release'.values[a] \in DOMAIN sent'[a])
    BY <1>5 DEF DurableInvariant, ReleaseIsEvidenced, Released, SameSnapshot
  <2>3. (unread => NothingSaved)'
    BY <1>5 DEF DurableInvariant, NothingSaved, Recent, Released
  <2> QED  BY <1>5, <2>1, <2>2, <2>3 DEF DurableInvariant, Recent
<1>6. ReadClock => reader'.step # "passed"
  BY DEF ReadClock, DurableInvariant, ResidentInvariant, TableInvariant, Calls
<1> QED
  BY <1>1, <1>2, <1>3, <1>4, <1>5, <1>6, <1>7 DEF Next, Ingest, vars, store, Tick, Validate,
     Replay, Reject, PersistFails, ReadClock, Block, Idle, WritesSucceed

(* Released values, and the evidence cited for them, were made durable, as *)
(* long as the state file can be written: whatever restarts between two    *)
(* steps, and however deliveries interleave with shadow_snapshot().        *)
THEOREM ReleasedIsEvidenced ==
    ASSUME WritesSucceed
    PROVE  Spec => []ReleaseIsEvidenced
<1>1. DurableInvariant /\ [Next]_vars => DurableInvariant'
  BY DurableNext
<1>2. DurableInvariant => ReleaseIsEvidenced
  BY DEF DurableInvariant
<1> QED  BY <1>1, <1>2, DurableInitially, PTL DEF Spec

=============================================================================
