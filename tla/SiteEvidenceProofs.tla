-------------------------- MODULE SiteEvidenceProofs --------------------------
(* What TLAPS proves of the evaluators of a site's evidence, for all keys,   *)
(* trust stores and numbers of edits.  Each of the ten services has an       *)
(* invariant of its own (CaInvariant, ScInvariant, ...) with the lemmas that *)
(* it holds initially, that its steps keep it and that it is sound; the last *)
(* part puts them together for a deployment.                                 *)
EXTENDS MCSiteEvidence, SequenceTheorems, FiniteSetTheorems, TLAPS

-----------------------------------------------------------------------------
(* Packages that several sources sign, each a part of its own.             *)

Unsigned == [none |-> TRUE]

(* The n rows of the attestations have what a signer fills in.             *)
Rows(as, n) ==
    DOMAIN as = 1..n /\ \A i \in 1..n : {"domain", "key", "over"} \subseteq DOMAIN as[i]

(* What a row was signed over, a name and a payload, is what the owner of  *)
(* that name vouched for: own has the fields of each name, at the place of *)
(* a field in a payload.                                                   *)
PartsHold(as, n, content, own, at) ==
    \A i \in 1..n : as[i].over # Unsigned =>
        /\ as[i].over[1] \in DOMAIN own
        /\ \A f \in own[as[i].over[1]] :
            f \in DOMAIN content /\ as[i].over[2][at[f]] = content[f]

(* A row is signed under the name it has.                                  *)
Labelled(as, n) ==
    \A i \in 1..n : as[i].over # Unsigned => as[i].domain = as[i].over[1]
Apart(as, n) ==
    \A i, j \in 1..n : as[i].domain = as[j].domain => i = j

Signers(as, n, content, own, at) ==
    /\ Rows(as, n) /\ PartsHold(as, n, content, own, at)
    /\ Labelled(as, n) \/ ~Apart(as, n)

LEMMA SignedNotUnsigned == \A d, p : <<d, p>> # Unsigned
<1> TAKE d, p
<1>1. DOMAIN <<d, p>> = {1, 2}
  OBVIOUS
<1>2. DOMAIN Unsigned = {"none"}
  BY DEF Unsigned
<1> QED  BY <1>1, <1>2

(* As many people as there are different names.                            *)
LEMMA OneMore ==
    ASSUME NEW S, NEW n \in Nat, IsFiniteSet(S), Cardinality(S) = n, NEW x, x \notin S
    PROVE  IsFiniteSet(S \cup {x}) /\ Cardinality(S \cup {x}) = n + 1
BY FS_AddElement

LEMMA ThreeApart ==
    ASSUME NEW a, NEW b, NEW c, b # a, c \notin {a, b}
    PROVE  IsFiniteSet({a, b, c}) /\ Cardinality({a, b, c}) = 3
<1> DEFINE A == {a}
           B == A \cup {b}
           C == B \cup {c}
<1>1. C = {a, b, c} /\ b \notin A /\ c \notin B
  OBVIOUS
<1>2. IsFiniteSet(A) /\ Cardinality(A) = 1
  BY FS_Singleton
<1> HIDE DEF A
<1>3. IsFiniteSet(B) /\ Cardinality(B) = 2
  <2>1. IsFiniteSet(B) /\ Cardinality(B) = 1 + 1
    BY <1>1, <1>2, OneMore
  <2> QED  BY <2>1
<1> HIDE DEF B
<1>4. IsFiniteSet(C) /\ Cardinality(C) = 3
  <2>1. IsFiniteSet(C) /\ Cardinality(C) = 2 + 1
    BY <1>1, <1>3, OneMore
  <2> QED  BY <2>1
<1> HIDE DEF C
<1> QED  BY <1>1, <1>4

LEMMA FiveApart ==
    ASSUME NEW a, NEW b, NEW c, NEW d, NEW e, b # a, c \notin {a, b}, d \notin {a, b, c}, e \notin {a, b, c, d}
    PROVE  Cardinality({a, b, c, d, e}) = 5
<1> DEFINE C == {a, b, c}
           D == C \cup {d}
           E == D \cup {e}
<1>1. E = {a, b, c, d, e} /\ d \notin C /\ e \notin D
  OBVIOUS
<1>2. IsFiniteSet(C) /\ Cardinality(C) = 3
  BY ThreeApart
<1> HIDE DEF C
<1>3. IsFiniteSet(D) /\ Cardinality(D) = 4
  <2>1. IsFiniteSet(D) /\ Cardinality(D) = 3 + 1
    BY <1>1, <1>2, OneMore
  <2> QED  BY <2>1
<1> HIDE DEF D
<1>4. Cardinality(E) = 5
  <2>1. Cardinality(E) = 4 + 1
    BY <1>1, <1>3, OneMore
  <2> QED  BY <2>1
<1> HIDE DEF E
<1> QED  BY <1>1, <1>4

(* A list of n rows.                                                       *)
Listed(s, n) == s = [i \in 1..n |-> s[i]]

LEMMA ListedSeq ==
    ASSUME NEW s, NEW n \in Nat, Listed(s, n)
    PROVE  /\ s \in Seq({s[i] : i \in 1..n}) /\ Len(s) = n
           /\ s # <<>> <=> n > 0
           /\ s # <<>> => 1 \in 1..n
<1> DEFINE S == {s[i] : i \in 1..n}
<1>1. DOMAIN s = 1..n /\ s \in [1..n -> S]
  BY DEF Listed
<1> HIDE DEF S
<1>2. s \in Seq(S)
  BY <1>1
<1>3. Len(s) = n
  BY <1>1, <1>2, LenProperties
<1>4. s # <<>> => Len(s) \in Nat \ {0}
  BY <1>2, EmptySeq
<1>5. Len(<<>>) = 0
  OBVIOUS
<1> QED  BY <1>2, <1>3, <1>4, <1>5 DEF S

LEMMA ListedAppend ==
    ASSUME NEW s, NEW n \in Nat, Listed(s, n), NEW x
    PROVE  Listed(Append(s, x), n + 1)
<1> DEFINE S == {s[i] : i \in 1..n} \cup {x}
           t == Append(s, x)
<1>1. s \in Seq({s[i] : i \in 1..n}) /\ Len(s) = n
  BY ListedSeq
<1>2. s \in Seq(S) /\ x \in S
  BY <1>1
<1> HIDE DEF S
<1>3. t \in Seq(S) /\ Len(t) = Len(s) + 1
  BY <1>2, AppendProperties, Zenon
<1> HIDE DEF t
<1>4. DOMAIN t = 1..(n + 1) /\ t \in [1..(n + 1) -> S]
  BY <1>1, <1>3, LenProperties
<1> QED  BY <1>4 DEF Listed, t

(* Rows that nobody signed yet.                                            *)
LEMMA UnsignedRows ==
    ASSUME NEW as, NEW n \in Nat, Rows(as, n), \A i \in 1..n : as[i].over = Unsigned,
           NEW content, NEW own, NEW at
    PROVE  Signers(as, n, content, own, at)
BY DEF Signers, PartsHold, Labelled

(* An edit leaves the signatures where they are; if it renames a row, then *)
(* to the name of another.                                                 *)
LEMMA EditedRows ==
    ASSUME NEW as, NEW n \in Nat, NEW content, NEW own, NEW at, Signers(as, n, content, own, at),
           NEW bs, Rows(bs, n), \A i \in 1..n : bs[i].over = as[i].over,
           (\A i \in 1..n : bs[i].domain = as[i].domain) \/ ~Apart(bs, n)
    PROVE  Signers(bs, n, content, own, at)
<1>1. PartsHold(bs, n, content, own, at)
  BY Zenon DEF Signers, PartsHold
<1>2. CASE ~Apart(bs, n)
  BY <1>1, <1>2 DEF Signers
<1>3. CASE \A i \in 1..n : bs[i].domain = as[i].domain
  <2>1. CASE Labelled(as, n)
    <3>1. Labelled(bs, n)
      BY <1>3, <2>1 DEF Labelled
    <3> QED  BY <1>1, <3>1 DEF Signers
  <2>2. CASE ~Apart(as, n)
    <3>1. ~Apart(bs, n)
      BY <1>3, <2>2 DEF Apart
    <3> QED  BY <1>1, <3>1 DEF Signers
  <2> QED  BY <2>1, <2>2 DEF Signers
<1> QED  BY <1>2, <1>3

LEMMA EditedRow ==
    ASSUME NEW as, NEW n \in Nat, NEW content, NEW own, NEW at, Signers(as, n, content, own, at),
           NEW i \in 1..n, NEW row, DOMAIN row = DOMAIN as[i], row.over = as[i].over,
           row.domain = as[i].domain \/ \E j \in 1..n : j # i /\ row.domain = as[j].domain
    PROVE  Signers([as EXCEPT ![i] = row], n, content, own, at)
<1> DEFINE bs == [as EXCEPT ![i] = row]
<1>1. Rows(as, n)
  BY DEF Signers
<1>2. /\ DOMAIN bs = 1..n /\ bs[i] = row
      /\ \A j \in 1..n : j # i => bs[j] = as[j]
  BY <1>1 DEF Rows
<1> HIDE DEF bs
<1>3. Rows(bs, n) /\ \A j \in 1..n : bs[j].over = as[j].over
  BY <1>1, <1>2 DEF Rows
<1>4. row.domain = as[i].domain => \A j \in 1..n : bs[j].domain = as[j].domain
  BY <1>2
<1>5. (\E j \in 1..n : j # i /\ row.domain = as[j].domain) => ~Apart(bs, n)
  BY <1>2 DEF Apart
<1>6. Signers(bs, n, content, own, at)
  BY <1>3, <1>4, <1>5, EditedRows
<1> QED  BY <1>6 DEF bs

(* What the edits of the packages do to the attestations: some row is no   *)
(* longer live, has another date or takes the name of the next row.        *)
Retouched(e, r, observed) ==
    /\ DOMAIN e = DOMAIN r
    /\ \/ e.attestations = r.attestations
       \/ e = [r EXCEPT !.attestations[1].live = FALSE]
       \/ e = [r EXCEPT !.attestations[2].observed = observed]
       \/ e = [r EXCEPT !.attestations[3].domain = r.attestations[4].domain]

LEMMA EditedPackage ==
    ASSUME NEW r, "attestations" \in DOMAIN r, NEW n \in Nat, n >= 4, NEW content, NEW own, NEW at,
           Signers(r.attestations, n, content, own, at),
           NEW e, NEW observed, Retouched(e, r, observed)
    PROVE  "attestations" \in DOMAIN e /\ Signers(e.attestations, n, content, own, at)
<1> DEFINE as == r.attestations
<1>1. Rows(as, n)
  BY DEF Signers
<1>2. \/ e.attestations = as
      \/ e.attestations = [as EXCEPT ![1] = [as[1] EXCEPT !.live = FALSE]]
      \/ e.attestations = [as EXCEPT ![2] = [as[2] EXCEPT !.observed = observed]]
      \/ e.attestations = [as EXCEPT ![3] = [as[3] EXCEPT !.domain = as[4].domain]]
  BY DEF Retouched
<1> HIDE DEF as
<1>3. Signers(as, n, content, own, at)
  BY DEF as
<1>4. Signers([as EXCEPT ![1] = [as[1] EXCEPT !.live = FALSE]], n, content, own, at)
  <2> DEFINE row == [as[1] EXCEPT !.live = FALSE]
  <2>1. 1 \in 1..n /\ DOMAIN row = DOMAIN as[1] /\ row.over = as[1].over /\ row.domain = as[1].domain
    BY <1>1 DEF Rows
  <2> HIDE DEF row
  <2>2. Signers([as EXCEPT ![1] = row], n, content, own, at)
    BY <1>3, <2>1, EditedRow
  <2> QED  BY <2>2 DEF row
<1>5. Signers([as EXCEPT ![2] = [as[2] EXCEPT !.observed = observed]], n, content, own, at)
  <2> DEFINE row == [as[2] EXCEPT !.observed = observed]
  <2>1. 2 \in 1..n /\ DOMAIN row = DOMAIN as[2] /\ row.over = as[2].over /\ row.domain = as[2].domain
    BY <1>1 DEF Rows
  <2> HIDE DEF row
  <2>2. Signers([as EXCEPT ![2] = row], n, content, own, at)
    BY <1>3, <2>1, EditedRow
  <2> QED  BY <2>2 DEF row
<1>6. Signers([as EXCEPT ![3] = [as[3] EXCEPT !.domain = as[4].domain]], n, content, own, at)
  <2> DEFINE row == [as[3] EXCEPT !.domain = as[4].domain]
  <2>1. /\ 3 \in 1..n /\ 4 \in 1..n /\ DOMAIN row = DOMAIN as[3] /\ row.over = as[3].over
        /\ row.domain = as[4].domain
    BY <1>1 DEF Rows
  <2> HIDE DEF row
  <2>2. \E j \in 1..n : j # 3 /\ row.domain = as[j].domain
    <3>1. 4 \in 1..n /\ 4 # 3 /\ row.domain = as[4].domain
      BY <2>1
    <3> WITNESS 4 \in 1..n
    <3> QED  BY <3>1
  <2>3. Signers([as EXCEPT ![3] = row], n, content, own, at)
    BY <1>3, <2>1, <2>2, EditedRow
  <2> QED  BY <2>3 DEF row
<1>7. Signers(e.attestations, n, content, own, at)
  BY <1>2, <1>3, <1>4, <1>5, <1>6
<1> QED  BY <1>7 DEF Retouched

(* Each field has its place in the payload of its owner.                   *)
Placed(own, at, domains, pay, r) ==
    \A d \in domains : \A f \in own[d] : pay[d][at[f]] = r[f]
OwnersApart(own) ==
    \A d, e \in DOMAIN own : d # e => own[d] \cap own[e] = {}

(* The rows bs are those of as, those of some domains signed again.        *)
Resigned(as, bs, n, domains, pay) ==
    /\ Rows(bs, n) /\ \A i \in 1..n : bs[i].domain = as[i].domain
    /\ \A i \in 1..n : as[i].domain \in domains => bs[i].over = <<as[i].domain, pay[as[i].domain]>>
    /\ \A i \in 1..n : as[i].domain \notin domains => bs[i].over = as[i].over

(* The owners of these fields vouch for what they are now.                 *)
Vouched(content, own, domains, r, next) ==
    LET fields == UNION {own[d] : d \in domains}
    IN  next = [f \in fields \cup DOMAIN content |-> IF f \in fields THEN r[f] ELSE content[f]]

(* The sources of some domains sign what the package has now.              *)
LEMMA SignedRows ==
    ASSUME NEW as, NEW n \in Nat, NEW content, NEW own, NEW at, Signers(as, n, content, own, at),
           Apart(as, n),
           OwnersApart(own), NEW domains, domains \subseteq DOMAIN own,
           NEW r, NEW pay, Placed(own, at, domains, pay, r),
           NEW bs, Resigned(as, bs, n, domains, pay),
           NEW next, Vouched(content, own, domains, r, next)
    PROVE  Signers(bs, n, next, own, at)
<1>1. Labelled(as, n)
  BY DEF Signers
<1> DEFINE fields == UNION {own[d] : d \in domains}
<1>0. next = [f \in fields \cup DOMAIN content |-> IF f \in fields THEN r[f] ELSE content[f]]
  BY DEF Vouched
<1>a. \A f : f \in fields <=> \E d \in domains : f \in own[d]
  OBVIOUS
<1> HIDE DEF fields
<1>2. \A f \in fields : f \in DOMAIN next /\ next[f] = r[f]
  BY <1>0
<1>3. \A f \in DOMAIN content : f \notin fields => f \in DOMAIN next /\ next[f] = content[f]
  BY <1>0
<1>b. /\ Rows(bs, n) /\ \A i \in 1..n : bs[i].domain = as[i].domain
      /\ \A i \in 1..n : as[i].domain \in domains => bs[i].over = <<as[i].domain, pay[as[i].domain]>>
      /\ \A i \in 1..n : as[i].domain \notin domains => bs[i].over = as[i].over
  BY DEF Resigned
<1>4. ASSUME NEW i \in 1..n, bs[i].over # Unsigned
      PROVE  /\ bs[i].domain = bs[i].over[1] /\ bs[i].over[1] \in DOMAIN own
             /\ \A f \in own[bs[i].over[1]] : f \in DOMAIN next /\ bs[i].over[2][at[f]] = next[f]
  <2>1. CASE as[i].domain \in domains
    <3>1. bs[i].over = <<as[i].domain, pay[as[i].domain]>> /\ bs[i].domain = as[i].domain
      BY <1>b, <2>1
    <3>2. bs[i].over[1] = as[i].domain /\ bs[i].over[2] = pay[as[i].domain]
      BY <3>1
    <3>3. \A f \in own[as[i].domain] : f \in fields /\ pay[as[i].domain][at[f]] = r[f]
      BY <1>a, <2>1 DEF Placed
    <3> QED  BY <1>2, <2>1, <3>1, <3>2, <3>3
  <2>2. CASE as[i].domain \notin domains
    <3>1. bs[i].over = as[i].over /\ bs[i].domain = as[i].domain
      BY <1>b, <2>2
    <3>2. /\ as[i].domain = as[i].over[1] /\ as[i].over[1] \in DOMAIN own
          /\ \A f \in own[as[i].over[1]] : f \in DOMAIN content /\ as[i].over[2][at[f]] = content[f]
      BY <1>1, <1>4, <3>1 DEF Labelled, Signers, PartsHold
    <3>3. \A f \in own[as[i].domain] : f \notin fields
      <4>1. \A d \in domains : d \in DOMAIN own /\ d # as[i].domain
        BY <2>2
      <4>2. \A d \in domains : own[d] \cap own[as[i].domain] = {}
        BY <3>2, <4>1 DEF OwnersApart
      <4> QED  BY <1>a, <4>2
    <3> QED  BY <1>3, <3>1, <3>2, <3>3
  <2> QED  BY <2>1, <2>2
<1> QED  BY <1>4, <1>b DEF Signers, Labelled, PartsHold

(* Each of the names has a row over the payload it has now.                *)
Attested(as, n, own, pay) ==
    \A d \in DOMAIN own : \E i \in 1..n : as[i].over = <<d, pay[d]>>

(* What is signed now was vouched for.                                     *)
LEMMA SignedParts ==
    ASSUME NEW as, NEW n \in Nat, NEW content, NEW own, NEW at, PartsHold(as, n, content, own, at),
           NEW r, NEW pay, Placed(own, at, DOMAIN own, pay, r),
           Attested(as, n, own, pay)
    PROVE  \A d \in DOMAIN own : \A f \in own[d] : f \in DOMAIN content /\ content[f] = r[f]
<1> TAKE d \in DOMAIN own
<1>1. PICK i \in 1..n : as[i].over = <<d, pay[d]>>
  BY DEF Attested
<1>2. as[i].over # Unsigned /\ as[i].over[1] = d /\ as[i].over[2] = pay[d]
  BY <1>1, SignedNotUnsigned
<1>3. \A f \in own[as[i].over[1]] : f \in DOMAIN content /\ as[i].over[2][at[f]] = content[f]
  BY <1>2 DEF PartsHold
<1>4. \A f \in own[d] : pay[d][at[f]] = r[f]
  BY DEF Placed
<1> QED  BY <1>2, <1>3, <1>4

(* The dates and the terms that freshness is judged by.                    *)
Dated(r) ==
    /\ {"at", "policy", "attestations"} \subseteq DOMAIN r /\ {"age", "alignment"} \subseteq DOMAIN r.policy
    /\ r.at \in Int /\ r.policy.age \in Nat /\ r.policy.alignment \in Nat
Terms(policy) ==
    {"age", "alignment"} \subseteq DOMAIN policy /\ policy.age \in Nat /\ policy.alignment \in Nat

LEMMA TermsKept ==
    ASSUME NEW p, Terms(p)
    PROVE  /\ \A f, x : f \notin {"age", "alignment"} => Terms([p EXCEPT ![f] = x])
           /\ \A x \in Nat : Terms([p EXCEPT !.age = x])
BY DEF Terms

(* Rows that were observed just now and signed by a key of the deployment. *)
FreshRows(as, n, names, now, pay) ==
    /\ DOMAIN as = 1..n
    /\ \A i \in 1..n : /\ as[i].domain = names[i] /\ as[i].key = "k1" /\ as[i].live /\ as[i].observed = now
                       /\ as[i].over = <<names[i], pay[names[i]]>>

TrustedRows(as, n, names, now, pay, age, alignment) ==
           /\ \A i, j \in DOMAIN as : as[i].domain = as[j].domain => i = j
           /\ {a.domain : a \in {as[i] : i \in DOMAIN as}} = {names[i] : i \in 1..n}
           /\ \A a \in {as[i] : i \in DOMAIN as} : a.key \in Trusted /\ a.over = <<a.domain, pay[a.domain]>>
           /\ \A a, b \in {as[i] : i \in DOMAIN as} :
                a.live /\ 0 <= now - a.observed /\ now - a.observed <= age /\ a.observed - b.observed <= alignment
LEMMA FreshTrusted ==
    ASSUME NEW as, NEW n \in Nat, NEW names, NEW now \in Int, NEW pay, FreshRows(as, n, names, now, pay),
           \A i, j \in 1..n : names[i] = names[j] => i = j,
           "k1" \in Trusted, NEW age \in Nat, NEW alignment \in Nat
    PROVE  TrustedRows(as, n, names, now, pay, age, alignment)
<1>1. DOMAIN as = 1..n
  BY DEF FreshRows
<1>2. \A i \in 1..n : as[i].domain = names[i]
  BY DEF FreshRows
<1>3. \A i, j \in DOMAIN as : as[i].domain = as[j].domain => i = j
  BY <1>1, <1>2
<1>4. {a.domain : a \in {as[i] : i \in DOMAIN as}} = {names[i] : i \in 1..n}
  <2>1. ASSUME NEW d \in {a.domain : a \in {as[i] : i \in DOMAIN as}} PROVE d \in {names[i] : i \in 1..n}
    <3>1. PICK a \in {as[i] : i \in DOMAIN as} : d = a.domain
      OBVIOUS
    <3>2. PICK i \in DOMAIN as : a = as[i]
      OBVIOUS
    <3> QED  BY <1>1, <1>2, <3>1, <3>2
  <2>2. ASSUME NEW i \in 1..n PROVE names[i] \in {a.domain : a \in {as[j] : j \in DOMAIN as}}
    <3>1. as[i] \in {as[j] : j \in DOMAIN as} /\ names[i] = as[i].domain
      BY <1>1, <1>2
    <3> QED  BY <3>1
  <2> QED  BY <2>1, <2>2
<1>5. ASSUME NEW a \in {as[i] : i \in DOMAIN as}
      PROVE  /\ a.key \in Trusted /\ a.over = <<a.domain, pay[a.domain]>>
             /\ a.live /\ a.observed = now
  <2>1. PICK i \in 1..n : a = as[i]
    BY <1>1
  <2>2. as[i].domain = names[i] /\ as[i].key = "k1" /\ as[i].over = <<names[i], pay[names[i]]>>
    BY DEF FreshRows
  <2>3. as[i].live /\ as[i].observed = now
    BY DEF FreshRows
  <2> QED  BY <2>1, <2>2, <2>3, Zenon
<1>7. 0 <= now - now /\ now - now <= age /\ now - now <= alignment
  OBVIOUS
<1>8. ASSUME NEW a \in {as[i] : i \in DOMAIN as}, NEW b \in {as[i] : i \in DOMAIN as}
      PROVE  a.live /\ 0 <= now - a.observed /\ now - a.observed <= age /\ a.observed - b.observed <= alignment
  BY <1>5, <1>7
<1> QED  BY <1>3, <1>4, <1>5, <1>8 DEF TrustedRows

(* What n rows name is as many things as n, or fewer if one is named twice.  *)
LEMMA Counted ==
    ASSUME NEW n \in Nat, NEW f, f = [i \in 1..n |-> f[i]]
    PROVE  LET S == {f[i] : i \in 1..n}
           IN  /\ IsFiniteSet(S) /\ Cardinality(S) \in Nat /\ Cardinality(S) <= n
               /\ Cardinality(S) = n <=> f \in Injection(1..n, S)
<1> DEFINE S == {f[i] : i \in 1..n}
<1>1. f \in Surjection(1..n, S)
  <2>1. f \in [1..n -> S] /\ \A x \in S : \E i \in 1..n : f[i] = x
    OBVIOUS
  <2> HIDE DEF S
  <2> QED  BY <2>1 DEF Surjection
<1>2. IsFiniteSet(1..n) /\ Cardinality(1..n) = n
  BY FS_Interval
<1> HIDE DEF S
<1>3. /\ IsFiniteSet(S) /\ Cardinality(S) <= n
      /\ Cardinality(S) = n <=> f \in Injection(1..n, S)
  BY <1>1, <1>2, FS_Surjection
<1>4. Cardinality(S) \in Nat
  BY <1>3, FS_CardinalityType
<1> QED  BY <1>3, <1>4 DEF S

LEMMA CountedOnce ==
    ASSUME NEW n \in Nat, NEW f, f = [i \in 1..n |-> f[i]], \A i, j \in 1..n : f[i] = f[j] => i = j
    PROVE  Cardinality({f[i] : i \in 1..n}) = n
<1> DEFINE S == {f[i] : i \in 1..n}
<1>1. f \in Injection(1..n, S)
  <2>1. f \in [1..n -> S]
    OBVIOUS
  <2> HIDE DEF S
  <2> QED  BY <2>1 DEF Injection, IsInjective
<1>2. Cardinality(S) = n <=> f \in Injection(1..n, S)
  BY Counted
<1> QED  BY <1>1, <1>2 DEF S

-----------------------------------------------------------------------------
(* Measurement and verification.                                           *)

(* Fields that a package has, and the numbers that its dates are.          *)
MvShape(r) ==
    /\ {"review", "start", "end", "baseline"} \subseteq DOMAIN r
    /\ {"by", "frozen"} \subseteq DOMAIN r.baseline
    /\ r.start \in Int /\ r.end \in Int /\ r.baseline.frozen \in Int
    /\ r.review # MV!None => {"at", "over"} \subseteq DOMAIN r.review /\ r.review.at \in Int

MvFields ==
    {"boundary", "plan", "baseline", "start", "end", "intervals", "calibrations", "invoice", "adjustments", "review"}

(* The reviewer that a calculation waits for approved nothing of it.       *)
MvNamed(x) == "by" \in DOMAIN x /\ x.by # "stranger"
MvNames(r) ==
    /\ MvNamed(r.plan) /\ MvNamed(r.boundary) /\ MvNamed(r.baseline)
    /\ \A i \in DOMAIN r.adjustments : MvNamed(r.adjustments[i])

(* What a signature is over was vouched for.                               *)
MvOver(r, content) ==
    r.review # MV!None /\ r.review.over # MV!None =>
        \A f \in DOMAIN r.review.over \ {"review"} :
            content # MV!None /\ f \in DOMAIN content /\ content[f] = r.review.over[f]

MvInvariant ==
    /\ MvShape(request) /\ request.start < request.end
    /\ DOMAIN request = MvFields /\ MvNames(request)
    /\ MvOver(request, vouched)
    /\ vouched # MV!None => DOMAIN vouched = DOMAIN request \ {"review"}
    /\ edits \in 0..PackageEdits
    /\ report = MV!DefaultReport \/ report = MV!Report(request)

(* What an edit makes of the dates and of the review.                      *)
LEMMA MvEdits ==
    ASSUME NEW r, MvShape(r), NEW e \in MV!Edited(r), NEW content, MvOver(r, content)
    PROVE  DOMAIN e = DOMAIN r /\ MvShape(e) /\ MvOver(e, content)
<1> DEFINE R == r.review
<1>1. CASE e \in MV!EditedMeters(r)
  <2>1. DOMAIN e = DOMAIN r
    BY <1>1, ZenonT(60) DEF MV!EditedMeters
  <2>2. e.review = r.review
    BY <1>1, ZenonT(60) DEF MV!EditedMeters, MvShape
  <2>3. e.start = r.start /\ e.end = r.end /\ e.baseline = r.baseline
    BY <1>1, ZenonT(60) DEF MV!EditedMeters, MvShape
  <2> QED  BY <2>1, <2>2, <2>3 DEF MvShape, MvOver
<1>2. CASE e \in MV!EditedRecords(r)
  <2>1. DOMAIN e = DOMAIN r
    BY <1>2, ZenonT(60) DEF MV!EditedRecords
  <2>2. e.review = r.review
    BY <1>2, ZenonT(60) DEF MV!EditedRecords, MvShape
  <2>3. e.start = r.start \/ e.start = 8
    BY <1>2, ZenonT(60) DEF MV!EditedRecords, MvShape
  <2>5. e.end = r.end \/ e.end = 13
    BY <1>2, ZenonT(60) DEF MV!EditedRecords, MvShape
  <2>4. DOMAIN e.baseline = DOMAIN r.baseline
        /\ (e.baseline.frozen = r.baseline.frozen \/ e.baseline.frozen = 11)
    <3>1. CASE e.baseline = r.baseline
      BY <3>1
    <3>2. CASE e.baseline # r.baseline
      BY <1>2, <3>2, ZenonT(60) DEF MV!EditedRecords, MvShape
    <3> QED  BY <3>1, <3>2
  <2> QED  BY <2>1, <2>2, <2>3, <2>4, <2>5 DEF MvShape, MvOver
<1>3. CASE e \in MV!EditedReview(r)
  <2>1. CASE r.review = MV!None
    <3>1. e = [r EXCEPT !.review = MV!Review]
      BY <1>3, <2>1 DEF MV!EditedReview
    <3>2. DOMAIN e = DOMAIN r /\ e.review = MV!Review /\ e.start = r.start /\ e.end = r.end
          /\ e.baseline = r.baseline
      BY <3>1 DEF MvShape
    <3>3. MV!Review.over = MV!None /\ MV!Review.at \in Int /\ {"at", "over"} \subseteq DOMAIN MV!Review
      BY DEF MV!Review
    <3> QED  BY <3>2, <3>3 DEF MvShape, MvOver
  <2>2. CASE r.review # MV!None
    <3>1. /\ DOMAIN e = DOMAIN r /\ e.start = r.start /\ e.end = r.end /\ e.baseline = r.baseline
          /\ e.review = MV!None \/ (/\ DOMAIN e.review = DOMAIN r.review
                                    /\ e.review.over = r.review.over
                                    /\ e.review.at \in {r.review.at, 13})
      BY <1>3, <2>2 DEF MV!EditedReview, MvShape
    <3> QED  BY <2>2, <3>1 DEF MvShape, MvOver
  <2> QED  BY <2>1, <2>2
<1> QED  BY <1>1, <1>2, <1>3 DEF MV!Edited

(* No edit brings the stranger in.                                         *)
LEMMA MvNameEdits ==
    ASSUME NEW r, {"plan", "boundary", "baseline", "adjustments", "review"} \subseteq DOMAIN r, MvNames(r),
           NEW e \in MV!Edited(r)
    PROVE  MvNames(e)
<1> DEFINE plan == r.plan
           boundary == r.boundary
           baseline == r.baseline
           as == r.adjustments
<1>1. /\ e.plan = plan \/ \E f, x : f # "by" /\ e.plan = [plan EXCEPT ![f] = x]
      /\ e.boundary = boundary \/ \E f, x : f # "by" /\ e.boundary = [boundary EXCEPT ![f] = x]
      /\ \/ e.baseline = baseline
         \/ \E f, x : f # "by" /\ e.baseline = [baseline EXCEPT ![f] = x]
         \/ e.baseline = [baseline EXCEPT !.by = "reviewer"]
      /\ \/ e.adjustments = as \/ e.adjustments = <<>>
         \/ e.adjustments = [as EXCEPT ![1] = [as[1] EXCEPT !.approved = FALSE]]
         \/ e.adjustments = [as EXCEPT ![1] = [as[1] EXCEPT !.by = "reviewer"]]
  <2>1. CASE e \in MV!EditedMeters(r)
    <3>1. e.baseline = baseline /\ e.adjustments = as
      BY <2>1, ZenonT(60) DEF MV!EditedMeters
    <3>2. e.plan = plan \/ e.plan = [plan EXCEPT !.expected = 5]
      BY <2>1, ZenonT(60) DEF MV!EditedMeters
    <3>3. \/ e.boundary = boundary \/ e.boundary = [boundary EXCEPT !.meters = <<"rev">>]
          \/ e.boundary = [boundary EXCEPT !.meters = <<"rev", "sub", "new">>]
      BY <2>1, ZenonT(60) DEF MV!EditedMeters
    <3> HIDE DEF plan, boundary, baseline, as
    <3> QED  BY <3>1, <3>2, <3>3
  <2>2. CASE e \in MV!EditedRecords(r)
    <3>1. e.boundary = boundary
      BY <2>2, ZenonT(60) DEF MV!EditedRecords
    <3>2. e.plan = plan \/ e.plan = [plan EXCEPT !.coverage = 100] \/ e.plan = [plan EXCEPT !.estimated = 0]
      BY <2>2, ZenonT(60) DEF MV!EditedRecords
    <3>3. \/ e.baseline = baseline \/ e.baseline = [baseline EXCEPT !.frozen = 11]
          \/ e.baseline = [baseline EXCEPT !.end = 11] \/ e.baseline = [baseline EXCEPT !.rmse = 12]
          \/ e.baseline = [baseline EXCEPT !.nmbe = -3] \/ e.baseline = [baseline EXCEPT !.by = "reviewer"]
      BY <2>2, ZenonT(60) DEF MV!EditedRecords
    <3>4. \/ e.adjustments = as \/ e.adjustments = <<>>
          \/ e.adjustments = [as EXCEPT ![1] = [as[1] EXCEPT !.approved = FALSE]]
          \/ e.adjustments = [as EXCEPT ![1] = [as[1] EXCEPT !.by = "reviewer"]]
      BY <2>2, ZenonT(60) DEF MV!EditedRecords
    <3> HIDE DEF plan, boundary, baseline, as
    <3> QED  BY <3>1, <3>2, <3>3, <3>4
  <2>3. CASE e \in MV!EditedReview(r)
    BY <2>3 DEF MV!EditedReview
  <2> QED  BY <2>1, <2>2, <2>3 DEF MV!Edited
<1>2. MvNamed(plan) /\ MvNamed(boundary) /\ MvNamed(baseline) /\ \A i \in DOMAIN as : MvNamed(as[i])
  BY DEF MvNames
<1> HIDE DEF plan, boundary, baseline, as
<1>3. \A x, f, v : MvNamed(x) /\ f # "by" => MvNamed([x EXCEPT ![f] = v])
  BY DEF MvNamed
<1>4. \A x : MvNamed(x) => MvNamed([x EXCEPT !.by = "reviewer"])
  BY DEF MvNamed
<1>5. MvNamed(e.plan) /\ MvNamed(e.boundary) /\ MvNamed(e.baseline)
  <2>0. \A y, x : MvNamed(x) /\ (\E f, v : f # "by" /\ y = [x EXCEPT ![f] = v]) => MvNamed(y)
    BY DEF MvNamed
  <2>1. MvNamed(e.plan)
    BY <1>1, <1>2, <2>0
  <2>2. MvNamed(e.boundary)
    BY <1>1, <1>2, <2>0
  <2>3. MvNamed(e.baseline)
    <3>1. CASE e.baseline = baseline
      BY <1>2, <3>1
    <3>2. CASE e.baseline = [baseline EXCEPT !.by = "reviewer"]
      BY <1>2, <1>4, <3>2
    <3>3. CASE \E f, x : f # "by" /\ e.baseline = [baseline EXCEPT ![f] = x]
      BY <1>2, <2>0, <3>3
    <3> QED  BY <1>1, <3>1, <3>2, <3>3
  <2> QED  BY <2>1, <2>2, <2>3
<1>6. \A i \in DOMAIN e.adjustments : MvNamed(e.adjustments[i])
  <2>1. \A row : MvNamed(row) => \A i \in DOMAIN [as EXCEPT ![1] = row] : MvNamed([as EXCEPT ![1] = row][i])
    BY <1>2
  <2>2. 1 \in DOMAIN as => MvNamed([as[1] EXCEPT !.approved = FALSE]) /\ MvNamed([as[1] EXCEPT !.by = "reviewer"])
    BY <1>2, <1>3, <1>4
  <2>3. 1 \notin DOMAIN as => \A row : \A i \in DOMAIN [as EXCEPT ![1] = row] : MvNamed([as EXCEPT ![1] = row][i])
    BY <1>2
  <2>4. \A i \in DOMAIN <<>> : FALSE
    OBVIOUS
  <2> QED  BY <1>1, <1>2, <2>1, <2>2, <2>3, <2>4
<1> QED  BY <1>5, <1>6 DEF MvNames

LEMMA MvInitially ==
    ASSUME PackageEdits \in Nat, MV!Init PROVE MvInvariant
<1>1. /\ MV!Package.review = MV!Review /\ MV!Package.start = 10 /\ MV!Package.end = 14
      /\ MV!Package.baseline = MV!Baseline
      /\ {"review", "start", "end", "baseline"} \subseteq DOMAIN MV!Package
  BY DEF MV!Package
<1>2. /\ MV!Review.over = MV!None /\ MV!Review.at = 15 /\ {"at", "over"} \subseteq DOMAIN MV!Review
      /\ MV!Baseline.frozen = 9 /\ {"by", "frozen"} \subseteq DOMAIN MV!Baseline
  BY DEF MV!Review, MV!Baseline
<1>3. DOMAIN MV!Package = MvFields
  BY DEF MV!Package, MvFields
<1>4. MvNames(MV!Package)
  BY DEF MV!Package, MvNames, MvNamed, MV!Plan, MV!Boundary, MV!Baseline, MV!Adjustment
<1> QED  BY <1>1, <1>2, <1>3, <1>4 DEF MV!Init, MvInvariant, MvShape, MvOver

(* The reviewer signs all fields of the package.                           *)
LEMMA MvSigned ==
    ASSUME NEW r, MvShape(r), r.review # MV!None, NEW key
    PROVE  LET s == MV!Signed(r, key)
           IN  /\ DOMAIN s = DOMAIN r /\ MvShape(s) /\ s.start = r.start /\ s.end = r.end
               /\ DOMAIN s.review.over = DOMAIN r
               /\ \A f \in DOMAIN r \ {"review"} : s.review.over[f] = r[f] /\ s[f] = r[f]
<1> DEFINE keyed == [r EXCEPT !.review.key = key]
           content == MV!Content(keyed)
           s == MV!Signed(r, key)
<1>1. /\ DOMAIN keyed = DOMAIN r /\ "review" \in DOMAIN r
      /\ \A f \in DOMAIN r \ {"review"} : keyed[f] = r[f]
      /\ DOMAIN keyed.review = DOMAIN r.review /\ keyed.review.at = r.review.at
  BY DEF MvShape
<1> HIDE DEF keyed
<1>2. DOMAIN content = DOMAIN r /\ \A f \in DOMAIN r \ {"review"} : content[f] = r[f]
  BY <1>1 DEF MV!Content
<1> HIDE DEF content
<1>3. s = [keyed EXCEPT !.review.over = content]
  BY DEF MV!Signed, keyed, content
<1> HIDE DEF s
<1>4. /\ DOMAIN s = DOMAIN r /\ \A f \in DOMAIN r \ {"review"} : s[f] = r[f]
      /\ DOMAIN s.review = DOMAIN r.review
      /\ s.review.over = content /\ s.review.at = r.review.at
  BY <1>1, <1>3 DEF MvShape
<1> QED  BY <1>1, <1>2, <1>4 DEF MvShape, s

LEMMA MvNext ==
    ASSUME PackageEdits \in Nat, MvInvariant, MV!Next \/ UNCHANGED <<request, report, edits, vouched>>
    PROVE  MvInvariant'
<1>1. CASE MV!Edit
  <2>1. PICK r \in MV!Edited(request) : request' = r /\ r.start < r.end
    BY <1>1 DEF MV!Edit, MV!Valid
  <2>2. /\ DOMAIN request' = DOMAIN request /\ MvShape(request') /\ MvOver(request', vouched)
        /\ request'.start < request'.end
    BY <2>1, MvEdits DEF MvInvariant
  <2>4. MvNames(request')
    <3>1. {"plan", "boundary", "baseline", "adjustments", "review"} \subseteq DOMAIN request
      BY DEF MvInvariant, MvFields
    <3> QED  BY <2>1, <3>1, MvNameEdits DEF MvInvariant
  <2>3. /\ report' = MV!DefaultReport /\ vouched' = vouched /\ edits' \in 0..PackageEdits
    BY <1>1 DEF MV!Edit, MvInvariant
  <2> QED  BY <2>2, <2>3, <2>4 DEF MvInvariant, MvShape, MvOver
<1>2. CASE MV!Sign
  <2>1. PICK key : request' = MV!Signed(request, key)
    BY <1>2 DEF MV!Sign
  <2>2. /\ request.review # MV!None /\ vouched' = [f \in DOMAIN request \ {"review"} |-> request[f]]
        /\ report' = MV!DefaultReport /\ edits' = edits
    BY <1>2 DEF MV!Sign
  <2> DEFINE s == MV!Signed(request, key)
  <2>3. /\ DOMAIN s = DOMAIN request /\ MvShape(s) /\ s.start = request.start /\ s.end = request.end
        /\ DOMAIN s.review.over = DOMAIN request
        /\ \A f \in DOMAIN request \ {"review"} : s.review.over[f] = request[f] /\ s[f] = request[f]
    BY <2>2, MvSigned DEF MvInvariant
  <2> HIDE DEF s
  <2>4. request' = s
    BY <2>1 DEF s
  <2> DEFINE content == [f \in DOMAIN request \ {"review"} |-> request[f]]
  <2>5. content # MV!None
    <3>1. "start" \in DOMAIN content /\ "start" \notin DOMAIN MV!None
      BY DEF MvInvariant, MvShape, MV!None
    <3> QED  BY <3>1
  <2>6. MvOver(s, content)
    BY <2>3, <2>5 DEF MvOver
  <2>7. MvNames(s)
    <3>1. s.plan = request.plan /\ s.boundary = request.boundary /\ s.baseline = request.baseline
          /\ s.adjustments = request.adjustments
      BY <2>3 DEF MvInvariant, MvFields
    <3> QED  BY <3>1 DEF MvInvariant, MvNames
  <2> QED  BY <2>2, <2>3, <2>4, <2>6, <2>7 DEF MvInvariant, MvShape, MvOver
<1>3. CASE MV!Evaluate
  BY <1>3 DEF MV!Evaluate, MvInvariant, MvShape, MvOver, MvNames
<1>4. CASE UNCHANGED <<request, report, edits, vouched>>
  BY <1>4 DEF MvInvariant, MvShape, MvOver, MvNames
<1> QED  BY <1>1, <1>2, <1>3, <1>4 DEF MV!Next

LEMMA MvSound ==
    ASSUME MvInvariant
    PROVE  MV!TypeOK /\ MV!VerifiedAsReviewed /\ MV!ReviewerIsAStranger
<1>1. CASE report = MV!DefaultReport
  <2>1. report.status = "blocked" /\ report.savings = MV!None /\ report.verified = MV!None
    BY <1>1 DEF MV!DefaultReport
  <2> QED  BY <2>1 DEF MV!TypeOK, MV!VerifiedAsReviewed, MV!ReviewerIsAStranger, MvInvariant
<1>2. CASE report = MV!Report(request)
  <2> DEFINE gates == MV!Gates(request)
             passed == {g \in DOMAIN gates : gates[g]}
             ready == DOMAIN gates \ {"independent_verification"} \subseteq passed
             all == passed = DOMAIN gates
  <2>1. all => ready
    OBVIOUS
  <2>2. MV!Savings(request) # MV!None
    <3>1. "kwh" \in DOMAIN MV!Savings(request) /\ "kwh" \notin DOMAIN MV!None
      BY DEF MV!Savings, MV!None
    <3> QED  BY <3>1
  <2>3. all => MV!IndependentReady(request) /\ MV!BaselineReady(request)
    BY DEF MV!Gates
  <2> HIDE DEF gates, passed, ready, all
  <2>4. /\ report.status = IF all THEN "evidence_package_passed"
                           ELSE IF ready THEN "calculated_pending_independent_verification" ELSE "blocked"
        /\ report.savings = IF ready THEN MV!Savings(request) ELSE MV!None
        /\ report.verified = IF all THEN MV!Savings(request) ELSE MV!None
    BY <1>2 DEF MV!Report, gates, passed, ready, all
  <2>5. MV!TypeOK
    BY <2>1, <2>2, <2>4 DEF MV!TypeOK, MvInvariant
  <2>6. ASSUME report.verified # MV!None
        PROVE  /\ MV!IndependentReady(request) /\ MV!BaselineReady(request)
    BY <2>3, <2>4, <2>6
  <2>7. ASSUME report.verified # MV!None
        PROVE  vouched # MV!None /\ \A f \in DOMAIN vouched : vouched[f] = request[f]
    <3>1. request.review # MV!None /\ request.review.over = MV!Content(request)
      BY <2>6, <2>7 DEF MV!IndependentReady, MV!SignatureValid
    <3>2. /\ DOMAIN MV!Content(request) = DOMAIN request
          /\ \A f \in DOMAIN request \ {"review"} : MV!Content(request)[f] = request[f]
      BY DEF MV!Content
    <3>3. "start" \in DOMAIN request /\ "start" \notin DOMAIN MV!None
      BY DEF MvInvariant, MvShape, MV!None
    <3> QED  BY <3>1, <3>2, <3>3 DEF MvInvariant, MvOver
  <2>8. ASSUME report.verified # MV!None
        PROVE  /\ request.review.by \notin {request.plan.by, request.boundary.by, request.baseline.by}
               /\ \A i \in DOMAIN request.adjustments : request.adjustments[i].by # request.review.by
               /\ request.baseline.frozen < request.review.at /\ request.end <= request.review.at
    <3>1. request.review.by \notin MV!Principals(request) /\ request.end <= request.review.at
      BY <2>6, <2>8 DEF MV!IndependentReady
    <3>2. request.baseline.frozen < request.review.at
      <4>1. request.baseline.frozen <= request.start /\ request.review # MV!None
        BY <2>6, <2>8 DEF MV!BaselineReady, MV!IndependentReady, MV!SignatureValid
      <4> QED  BY <3>1, <4>1 DEF MvInvariant, MvShape
    <3> QED  BY <3>1, <3>2 DEF MV!Principals, MV!Range
  <2> QED  BY <2>5, <2>7, <2>8 DEF MV!VerifiedAsReviewed, MV!ReviewerIsAStranger
<1> QED  BY <1>1, <1>2 DEF MvInvariant

(* The gates of the calculation do not read the review.                    *)
LEMMA MvUnmoved ==
    ASSUME NEW r, NEW b, \A f \in MvFields \ {"review"} : b[f] = r[f]
    PROVE  /\ \A g \in DOMAIN MV!Gates(r) \ {"independent_verification"} : MV!Gates(b)[g] = MV!Gates(r)[g]
           /\ MV!Savings(b) = MV!Savings(r) /\ MV!Principals(b) = MV!Principals(r)
<1>1. /\ b.start = r.start /\ b.end = r.end /\ b.boundary = r.boundary /\ b.plan = r.plan
      /\ b.baseline = r.baseline /\ b.intervals = r.intervals /\ b.calibrations = r.calibrations
      /\ b.invoice = r.invoice /\ b.adjustments = r.adjustments
  BY DEF MvFields
<1>2. MV!Meters(b) = MV!Meters(r) /\ MV!NoOverlaps(b) = MV!NoOverlaps(r)
  BY <1>1 DEF MV!Meters, MV!NoOverlaps
<1>3. MV!Estimated(b) = MV!Estimated(r)
  BY <1>1 DEF MV!Estimated
<1>4. MV!CoverageReady(b) = MV!CoverageReady(r)
  BY <1>1, <1>2, <1>3 DEF MV!CoverageReady
<1>5. MV!BaselineReady(b) = MV!BaselineReady(r) /\ MV!QualityReady(b) = MV!QualityReady(r)
  BY <1>1 DEF MV!BaselineReady, MV!QualityReady
<1>6. MV!CalibrationReady(b) = MV!CalibrationReady(r)
  BY <1>1, <1>2 DEF MV!CalibrationReady
<1>7. MV!InvoiceReady(b) = MV!InvoiceReady(r)
  BY <1>1, <1>2 DEF MV!InvoiceReady
<1>8. MV!AdjustmentsReady(b) = MV!AdjustmentsReady(r) /\ MV!UncertaintyReady(b) = MV!UncertaintyReady(r)
  BY <1>1 DEF MV!AdjustmentsReady, MV!UncertaintyReady
<1>9. MV!Savings(b) = MV!Savings(r)
  BY <1>1 DEF MV!Savings
<1>10. MV!Principals(b) = MV!Principals(r)
  BY <1>1 DEF MV!Principals
<1>11. \A g \in DOMAIN MV!Gates(r) \ {"independent_verification"} : MV!Gates(b)[g] = MV!Gates(r)[g]
  <2>1. DOMAIN MV!Gates(r) \ {"independent_verification"}
        = {"approved_mv_plan", "measurement_boundary", "baseline_model", "interval_coverage", "meter_calibration",
           "invoice_reconciliation", "model_quality", "non_routine_adjustments", "uncertainty",
           "emission_factor_registry"}
    BY DEF MV!Gates
  <2>2. /\ MV!Gates(b).approved_mv_plan = MV!Gates(r).approved_mv_plan
        /\ MV!Gates(b).measurement_boundary = MV!Gates(r).measurement_boundary
        /\ MV!Gates(b).emission_factor_registry = MV!Gates(r).emission_factor_registry
    BY DEF MV!Gates
  <2>3. /\ MV!Gates(b).baseline_model = MV!Gates(r).baseline_model
        /\ MV!Gates(b).interval_coverage = MV!Gates(r).interval_coverage
        /\ MV!Gates(b).meter_calibration = MV!Gates(r).meter_calibration
        /\ MV!Gates(b).invoice_reconciliation = MV!Gates(r).invoice_reconciliation
        /\ MV!Gates(b).model_quality = MV!Gates(r).model_quality
        /\ MV!Gates(b).non_routine_adjustments = MV!Gates(r).non_routine_adjustments
        /\ MV!Gates(b).uncertainty = MV!Gates(r).uncertainty
    BY <1>4, <1>5, <1>6, <1>7, <1>8 DEF MV!Gates
  <2> QED  BY <2>1, <2>2, <2>3
<1> QED  BY <1>9, <1>10, <1>11

(* A stranger's review after the period is all that a calculation waits    *)
(* for.                                                                    *)
LEMMA MvPending ==
    ASSUME MvInvariant, "k1" \in Trusted
    PROVE  MV!PendingNeedsOnlyReviewer
<1> DEFINE r == request
           stranger == [MV!Review EXCEPT !.by = "stranger", !.at = r.end]
           reviewed == [r EXCEPT !.review = stranger]
           b == MV!Signed(reviewed, "k1")
           ready == \A g \in DOMAIN MV!Gates(r) \ {"independent_verification"} : MV!Gates(r)[g]
<1> SUFFICES ASSUME ready, report.savings = MV!Savings(r)
             PROVE  MV!Report(b).verified = report.savings
  BY DEF MV!PendingNeedsOnlyReviewer, MV!Report, MV!DefaultReport, MvInvariant
<1>1. /\ DOMAIN stranger = {"by", "independent", "at", "conclusion", "key", "over"}
      /\ stranger.by = "stranger" /\ stranger.at = r.end /\ stranger.independent
      /\ stranger.conclusion = "accepted" /\ stranger.over = MV!None
  BY DEF MV!Review
<1>2. DOMAIN r = MvFields /\ "review" \in DOMAIN r
  BY DEF MvInvariant, MvFields
<1> HIDE DEF stranger, ready
<1>3. /\ DOMAIN reviewed = DOMAIN r /\ reviewed.review = stranger
      /\ \A f \in DOMAIN r \ {"review"} : reviewed[f] = r[f]
  BY <1>2
<1> DEFINE signed == [stranger EXCEPT !.key = "k1"]
           keyed == [r EXCEPT !.review = signed]
           content == MV!Content(keyed)
<1>4. [reviewed EXCEPT !.review.key = "k1"] = keyed
  BY <1>2
<1>5. b = [keyed EXCEPT !.review.over = content]
  BY <1>4 DEF MV!Signed
<1>6. signed # MV!None /\ signed.over = MV!None /\ signed = [signed EXCEPT !.over = MV!None]
  BY <1>1 DEF MV!None
<1>7. content = keyed
  BY <1>2, <1>6 DEF MV!Content
<1> DEFINE seal == [signed EXCEPT !.over = keyed]
<1>8. b = [r EXCEPT !.review = seal]
  BY <1>2, <1>5, <1>7
<1>9. /\ seal # MV!None /\ seal.key = "k1" /\ seal.over = keyed /\ [seal EXCEPT !.over = MV!None] = signed
      /\ seal.by = "stranger" /\ seal.at = r.end /\ seal.independent /\ seal.conclusion = "accepted"
  BY <1>1, <1>6 DEF MV!None
<1> HIDE DEF seal, signed
<1>10. MV!Content([r EXCEPT !.review = seal]) = keyed
  BY <1>2, <1>9 DEF MV!Content
<1> HIDE DEF keyed, content, reviewed, b
<1>11. b.review = seal /\ \A f \in MvFields \ {"review"} : b[f] = r[f]
  BY <1>2, <1>8
<1>12. MV!SignatureValid(b)
  BY <1>8, <1>9, <1>10, <1>11 DEF MV!SignatureValid
<1>13. /\ \A g \in DOMAIN MV!Gates(r) \ {"independent_verification"} : MV!Gates(b)[g]
       /\ MV!Savings(b) = MV!Savings(r) /\ MV!Principals(b) = MV!Principals(r)
  BY <1>11, MvUnmoved DEF ready
<1>14. MV!IndependentReady(b)
  <2>1. "stranger" \notin MV!Principals(r)
    BY DEF MvInvariant, MvNames, MvNamed, MV!Principals, MV!Range
  <2>2. b.end = r.end /\ r.end <= r.end
    BY <1>11 DEF MvInvariant, MvShape, MvFields
  <2> QED  BY <1>9, <1>11, <1>12, <1>13, <2>1, <2>2 DEF MV!IndependentReady
<1>15. DOMAIN MV!Gates(b) = DOMAIN MV!Gates(r) /\ MV!Gates(b).independent_verification = MV!IndependentReady(b)
  BY Zenon DEF MV!Gates
<1>16. \A g \in DOMAIN MV!Gates(b) : MV!Gates(b)[g]
  BY <1>13, <1>14, <1>15
<1>17. MV!Report(b).verified = MV!Savings(b)
  BY <1>16 DEF MV!Report
<1> QED  BY <1>13, <1>17

-----------------------------------------------------------------------------
(* Cutover.                                                                *)

ScShape(r) ==
    /\ {"approvals", "modules"} \subseteq DOMAIN r
    /\ \E S : r.approvals \in Seq(S)
    /\ \A i \in DOMAIN r.approvals : "bound" \in DOMAIN r.approvals[i]

(* What an approval is bound to was vouched for.                           *)
ScBound(r, content) ==
    \A i \in DOMAIN r.approvals : r.approvals[i].bound # SC!None =>
        content = SC!Content(r.approvals[i].bound)

(* The rows of a package have the fields of modules and of approvals, and  *)
(* the figures that limits are set for are whole numbers.                  *)
ScTable(s, fields) == \E S : s \in Seq(S) /\ \A x \in S : fields \subseteq DOMAIN x
ScModuleFields == {"domain", "site", "tenant", "window", "cutoff", "observed", "mode", "verified", "conclusion",
             "exceptions", "key", "digest"}
ScApprovalFields == {"role", "decision", "at", "key", "bound"}
ScRows(r) ==
    /\ {"at", "policy", "operation", "modules", "approvals"} \subseteq DOMAIN r
    /\ ScTable(r.modules, ScModuleFields) /\ ScTable(r.approvals, ScApprovalFields)
ScTerms(p) ==
    /\ {"site", "shadowDays", "seasons", "balance", "bill", "rollback", "rpo", "rto"} \subseteq DOMAIN p
    /\ \A f \in {"shadowDays", "seasons", "balance", "bill", "rollback", "rpo", "rto"} : p[f] \in Int
ScOperation(o) ==
    /\ {"required", "ready", "snapshots", "releases", "meters", "calibrated", "balance", "bill",
        "shadowDays", "seasons", "scenarios", "gateway", "capabilities", "interlocks",
        "receipts", "fallback", "takeover", "rollbackDrill", "rollback", "restore", "rpo",
        "rto", "exercise", "severity1", "severity2", "trained", "benefit", "authorityOff"} \subseteq DOMAIN o
    /\ \A f \in {"required", "ready", "snapshots", "releases", "balance", "bill", "shadowDays",
                  "rollback", "rpo", "rto"} : o[f] \in Int
    /\ IsFiniteSet(o.seasons)
ScFigures(r) == ScTerms(r.policy) /\ ScOperation(r.operation)

ScInvariant ==
    /\ ScRows(request) /\ ScFigures(request) /\ ScShape(request) /\ ScBound(request, vouched.content)
    /\ edits \in 0..MaxEdits
    /\ report = SC!DefaultReport \/ report = SC!Report(request)

LEMMA ScEdits ==
    ASSUME NEW r, ScShape(r), NEW e \in SC!Edited(r), NEW content, ScBound(r, content)
    PROVE  ScShape(e) /\ ScBound(e, content)
<1>1. CASE e.approvals = r.approvals /\ DOMAIN e = DOMAIN r
  BY <1>1 DEF ScShape, ScBound
<1>2. CASE \E i \in DOMAIN r.approvals, f \in {"decision", "at"} : \E v : e = [r EXCEPT !.approvals[i][f] = v]
  <2>1. PICK i \in DOMAIN r.approvals, f \in {"decision", "at"} : \E v : e = [r EXCEPT !.approvals[i][f] = v]
    BY <1>2
  <2>2. /\ DOMAIN e = DOMAIN r /\ DOMAIN e.approvals = DOMAIN r.approvals
        /\ \A j \in DOMAIN r.approvals : /\ DOMAIN e.approvals[j] = DOMAIN r.approvals[j]
                                         /\ e.approvals[j].bound = r.approvals[j].bound
    BY <2>1 DEF ScShape
  <2>3. \E S : e.approvals \in Seq(S)
    <3>1. PICK S : r.approvals \in Seq(S)
      BY DEF ScShape
    <3>2. PICK a : e.approvals = [r.approvals EXCEPT ![i] = a]
      BY <2>1 DEF ScShape
    <3>3. [r.approvals EXCEPT ![i] = a] \in Seq(S \cup {a})
      BY <3>1
    <3> QED  BY <3>2, <3>3
  <2> QED  BY <2>2, <2>3 DEF ScShape, ScBound
<1>3. CASE \E i \in DOMAIN r.approvals : e = [r EXCEPT !.approvals = Append(r.approvals, r.approvals[i])]
  <2>1. PICK i \in DOMAIN r.approvals : e = [r EXCEPT !.approvals = Append(r.approvals, r.approvals[i])]
    BY <1>3
  <2>2. DOMAIN e = DOMAIN r /\ e.approvals = Append(r.approvals, r.approvals[i])
    BY <2>1 DEF ScShape
  <2>3. PICK S : r.approvals \in Seq(S)
    BY DEF ScShape
  <2>4. DOMAIN r.approvals = 1..Len(r.approvals) /\ Len(r.approvals) \in Nat /\ r.approvals[i] \in S
    BY <2>3, LenProperties, ElementOfSeq
  <2>5. /\ e.approvals \in Seq(S) /\ DOMAIN e.approvals = 1..(Len(r.approvals) + 1)
        /\ \A j \in 1..Len(r.approvals) : e.approvals[j] = r.approvals[j]
        /\ e.approvals[Len(r.approvals) + 1] = r.approvals[i]
    BY <2>2, <2>3, <2>4, AppendProperties, LenProperties
  <2>6. \A j \in DOMAIN e.approvals : \E k \in DOMAIN r.approvals : e.approvals[j] = r.approvals[k]
    BY <2>4, <2>5
  <2> QED  BY <2>2, <2>5, <2>6 DEF ScShape, ScBound
<1>4. \/ e.approvals = r.approvals /\ DOMAIN e = DOMAIN r
      \/ \E i \in DOMAIN r.approvals, f \in {"decision", "at"} : \E v : e = [r EXCEPT !.approvals[i][f] = v]
      \/ \E i \in DOMAIN r.approvals : e = [r EXCEPT !.approvals = Append(r.approvals, r.approvals[i])]
  <2>1. e \in { [r EXCEPT !.operation = o] : o \in SC!Worse(r.operation) } \cup SC!EditedModules(r) \cup SC!EditedApprovals(r) \cup { [r EXCEPT !.policy.rollback = 29], [r EXCEPT !.policy.site = "other"], [r EXCEPT !.at = 15] }
    BY DEF SC!Edited
  <2>2. CASE e \in { [r EXCEPT !.operation = o] : o \in SC!Worse(r.operation) }
    BY <2>2 DEF ScShape
  <2>3. CASE e \in SC!EditedModules(r)
    <3>0. PICK i \in DOMAIN r.modules :
             e \in { [r EXCEPT !.modules[i].site = "other"], [r EXCEPT !.modules[i].cutoff = 7],
              [r EXCEPT !.modules[i].cutoff = 8], [r EXCEPT !.modules[i].observed = 8],
              [r EXCEPT !.modules[i].mode = "production_shadow"],
              [r EXCEPT !.modules[i].exceptions = {"e"}], [r EXCEPT !.modules[i].verified = FALSE],
              [r EXCEPT !.modules = Append(@, r.modules[i])], [r EXCEPT !.modules = SubSeq(@, 1, i - 1) \o SubSeq(@, i + 1, Len(@))] }
      BY <2>3 DEF SC!EditedModules
    <3>1. DOMAIN e = DOMAIN r
      BY <3>0
    <3>2. e.approvals = r.approvals
      BY <2>3, SMTT(60) DEF ScShape, SC!EditedModules
    <3> QED  BY <3>1, <3>2
  <2>4. CASE e \in SC!EditedApprovals(r)
    BY <2>4 DEF SC!EditedApprovals
  <2>5. CASE e \in { [r EXCEPT !.policy.rollback = 29], [r EXCEPT !.policy.site = "other"], [r EXCEPT !.at = 15] }
    BY <2>5 DEF ScShape
  <2> QED  BY <2>1, <2>2, <2>3, <2>4, <2>5
<1> QED  BY <1>1, <1>2, <1>3, <1>4

(* A table stays one when a row is repeated, replaced or removed.          *)
LEMMA ScTables ==
    ASSUME NEW s, NEW fields, ScTable(s, fields), NEW i \in DOMAIN s
    PROVE  /\ ScTable(Append(s, s[i]), fields)
           /\ ScTable(SubSeq(s, 1, i - 1) \o SubSeq(s, i + 1, Len(s)), fields)
           /\ \A row : fields \subseteq DOMAIN row => ScTable([s EXCEPT ![i] = row], fields)
           /\ fields \subseteq DOMAIN s[i]
<1>1. PICK S : s \in Seq(S) /\ \A x \in S : fields \subseteq DOMAIN x
  BY DEF ScTable
<1>2. DOMAIN s = 1..Len(s) /\ Len(s) \in Nat /\ i \in 1..Len(s) /\ s[i] \in S
  BY <1>1, LenProperties, ElementOfSeq
<1>3. Append(s, s[i]) \in Seq(S)
  BY <1>1, <1>2, AppendProperties
<1>4. SubSeq(s, 1, i - 1) \in Seq(S) /\ SubSeq(s, i + 1, Len(s)) \in Seq(S)
  <2>1. \A j \in 1..Len(s) : s[j] \in S
    BY <1>1, <1>2, ElementOfSeq
  <2>2. /\ 1 \in Int /\ i - 1 \in Int /\ i + 1 \in Int /\ Len(s) \in Int
        /\ 1..i - 1 \subseteq 1..Len(s) /\ i + 1..Len(s) \subseteq 1..Len(s)
    BY <1>2
  <2>3. /\ \A j \in 1..i - 1 : s[j] \in S
        /\ \A j \in i + 1..Len(s) : s[j] \in S
    BY <2>1, <2>2
  <2> QED  BY <2>2, <2>3, SubSeqProperties, Zenon
<1>5. SubSeq(s, 1, i - 1) \o SubSeq(s, i + 1, Len(s)) \in Seq(S)
  BY <1>4, ConcatProperties
<1>6. ASSUME NEW row, fields \subseteq DOMAIN row PROVE ScTable([s EXCEPT ![i] = row], fields)
  <2>1. [s EXCEPT ![i] = row] \in Seq(S \cup {row})
    BY <1>1
  <2>2. \A x \in S \cup {row} : fields \subseteq DOMAIN x
    BY <1>1, <1>6
  <2> QED  BY <2>1, <2>2 DEF ScTable
<1> QED  BY <1>1, <1>2, <1>3, <1>5, <1>6 DEF ScTable

LEMMA ScEditRows ==
    ASSUME NEW r, ScRows(r), NEW e \in SC!Edited(r)
    PROVE  ScRows(e)
<1>1. {"at", "policy", "operation", "modules", "approvals"} \subseteq DOMAIN r
  BY DEF ScRows
<1>2. ScTable(r.modules, ScModuleFields) /\ ScTable(r.approvals, ScApprovalFields)
  BY DEF ScRows
<1>3. CASE e \in { [r EXCEPT !.operation = o] : o \in SC!Worse(r.operation) }
  BY <1>1, <1>2, <1>3 DEF ScRows
<1>4. CASE e \in SC!EditedModules(r)
  <2>1. PICK i \in DOMAIN r.modules :
            \/ e = [r EXCEPT !.modules[i].site = "other"] \/ e = [r EXCEPT !.modules[i].cutoff = 7]
            \/ e = [r EXCEPT !.modules[i].cutoff = 8] \/ e = [r EXCEPT !.modules[i].observed = 8]
            \/ e = [r EXCEPT !.modules[i].mode = "production_shadow"]
            \/ e = [r EXCEPT !.modules[i].exceptions = {"e"}] \/ e = [r EXCEPT !.modules[i].verified = FALSE]
            \/ e = [r EXCEPT !.modules = Append(@, r.modules[i])]
            \/ e = [r EXCEPT !.modules = SubSeq(@, 1, i - 1) \o SubSeq(@, i + 1, Len(@))]
    BY <1>4 DEF SC!EditedModules
  <2> DEFINE ms == r.modules
             Of(row) == DOMAIN row = DOMAIN ms[i] /\ e.modules = [ms EXCEPT ![i] = row]
  <2>2. DOMAIN e = DOMAIN r /\ e.approvals = r.approvals
    BY <1>1, <2>1
  <2>3. \/ \E row : Of(row)
        \/ e.modules = Append(ms, ms[i])
        \/ e.modules = SubSeq(ms, 1, i - 1) \o SubSeq(ms, i + 1, Len(ms))
    <3>1. \/ \E f, v : e = [r EXCEPT !.modules[i][f] = v]
          \/ e = [r EXCEPT !.modules = Append(@, r.modules[i])]
          \/ e = [r EXCEPT !.modules = SubSeq(@, 1, i - 1) \o SubSeq(@, i + 1, Len(@))]
      BY <2>1, Zenon
    <3>2. ASSUME NEW f, NEW v, e = [r EXCEPT !.modules[i][f] = v]
          PROVE  Of([ms[i] EXCEPT ![f] = v])
      BY <1>1, <3>2
    <3>3. CASE e = [r EXCEPT !.modules = Append(@, r.modules[i])]
      BY <1>1, <3>3
    <3>4. CASE e = [r EXCEPT !.modules = SubSeq(@, 1, i - 1) \o SubSeq(@, i + 1, Len(@))]
      BY <1>1, <3>4
    <3> HIDE DEF Of, ms
    <3> QED  BY <3>1, <3>2, <3>3, <3>4
  <2>4. ScTable(ms, ScModuleFields) /\ i \in DOMAIN ms
    BY <1>2
  <2> HIDE DEF ms
  <2>5. ScTable(e.modules, ScModuleFields)
    <3>1. ASSUME NEW row, Of(row) PROVE ScTable(e.modules, ScModuleFields)
      BY <2>4, <3>1, ScTables
    <3>2. CASE e.modules = Append(ms, ms[i])
      BY <2>4, <3>2, ScTables
    <3>3. CASE e.modules = SubSeq(ms, 1, i - 1) \o SubSeq(ms, i + 1, Len(ms))
      BY <2>4, <3>3, ScTables
    <3> HIDE DEF Of
    <3> QED  BY <2>3, <3>1, <3>2, <3>3
  <2> QED  BY <1>1, <1>2, <2>2, <2>5 DEF ScRows
<1>5. CASE e \in SC!EditedApprovals(r)
  <2>1. PICK i \in DOMAIN r.approvals :
            \/ \E f, v : e = [r EXCEPT !.approvals[i][f] = v]
            \/ e = [r EXCEPT !.approvals = Append(@, r.approvals[i])]
    BY <1>5 DEF SC!EditedApprovals
  <2> DEFINE as == r.approvals
             Of(row) == DOMAIN row = DOMAIN as[i] /\ e.approvals = [as EXCEPT ![i] = row]
  <2>2. DOMAIN e = DOMAIN r /\ e.modules = r.modules
    BY <1>1, <2>1
  <2>3. (\E row : Of(row)) \/ e.approvals = Append(as, as[i])
    <3>1. ASSUME NEW f, NEW v, e = [r EXCEPT !.approvals[i][f] = v]
          PROVE  Of([as[i] EXCEPT ![f] = v])
      BY <1>1, <3>1
    <3>2. CASE e = [r EXCEPT !.approvals = Append(@, r.approvals[i])]
      BY <1>1, <3>2
    <3> HIDE DEF Of, as
    <3> QED  BY <2>1, <3>1, <3>2
  <2>4. ScTable(as, ScApprovalFields) /\ i \in DOMAIN as
    BY <1>2
  <2> HIDE DEF as
  <2>5. ScTable(e.approvals, ScApprovalFields)
    <3>1. ASSUME NEW row, Of(row) PROVE ScTable(e.approvals, ScApprovalFields)
      <4>1. ScApprovalFields \subseteq DOMAIN row
        BY <2>4, <3>1, ScTables
      <4>2. ScTable([as EXCEPT ![i] = row], ScApprovalFields)
        BY <2>4, <4>1, ScTables, Zenon
      <4> QED  BY <3>1, <4>2
    <3>2. CASE e.approvals = Append(as, as[i])
      <4>1. ScTable(Append(as, as[i]), ScApprovalFields)
        BY <2>4, ScTables, Zenon
      <4> QED  BY <3>2, <4>1
    <3> HIDE DEF Of
    <3> QED  BY <2>3, <3>1, <3>2
  <2> QED  BY <1>1, <1>2, <2>2, <2>5 DEF ScRows
<1>6. CASE e \in { [r EXCEPT !.policy.rollback = 29], [r EXCEPT !.policy.site = "other"], [r EXCEPT !.at = 15] }
  BY <1>1, <1>2, <1>6 DEF ScRows
<1> QED  BY <1>3, <1>4, <1>5, <1>6 DEF SC!Edited

LEMMA ScEditFigures ==
    ASSUME NEW r, ScRows(r), ScFigures(r), NEW e \in SC!Edited(r)
    PROVE  ScFigures(e)
<1>1. {"at", "policy", "operation", "modules", "approvals"} \subseteq DOMAIN r
  BY DEF ScRows
<1>2. ScTerms(r.policy) /\ ScOperation(r.operation)
  BY DEF ScFigures
<1>3. CASE e \in { [r EXCEPT !.operation = o] : o \in SC!Worse(r.operation) }
  <2>1. PICK o \in SC!Worse(r.operation) : e = [r EXCEPT !.operation = o]
    BY <1>3
  <2>2. ScOperation(o)
    <3> DEFINE q == r.operation
               o1 == [q EXCEPT !.required = 5, !.ready = 5]
               o2 == [q EXCEPT !.ready = 5]
               o3 == [q EXCEPT !.snapshots = 999]
               o4 == [q EXCEPT !.releases = 99]
               o5 == [q EXCEPT !.meters = 99]
               o6 == [q EXCEPT !.calibrated = 99]
               o7 == [q EXCEPT !.balance = 11]
               o8 == [q EXCEPT !.bill = 6]
               o9 == [q EXCEPT !.shadowDays = 179]
               o10 == [q EXCEPT !.seasons = {"summer"}]
               o11 == [q EXCEPT !.scenarios = SC!Scenarios \ {"grid_derating"}]
               o12 == [q EXCEPT !.gateway = FALSE]
               o13 == [q EXCEPT !.receipts = 99]
               o14 == [q EXCEPT !.rollback = 31]
               o15 == [q EXCEPT !.rpo = 16]
               o16 == [q EXCEPT !.rto = 61]
               o17 == [q EXCEPT !.restore = FALSE]
               o18 == [q EXCEPT !.severity2 = 1]
               o19 == [q EXCEPT !.trained = 99]
               o20 == [q EXCEPT !.authorityOff = FALSE]
    <3>0. ScOperation(q)
      BY <1>2
    <3> HIDE DEF q
    <3>1. ScOperation(o1) /\ ScOperation(o2) /\ ScOperation(o3) /\ ScOperation(o4) /\ ScOperation(o5) /\ ScOperation(o6)
      BY <3>0 DEF ScOperation
    <3>7. ScOperation(o7) /\ ScOperation(o8) /\ ScOperation(o9)
      BY <3>0 DEF ScOperation
    <3>10. ScOperation(o10)
      BY <3>0, FS_Singleton DEF ScOperation
    <3>11. ScOperation(o11) /\ ScOperation(o12) /\ ScOperation(o13) /\ ScOperation(o14) /\ ScOperation(o15) /\ ScOperation(o16)
      BY <3>0 DEF ScOperation
    <3>17. ScOperation(o17) /\ ScOperation(o18) /\ ScOperation(o19) /\ ScOperation(o20)
      BY <3>0 DEF ScOperation
    <3>21. o \in {o1, o2, o3, o4, o5, o6, o7, o8, o9, o10, o11, o12, o13, o14, o15, o16, o17, o18, o19, o20}
      BY <2>1 DEF SC!Worse, q
    <3> HIDE DEF o1, o2, o3, o4, o5, o6, o7, o8, o9, o10, o11, o12, o13, o14, o15, o16, o17, o18, o19, o20
    <3> QED  BY <3>1, <3>7, <3>10, <3>11, <3>17, <3>21
  <2>3. e.operation = o /\ e.policy = r.policy
    BY <1>1, <2>1
  <2> QED  BY <1>2, <2>2, <2>3 DEF ScFigures
<1>4. CASE e \in SC!EditedModules(r) \cup SC!EditedApprovals(r) \cup {[r EXCEPT !.at = 15]}
  <2>1. e.operation = r.operation
    BY <1>1, <1>4 DEF SC!EditedModules, SC!EditedApprovals
  <2>2. e.policy = r.policy
    BY <1>1, <1>4 DEF SC!EditedModules, SC!EditedApprovals
  <2> QED  BY <1>2, <2>1, <2>2 DEF ScFigures
<1>5. CASE e \in { [r EXCEPT !.policy.rollback = 29], [r EXCEPT !.policy.site = "other"] }
  <2>1. e.operation = r.operation
        /\ e.policy \in {[r.policy EXCEPT !.rollback = 29], [r.policy EXCEPT !.site = "other"]}
    BY <1>1, <1>5
  <2>2. ScTerms([r.policy EXCEPT !.rollback = 29]) /\ ScTerms([r.policy EXCEPT !.site = "other"])
    BY <1>2 DEF ScTerms
  <2> QED  BY <1>2, <2>1, <2>2 DEF ScFigures
<1> QED  BY <1>3, <1>4, <1>5 DEF SC!Edited

(* Two of a kind, listed.                                                  *)
LEMMA TwoInOrder ==
    ASSUME NEW a, NEW b, a # b
    PROVE  LET s == SC!Listed({a, b}) IN DOMAIN s = 1..2 /\ s \in [1..2 -> {a, b}]
<1>1. SC!Cardinality({a, b}) = 2
  <2>1. IsFiniteSet({a}) /\ Cardinality({a}) = 1 /\ b \notin {a}
    BY FS_Singleton
  <2>2. Cardinality({a} \cup {b}) = 2
    BY <2>1, FS_AddElement
  <2>3. {a} \cup {b} = {a, b}
    OBVIOUS
  <2> QED  BY <2>2, <2>3 DEF SC!Cardinality, Cardinality
<1>2. SC!Bijection(1..2, {a, b}) # {} /\ SC!Bijection(1..2, {a, b}) \subseteq [1..2 -> {a, b}]
  <2> DEFINE f == [i \in 1..2 |-> IF i = 1 THEN a ELSE b]
  <2>1. f \in [1..2 -> {a, b}] /\ f[1] = a /\ f[2] = b
    OBVIOUS
  <2>2. SC!IsInjective(f)
    BY <2>1 DEF SC!IsInjective
  <2>3. f \in SC!Bijection(1..2, {a, b})
    BY <2>1, <2>2 DEF SC!Bijection, SC!Injection, SC!Surjection
  <2> QED  BY <2>3 DEF SC!Bijection, SC!Injection
<1> QED  BY <1>1, <1>2 DEF SC!Listed

LEMMA ScInitially ==
    ASSUME MaxEdits \in Nat, SC!Init PROVE ScInvariant
<1> DEFINE S == {"port_owner", "independent_verifier"}
           roles == SC!Listed(S)
           approvals == [i \in DOMAIN roles |-> SC!Approval(roles[i])]
<1>1. request.approvals = approvals /\ {"approvals", "modules"} \subseteq DOMAIN request
  BY DEF SC!Init, SC!Package
<1>2. \A x : SC!Approval(x).bound = SC!None /\ "bound" \in DOMAIN SC!Approval(x)
  BY DEF SC!Approval
<1>3. ScBound(request, vouched.content)
  BY <1>1, <1>2 DEF ScBound
<1>4. DOMAIN roles = 1..2
  BY TwoInOrder
<1>5. \E T : approvals \in Seq(T)
  <2>1. approvals \in Seq({SC!Approval(roles[i]) : i \in 1..2})
    BY <1>4
  <2> QED BY <2>1
<1> HIDE DEF approvals
<1>6. ScRows(request)
  <2> DEFINE D == {"live_port_data", "long_horizon_shadow"}
             domains == SC!Listed(D)
             modules == [i \in DOMAIN domains |-> SC!Evidence(domains[i])]
  <2>1. /\ request.modules = modules
        /\ {"at", "policy", "operation", "modules", "approvals"} \subseteq DOMAIN request
    BY DEF SC!Init, SC!Package
  <2>2. \A x : ScModuleFields \subseteq DOMAIN SC!Evidence(x) /\ ScApprovalFields \subseteq DOMAIN SC!Approval(x)
    BY DEF SC!Evidence, SC!Approval, ScModuleFields, ScApprovalFields
  <2>3. DOMAIN domains = 1..2
    BY TwoInOrder
  <2> HIDE DEF domains, roles
  <2>4. modules \in Seq({SC!Evidence(domains[i]) : i \in 1..2})
    BY <2>3
  <2>5. approvals \in Seq({SC!Approval(roles[i]) : i \in 1..2})
    BY <1>4 DEF approvals
  <2>6. ScTable(modules, ScModuleFields) /\ ScTable(approvals, ScApprovalFields)
    <3> HIDE DEF modules
    <3> QED  BY <2>2, <2>4, <2>5 DEF ScTable
  <2> QED  BY <1>1, <2>1, <2>6 DEF ScRows
<1>7. ScFigures(request)
  <2>1. request.policy = SC!Policy /\ request.operation = SC!Operation
    BY DEF SC!Init, SC!Package
  <2>2. ScTerms(SC!Policy)
    BY DEF ScTerms, SC!Policy
  <2>3. IsFiniteSet({"summer", "winter"})
    <3>1. IsFiniteSet({"summer"} \cup {"winter"})
      BY FS_Singleton, FS_AddElement
    <3>2. {"summer"} \cup {"winter"} = {"summer", "winter"}
      OBVIOUS
    <3> QED  BY <3>1, <3>2
  <2>4. ScOperation(SC!Operation)
    BY <2>3 DEF ScOperation, SC!Operation
  <2> QED  BY <2>1, <2>2, <2>4 DEF ScFigures
<1> QED  BY <1>1, <1>2, <1>3, <1>5, <1>6, <1>7 DEF SC!Init, ScInvariant, ScShape, approvals
(* A package whose modules are ms, without digests.                        *)
ScStamped(r, ms) == [r EXCEPT !.modules = [i \in DOMAIN ms |-> SC!Payload(ms[i])]]

(* Approvals do not matter to what is vouched for.                         *)
LEMMA ScContent ==
    ASSUME NEW r, ScShape(r), NEW as
    PROVE  /\ SC!Content(SC!Subject(r)) = SC!Content(r)
           /\ SC!Content([r EXCEPT !.approvals = as]) = SC!Content(r)
<1> DEFINE u == SC!Subject(r)
           s == [r EXCEPT !.approvals = as]
<1>1. u = [r EXCEPT !.approvals = <<>>] /\ s = [r EXCEPT !.approvals = as]
  BY DEF SC!Subject
<1> HIDE DEF u, s
<1>2. /\ u.modules = r.modules /\ [u EXCEPT !.approvals = <<>>] = [r EXCEPT !.approvals = <<>>]
      /\ s.modules = r.modules /\ [s EXCEPT !.approvals = <<>>] = [r EXCEPT !.approvals = <<>>]
  BY <1>1 DEF ScShape
<1>3. \A x : SC!Content(x) = ScStamped([x EXCEPT !.approvals = <<>>], x.modules)
  BY Zenon DEF SC!Content, ScStamped
<1>4. SC!Content(u) = SC!Content(r) /\ SC!Content(s) = SC!Content(r)
  BY <1>2, <1>3
<1> QED  BY <1>4 DEF u, s

LEMMA ScSigned ==
    ASSUME NEW r, ScShape(r), NEW keyOf
    PROVE  LET s == SC!Signed(r, keyOf) IN ScShape(s) /\ ScBound(s, SC!Content(s))
<1> DEFINE modules == [i \in DOMAIN r.modules |->
                          LET m == [r.modules[i] EXCEPT !.key = keyOf[r.modules[i].domain]]
                          IN  [m EXCEPT !.digest = SC!Payload(m)]]
           t == [r EXCEPT !.modules = modules]
           approvals == [i \in DOMAIN r.approvals |->
                            [r.approvals[i] EXCEPT !.key = keyOf[r.approvals[i].role], !.bound = SC!Subject(t)]]
           s == [t EXCEPT !.approvals = approvals]
<1>1. s = SC!Signed(r, keyOf)
  BY DEF SC!Signed
<1> HIDE DEF modules
<1>2. DOMAIN t = DOMAIN r /\ t.approvals = r.approvals
  BY DEF ScShape
<1>3. /\ DOMAIN approvals = DOMAIN r.approvals
      /\ \A i \in DOMAIN r.approvals : /\ "bound" \in DOMAIN approvals[i]
                                       /\ approvals[i].bound = SC!Subject(t)
  BY DEF ScShape
<1>4. \E S : approvals \in Seq(S)
  <2>1. approvals \in Seq({approvals[i] : i \in DOMAIN approvals})
    <3>1. PICK S : r.approvals \in Seq(S)
      BY DEF ScShape
    <3>2. DOMAIN r.approvals = 1..Len(r.approvals) /\ Len(r.approvals) \in Nat
      BY <3>1, LenProperties
    <3> HIDE DEF approvals
    <3>3. DOMAIN approvals = 1..Len(r.approvals)
      BY <1>3, <3>2
    <3>4. approvals = [i \in 1..Len(r.approvals) |-> approvals[i]]
      <4>1. approvals = [i \in DOMAIN approvals |-> approvals[i]]
        BY DEF approvals
      <4> QED  BY <3>3, <4>1
    <3> QED  BY <3>2, <3>3, <3>4
  <2> QED  BY <2>1
<1>5. DOMAIN s = DOMAIN r /\ s.approvals = approvals
  BY <1>2 DEF ScShape
<1>6. SC!Content(SC!Subject(t)) = SC!Content(s)
  <2>1. ScShape(t)
    BY <1>2 DEF ScShape
  <2> HIDE DEF t, approvals
  <2> QED  BY <2>1, ScContent
<1>7. ScBound(s, SC!Content(s))
  BY <1>3, <1>5, <1>6 DEF ScBound
<1> QED  BY <1>1, <1>3, <1>4, <1>5, <1>7 DEF ScShape

(* A list of the rows of another, some fields of which are new.            *)
LEMMA ScRowsOf ==
    ASSUME NEW s, NEW fields, ScTable(s, fields), NEW t, DOMAIN t = DOMAIN s, t = [i \in DOMAIN s |-> t[i]],
           \A i \in DOMAIN s : DOMAIN t[i] = DOMAIN s[i]
    PROVE  ScTable(t, fields) /\ Len(t) = Len(s)
<1>1. PICK S : s \in Seq(S) /\ \A x \in S : fields \subseteq DOMAIN x
  BY DEF ScTable
<1>2. DOMAIN s = 1..Len(s) /\ Len(s) \in Nat /\ \A i \in 1..Len(s) : s[i] \in S
  BY <1>1, LenProperties, ElementOfSeq
<1> DEFINE T == {t[i] : i \in 1..Len(s)}
<1>3. t \in [1..Len(s) -> T]
  BY <1>2
<1>4. \A x \in T : fields \subseteq DOMAIN x
  BY <1>1, <1>2
<1> HIDE DEF T
<1>5. t \in Seq(T)
  BY <1>2, <1>3
<1>6. Len(t) = Len(s)
  BY <1>2, <1>3, <1>5, LenProperties
<1> QED  BY <1>4, <1>5, <1>6 DEF ScTable

(* What a signature changes.                                               *)
ScReSigned(b, r, keyOf) ==
    /\ DOMAIN b = DOMAIN r /\ b.at = r.at /\ b.policy = r.policy /\ b.operation = r.operation
    /\ DOMAIN b.modules = DOMAIN r.modules /\ Len(b.modules) = Len(r.modules)
    /\ DOMAIN b.approvals = DOMAIN r.approvals /\ Len(b.approvals) = Len(r.approvals)
    /\ \A i \in DOMAIN r.modules :
          /\ DOMAIN b.modules[i] = DOMAIN r.modules[i]
          /\ \A f \in ScModuleFields \ {"key", "digest"} : b.modules[i][f] = r.modules[i][f]
          /\ b.modules[i].key = keyOf[r.modules[i].domain]
          /\ SC!DigestHolds(b.modules[i])
    /\ \A i \in DOMAIN r.approvals :
          /\ DOMAIN b.approvals[i] = DOMAIN r.approvals[i]
          /\ \A f \in ScApprovalFields \ {"key", "bound"} : b.approvals[i][f] = r.approvals[i][f]
          /\ b.approvals[i].key = keyOf[r.approvals[i].role]
          /\ b.approvals[i].bound = SC!Subject(b)

ScSealed(m, key) == LET k == [m EXCEPT !.key = key] IN [k EXCEPT !.digest = SC!Payload(k)]
LEMMA ScStamp ==
    ASSUME NEW m, ScModuleFields \subseteq DOMAIN m, NEW key
    PROVE  LET x == ScSealed(m, key)
           IN  /\ DOMAIN x = DOMAIN m /\ \A f \in ScModuleFields \ {"key", "digest"} : x[f] = m[f]
               /\ x.key = key /\ SC!DigestHolds(x)
<1> DEFINE k == [m EXCEPT !.key = key]
           x == [k EXCEPT !.digest = SC!Payload(k)]
<1>1. {"key", "digest"} \subseteq DOMAIN m
  BY DEF ScModuleFields
<1>2. /\ DOMAIN k = DOMAIN m /\ k.key = key
      /\ \A f \in ScModuleFields \ {"key", "digest"} : k[f] = m[f]
  BY <1>1
<1> HIDE DEF k
<1>3. DOMAIN x = DOMAIN m /\ x.key = key /\ x.digest = SC!Payload(k)
      /\ \A f \in ScModuleFields \ {"key", "digest"} : x[f] = m[f]
  BY <1>1, <1>2
<1>4. SC!Payload(x) = SC!Payload(k)
  BY <1>1, <1>2 DEF SC!Payload
<1> QED  BY <1>3, <1>4 DEF SC!DigestHolds, ScSealed, k

LEMMA ScSignedRows ==
    ASSUME NEW r, ScRows(r), NEW keyOf
    PROVE  /\ ScReSigned(SC!Signed(r, keyOf), r, keyOf)
           /\ ScRows(SC!Signed(r, keyOf))
           /\ ScFigures(r) => ScFigures(SC!Signed(r, keyOf))
<1> DEFINE Stamp(x) == ScSealed(x, keyOf[x.domain])
           ms == [i \in DOMAIN r.modules |-> Stamp(r.modules[i])]
           t == [r EXCEPT !.modules = ms]
           as == [i \in DOMAIN r.approvals |->
                      [r.approvals[i] EXCEPT !.key = keyOf[r.approvals[i].role], !.bound = SC!Subject(t)]]
           b == [t EXCEPT !.approvals = as]
<1>1. b = SC!Signed(r, keyOf)
  BY Zenon DEF SC!Signed, ScSealed
<1>2. {"at", "policy", "operation", "modules", "approvals"} \subseteq DOMAIN r
      /\ ScTable(r.modules, ScModuleFields) /\ ScTable(r.approvals, ScApprovalFields)
  BY DEF ScRows
<1>3. ASSUME NEW i \in DOMAIN r.modules
      PROVE  /\ DOMAIN ms[i] = DOMAIN r.modules[i]
             /\ \A f \in ScModuleFields \ {"key", "digest"} : ms[i][f] = r.modules[i][f]
             /\ ms[i].key = keyOf[r.modules[i].domain] /\ SC!DigestHolds(ms[i])
  <2>1. ScModuleFields \subseteq DOMAIN r.modules[i]
    BY <1>2, ScTables
  <2> DEFINE x == Stamp(r.modules[i])
  <2>2. /\ DOMAIN x = DOMAIN r.modules[i] /\ \A f \in ScModuleFields \ {"key", "digest"} : x[f] = r.modules[i][f]
        /\ x.key = keyOf[r.modules[i].domain] /\ SC!DigestHolds(x)
    BY <2>1, ScStamp, Zenon
  <2>3. ms[i] = x
    OBVIOUS
  <2> HIDE DEF x, ms
  <2> QED  BY <2>2, <2>3
<1>4. DOMAIN ms = DOMAIN r.modules /\ ms = [i \in DOMAIN r.modules |-> ms[i]]
  OBVIOUS
<1> HIDE DEF ms, Stamp
<1>5. ScTable(ms, ScModuleFields) /\ Len(ms) = Len(r.modules)
  BY <1>2, <1>3, <1>4, ScRowsOf
<1>6. /\ DOMAIN t = DOMAIN r /\ t.approvals = r.approvals /\ t.modules = ms
      /\ t.at = r.at /\ t.policy = r.policy /\ t.operation = r.operation
  BY <1>2
<1>7. SC!Subject(b) = SC!Subject(t)
  <2> HIDE DEF t, as
  <2> QED  BY <1>2, <1>6 DEF SC!Subject
<1> HIDE DEF t
<1>8. DOMAIN as = DOMAIN r.approvals /\ as = [i \in DOMAIN r.approvals |-> as[i]]
  OBVIOUS
<1>9. ASSUME NEW i \in DOMAIN r.approvals
      PROVE  /\ DOMAIN as[i] = DOMAIN r.approvals[i]
             /\ \A f \in ScApprovalFields \ {"key", "bound"} : as[i][f] = r.approvals[i][f]
             /\ as[i].key = keyOf[r.approvals[i].role] /\ as[i].bound = SC!Subject(t)
  <2>1. ScApprovalFields \subseteq DOMAIN r.approvals[i]
    BY <1>2, ScTables
  <2>2. {"key", "bound"} \subseteq DOMAIN r.approvals[i]
    BY <2>1 DEF ScApprovalFields
  <2> QED  BY <2>1, <2>2
<1> HIDE DEF as
<1>10. ScTable(as, ScApprovalFields) /\ Len(as) = Len(r.approvals)
  BY <1>2, <1>8, <1>9, ScRowsOf
<1>11. /\ DOMAIN b = DOMAIN r /\ b.approvals = as /\ b.modules = ms
       /\ b.at = r.at /\ b.policy = r.policy /\ b.operation = r.operation
  BY <1>2, <1>6
<1> HIDE DEF b
<1>12. ScReSigned(b, r, keyOf)
  BY <1>3, <1>4, <1>5, <1>7, <1>8, <1>9, <1>10, <1>11 DEF ScReSigned
<1>13. ScRows(b)
  BY <1>2, <1>5, <1>10, <1>11 DEF ScRows
<1>14. ScFigures(r) => ScFigures(b)
  BY <1>11 DEF ScFigures
<1> QED  BY <1>1, <1>12, <1>13, <1>14

LEMMA ScNext ==
    ASSUME MaxEdits \in Nat, ScInvariant, SC!Next \/ UNCHANGED <<request, report, edits, vouched>>
    PROVE  ScInvariant'
<1>1. CASE SC!Edit
  <2>1. request' \in SC!Edited(request) /\ report' = SC!DefaultReport /\ vouched' = vouched
        /\ edits' \in 0..MaxEdits
    BY <1>1 DEF SC!Edit, ScInvariant
  <2>2. ScShape(request') /\ ScBound(request', vouched.content)
    BY <2>1, ScEdits DEF ScInvariant
  <2>3. ScRows(request') /\ ScFigures(request')
    BY <2>1, ScEditRows, ScEditFigures DEF ScInvariant
  <2> QED  BY <2>1, <2>2, <2>3 DEF ScInvariant, ScShape, ScBound, ScRows, ScFigures
<1>2. CASE SC!Sign
  <2>1. PICK keyOf : request' = SC!Signed(request, keyOf)
    BY <1>2 DEF SC!Sign
  <2>2. vouched'.content = SC!Content(request') /\ report' = SC!DefaultReport /\ edits' = edits
    BY <1>2 DEF SC!Sign
  <2> DEFINE s == SC!Signed(request, keyOf)
  <2>3. ScShape(s) /\ ScBound(s, SC!Content(s))
    BY ScSigned DEF ScInvariant
  <2>6. ScRows(s) /\ ScFigures(s)
    BY ScSignedRows DEF ScInvariant
  <2> HIDE DEF s
  <2>4. request' = s
    BY <2>1 DEF s
  <2>5. vouched'.content = SC!Content(s)
    BY <2>2, <2>4 DEF SC!Content
  <2> QED  BY <2>2, <2>3, <2>4, <2>5, <2>6 DEF ScInvariant, ScShape, ScBound, ScRows, ScFigures
<1>3. CASE SC!Evaluate
  BY <1>3 DEF SC!Evaluate, ScInvariant, ScShape, ScBound, ScRows, ScFigures
<1>4. CASE UNCHANGED <<request, report, edits, vouched>>
  BY <1>4 DEF ScInvariant, ScShape, ScBound, ScRows, ScFigures
<1> QED  BY <1>1, <1>2, <1>3, <1>4 DEF SC!Next


(* Two offices at least one of which approved.                             *)
LEMMA ScApproval ==
    ASSUME NEW r, ScShape(r), SC!ApprovedByAll(r)
    PROVE  \E i \in DOMAIN r.approvals : r.approvals[i].bound = SC!Subject(r)
<1>1. {a.role : a \in SC!Range(r.approvals)} = {"port_owner", "independent_verifier"}
  BY DEF SC!ApprovedByAll, SC!Once
<1>2. PICK a \in SC!Range(r.approvals) : a.role = "port_owner"
  BY <1>1
<1>3. a.bound = SC!Subject(r)
  BY DEF SC!ApprovedByAll, SC!Bound
<1> QED  BY <1>2, <1>3 DEF SC!Range

(* Keys that are those of their authorities are as many.                   *)
LEMMA ScKeys ==
    ASSUME SC!ModulesSigned(request), SC!ApprovalsSigned(request)
    PROVE  SC!Cardinality({m.key : m \in SC!Range(request.modules)}
                          \cup {a.key : a \in SC!Range(request.approvals)})
           = SC!Cardinality(SC!Authorities)
<1>1. /\ {m.domain : m \in SC!Range(request.modules)} = {"live_port_data", "long_horizon_shadow"}
      /\ \A m \in SC!Range(request.modules) : SC!Verified(m.key, m.domain)
  BY DEF SC!ModulesSigned, SC!Covered, SC!Once
<1>2. /\ {a.role : a \in SC!Range(request.approvals)} = {"port_owner", "independent_verifier"}
      /\ \A a \in SC!Range(request.approvals) : SC!Verified(a.key, a.role)
  BY DEF SC!ApprovalsSigned, SC!ApprovedByAll, SC!Once
<1>3. \A key, x : x \in SC!Authorities /\ SC!Verified(key, x) => key = x
  BY DEF SC!Verified, SC!Authority, SC!Authorities
<1>4. /\ \A m \in SC!Range(request.modules) : m.key = m.domain
      /\ \A a \in SC!Range(request.approvals) : a.key = a.role
  BY <1>1, <1>2, <1>3 DEF SC!Authorities
<1>5. {m.key : m \in SC!Range(request.modules)} \cup {a.key : a \in SC!Range(request.approvals)}
      = SC!Authorities
  BY <1>1, <1>2, <1>4 DEF SC!Authorities
<1> QED  BY <1>5


LEMMA ScSound ==
    ASSUME ScInvariant
    PROVE  SC!TypeOK /\ SC!JudgedAsSigned /\ SC!KeyPerAuthority /\ SC!OnePicture
<1>1. CASE report = SC!DefaultReport
  <2>1. report.status = "blocked" /\ report.eligible = FALSE
    BY <1>1 DEF SC!DefaultReport
  <2> QED  BY <2>1 DEF SC!TypeOK, SC!JudgedAsSigned, SC!KeyPerAuthority, SC!OnePicture, ScInvariant
<1>2. CASE report = SC!Report(request)
  <2> DEFINE blockers == SC!Blockers(request)
             trusted == SC!OnlyTrustMissing(request, blockers)
  <2>1. /\ report.eligible = (blockers = {})
        /\ report.status = IF blockers = {} THEN "eligible_for_external_cutover_review"
                           ELSE IF trusted THEN "reconciled_pending_attestation" ELSE "blocked"
    BY <1>2 DEF SC!Report
  <2>2. blockers = {} => /\ SC!ApprovalsSigned(request) /\ SC!ModulesSigned(request)
                         /\ SC!Fresh(request)
    BY DEF SC!Blockers, SC!Gates
  <2>3. blockers = {} \/ trusted => SC!ApprovedByAll(request)
    BY <2>2 DEF SC!ApprovalsSigned, SC!OnlyTrustMissing
  <2> HIDE DEF blockers, trusted
  <2>4. SC!TypeOK
    BY <2>1 DEF SC!TypeOK, ScInvariant
  <2>5. SC!JudgedAsSigned
    <3>1. SUFFICES ASSUME report.status # "blocked" PROVE vouched.content = SC!Content(request)
      BY DEF SC!JudgedAsSigned
    <3>2. SC!ApprovedByAll(request)
      BY <2>1, <2>3, <3>1
    <3>3. PICK i \in DOMAIN request.approvals : request.approvals[i].bound = SC!Subject(request)
      BY <3>2, ScApproval DEF ScInvariant
    <3>4. vouched.content = SC!Content(SC!Subject(request))
      <4>1. "approvals" \in DOMAIN SC!Subject(request) /\ "approvals" \notin DOMAIN SC!None
        BY DEF SC!Subject, SC!None, ScInvariant, ScShape
      <4> QED  BY <3>3, <4>1 DEF ScInvariant, ScBound
    <3>5. SC!Content(SC!Subject(request)) = SC!Content(request)
      BY ScContent DEF ScInvariant
    <3> QED  BY <3>4, <3>5
  <2>6. SC!KeyPerAuthority
    BY <2>1, <2>2, ScKeys DEF SC!KeyPerAuthority
  <2>7. SC!OnePicture
    BY <2>1, <2>2 DEF SC!OnePicture, SC!Fresh, SC!Range
  <2> QED  BY <2>4, <2>5, <2>6, <2>7
<1> QED  BY <1>1, <1>2 DEF ScInvariant


(* What the gates ask of the operation of a site.                          *)
ScRuns(o, p) ==
    /\ SC!LiveData(o) /\ SC!Metered(o, p) /\ SC!Shadowed(o, p) /\ SC!Executed(o) /\ SC!TakenOver(o, p)
    /\ SC!Restored(o, p) /\ SC!Secured(o) /\ o.trained = 100 /\ o.benefit /\ o.authorityOff

LEMMA ScBetter ==
    ASSUME NEW q, ScOperation(q), NEW p, ScTerms(p), ScRuns(q, p), NEW o \in SC!Better(q)
    PROVE  ScRuns(o, p)
<1>0. SC!Cardinality(q.seasons) \in Nat /\ SC!Cardinality(q.seasons) <= SC!Cardinality(q.seasons \cup {"autumn"})
      /\ SC!Cardinality(q.seasons \cup {"autumn"}) \in Nat
  <2>1. \A S : SC!Cardinality(S) = Cardinality(S)
    BY DEF SC!Cardinality, Cardinality
  <2>2. IsFiniteSet(q.seasons)
    BY DEF ScOperation
  <2>3. Cardinality(q.seasons \cup {"autumn"}) \in {Cardinality(q.seasons), Cardinality(q.seasons) + 1}
    BY <2>2, FS_AddElement
  <2>4. Cardinality(q.seasons) \in Nat
    BY <2>2, FS_CardinalityType
  <2> QED  BY <2>1, <2>3, <2>4
<1> DEFINE o1 == [q EXCEPT !.required = 7, !.ready = 7]
           o2 == [q EXCEPT !.snapshots = @ + 1]
           o3 == [q EXCEPT !.releases = @ + 1]
           o4 == [q EXCEPT !.balance = @ - 1]
           o5 == [q EXCEPT !.bill = @ - 1]
           o6 == [q EXCEPT !.shadowDays = @ + 1]
           o7 == [q EXCEPT !.seasons = @ \cup {"autumn"}]
           o8 == [q EXCEPT !.scenarios = @ \cup {"strike"}]
           o9 == [q EXCEPT !.rollback = @ - 1]
           o10 == [q EXCEPT !.rpo = @ - 1]
           o11 == [q EXCEPT !.rto = @ - 1]
<1>1. ScRuns(o1, p) /\ ScRuns(o2, p) /\ ScRuns(o3, p) /\ ScRuns(o4, p) /\ ScRuns(o5, p)
  BY <1>0 DEF ScOperation, ScTerms, ScRuns, SC!LiveData, SC!Metered, SC!Shadowed, SC!Executed, SC!TakenOver, SC!Restored, SC!Secured
<1>2. ScRuns(o6, p) /\ ScRuns(o7, p) /\ ScRuns(o8, p) /\ ScRuns(o9, p) /\ ScRuns(o10, p) /\ ScRuns(o11, p)
  BY <1>0 DEF ScOperation, ScTerms, ScRuns, SC!LiveData, SC!Metered, SC!Shadowed, SC!Executed, SC!TakenOver, SC!Restored, SC!Secured
<1>12. o \in {o1, o2, o3, o4, o5, o6, o7, o8, o9, o10, o11}
  BY DEF SC!Better
<1> HIDE DEF o1, o2, o3, o4, o5, o6, o7, o8, o9, o10, o11
<1> QED  BY <1>1, <1>2, <1>12

(* Every office approved, after the window closed.                         *)
ScConsented(r) ==
    /\ SC!Once(r.approvals, LAMBDA a : a.role, {"port_owner", "independent_verifier"})
    /\ \A a \in SC!Range(r.approvals) : a.decision = "approved" /\ r.policy.end <= a.at /\ a.at <= r.at

(* A package that passed passes again when all sign it anew.               *)
LEMMA ScSignedAnew ==
    ASSUME NEW r, ScRows(r), SC!Covered(r), SC!OneSite(r), SC!Fresh(r), SC!Accepted(r), ScConsented(r),
           NEW b, ScReSigned(b, r, [a \in SC!Authorities |-> a])
    PROVE  /\ SC!Covered(b) /\ SC!ModulesSigned(b) /\ SC!OneSite(b) /\ SC!Fresh(b) /\ SC!Accepted(b)
           /\ SC!ApprovalsSigned(b)
<1> DEFINE D == {"live_port_data", "long_horizon_shadow"}
           O == {"port_owner", "independent_verifier"}
           F == ScModuleFields \ {"key", "digest"}
<1>1. /\ DOMAIN b.modules = DOMAIN r.modules /\ Len(b.modules) = Len(r.modules)
      /\ DOMAIN b.approvals = DOMAIN r.approvals /\ Len(b.approvals) = Len(r.approvals)
      /\ b.at = r.at /\ b.policy = r.policy
  BY DEF ScReSigned
<1>2. /\ \A s : SC!Range(s) = {s[i] : i \in DOMAIN s}
      /\ SC!Authorities = D \cup O
  BY DEF SC!Range, SC!Authorities
<1>3. ASSUME NEW i \in DOMAIN r.modules
      PROVE  /\ \A f \in F : b.modules[i][f] = r.modules[i][f]
             /\ b.modules[i].key = r.modules[i].domain /\ r.modules[i].domain \in D
             /\ SC!DigestHolds(b.modules[i])
  <2>1. r.modules[i].domain \in D
    BY <1>2 DEF SC!Covered, SC!Once
  <2> QED  BY <1>2, <2>1 DEF ScReSigned
<1>4. ASSUME NEW i \in DOMAIN r.approvals
      PROVE  /\ b.approvals[i].role = r.approvals[i].role /\ b.approvals[i].decision = r.approvals[i].decision
             /\ b.approvals[i].at = r.approvals[i].at
             /\ b.approvals[i].key = r.approvals[i].role /\ r.approvals[i].role \in O
             /\ b.approvals[i].bound = SC!Subject(b)
  <2>1. r.approvals[i].role \in O
    BY <1>2 DEF ScConsented, SC!Once
  <2> QED  BY <1>2, <2>1 DEF ScReSigned, ScApprovalFields
<1>5. ASSUME NEW i \in DOMAIN r.modules
      PROVE  LET m == b.modules[i]
                 n == r.modules[i]
             IN  /\ m.domain = n.domain /\ m.site = n.site /\ m.tenant = n.tenant /\ m.window = n.window
                 /\ m.cutoff = n.cutoff /\ m.observed = n.observed /\ m.mode = n.mode /\ m.verified = n.verified
                 /\ m.conclusion = n.conclusion /\ m.exceptions = n.exceptions
  BY <1>3 DEF ScModuleFields
<1>6. \A key, x : x \in D \cup O /\ key = x => SC!Verified(key, x)
  BY <1>2 DEF SC!Verified, SC!Authority
<1>7. SC!Covered(b)
  <2>1. {m.domain : m \in SC!Range(b.modules)} = {m.domain : m \in SC!Range(r.modules)}
    BY <1>1, <1>2, <1>5
  <2> QED  BY <1>1, <2>1 DEF SC!Covered, SC!Once
<1>8. SC!ModulesSigned(b)
  BY <1>1, <1>2, <1>3, <1>5, <1>6, <1>7 DEF SC!ModulesSigned
<1>9. SC!OneSite(b)
  BY <1>1, <1>2, <1>5, <1>7 DEF SC!OneSite
<1>10. SC!Fresh(b)
  BY <1>1, <1>2, <1>5, <1>7 DEF SC!Fresh
<1>11. SC!Accepted(b)
  BY <1>1, <1>2, <1>5, <1>7 DEF SC!Accepted
<1>12. SC!ApprovedByAll(b)
  <2>1. {a.role : a \in SC!Range(b.approvals)} = {a.role : a \in SC!Range(r.approvals)}
    BY <1>1, <1>2, <1>4
  <2>2. ASSUME NEW a \in SC!Range(b.approvals) PROVE a.decision = "approved" /\ SC!Bound(b, a)
    BY <1>1, <1>2, <1>4, <2>2 DEF ScConsented, SC!Bound
  <2> QED  BY <1>1, <2>1, <2>2 DEF SC!ApprovedByAll, ScConsented, SC!Once
<1>13. SC!ApprovalsSigned(b)
  BY <1>1, <1>2, <1>4, <1>6, <1>12 DEF SC!ApprovalsSigned
<1> QED  BY <1>7, <1>8, <1>9, <1>10, <1>11, <1>13

(* The gates, by what they are of.                                         *)
LEMMA ScGates ==
    ASSUME NEW r
    PROVE  /\ SC!Report(r).eligible <=>
                /\ SC!Covered(r) /\ SC!ModulesSigned(r) /\ SC!OneSite(r) /\ SC!Fresh(r) /\ SC!Accepted(r)
                /\ SC!ApprovalsSigned(r) /\ ScRuns(r.operation, r.policy)
           /\ SC!Blockers(r) \subseteq {"module_signatures", "binding_approvals"} =>
                /\ SC!Covered(r) /\ SC!OneSite(r) /\ SC!Fresh(r) /\ SC!Accepted(r)
                /\ ScRuns(r.operation, r.policy)
<1> DEFINE G == SC!Gates(r)
<1>1. DOMAIN G = {"module_coverage", "module_signatures", "site_tenant_window", "freshness_and_cutoff",
                  "module_acceptance", "live_data_closed_loop", "metering_and_calibration",
                  "long_horizon_shadow", "production_execution", "takeover_and_rollback",
                  "resilience_and_restore", "cyber_readiness", "training_and_change",
                  "benefit_assurance", "binding_approvals", "application_authority_boundary"}
  BY DEF SC!Gates
<1>2. /\ G["module_coverage"] = SC!Covered(r) /\ G["module_signatures"] = SC!ModulesSigned(r)
      /\ G["site_tenant_window"] = SC!OneSite(r) /\ G["freshness_and_cutoff"] = SC!Fresh(r)
  BY DEF SC!Gates
<1>3. /\ G["module_acceptance"] = SC!Accepted(r) /\ G["live_data_closed_loop"] = SC!LiveData(r.operation)
      /\ G["metering_and_calibration"] = SC!Metered(r.operation, r.policy)
      /\ G["long_horizon_shadow"] = SC!Shadowed(r.operation, r.policy)
  BY DEF SC!Gates
<1>4. /\ G["production_execution"] = SC!Executed(r.operation)
      /\ G["takeover_and_rollback"] = SC!TakenOver(r.operation, r.policy)
      /\ G["resilience_and_restore"] = SC!Restored(r.operation, r.policy)
      /\ G["cyber_readiness"] = SC!Secured(r.operation)
  BY DEF SC!Gates
<1>5. /\ G["training_and_change"] = (r.operation.trained = 100)
      /\ G["benefit_assurance"] = r.operation.benefit
      /\ G["binding_approvals"] = SC!ApprovalsSigned(r)
      /\ G["application_authority_boundary"] = r.operation.authorityOff
  BY DEF SC!Gates
<1>6. /\ SC!Report(r).eligible <=> \A g \in DOMAIN G : G[g]
      /\ SC!Blockers(r) \subseteq {"module_signatures", "binding_approvals"} =>
            \A g \in DOMAIN G : g \in {"module_signatures", "binding_approvals"} \/ G[g]
  BY DEF SC!Report, SC!Blockers
<1> HIDE DEF G
<1>7. SC!Report(r).eligible <=>
         /\ SC!Covered(r) /\ SC!ModulesSigned(r) /\ SC!OneSite(r) /\ SC!Fresh(r) /\ SC!Accepted(r)
         /\ SC!ApprovalsSigned(r) /\ ScRuns(r.operation, r.policy)
  BY <1>1, <1>2, <1>3, <1>4, <1>5, <1>6, Zenon DEF ScRuns
<1> HIDE DEF ScRuns
<1>8. ASSUME SC!Blockers(r) \subseteq {"module_signatures", "binding_approvals"}
      PROVE  /\ SC!Covered(r) /\ SC!OneSite(r) /\ SC!Fresh(r) /\ SC!Accepted(r)
             /\ ScRuns(r.operation, r.policy)
  <2>1. \A g \in DOMAIN G \ {"module_signatures", "binding_approvals"} : G[g]
    BY <1>6, <1>8
  <2>2. {"module_coverage", "site_tenant_window", "freshness_and_cutoff",
                 "module_acceptance", "live_data_closed_loop", "metering_and_calibration",
                 "long_horizon_shadow", "production_execution", "takeover_and_rollback",
                 "resilience_and_restore", "cyber_readiness", "training_and_change",
                 "benefit_assurance", "application_authority_boundary"}
           \subseteq DOMAIN G \ {"module_signatures", "binding_approvals"}
    BY <1>1
  <2>3. /\ G["module_coverage"] /\ G["site_tenant_window"] /\ G["freshness_and_cutoff"] /\ G["module_acceptance"]
        /\ G["live_data_closed_loop"] /\ G["metering_and_calibration"] /\ G["long_horizon_shadow"]
        /\ G["production_execution"] /\ G["takeover_and_rollback"] /\ G["resilience_and_restore"]
        /\ G["cyber_readiness"] /\ G["training_and_change"] /\ G["benefit_assurance"]
        /\ G["application_authority_boundary"]
    BY <2>1, <2>2
  <2> QED  BY <1>2, <1>3, <1>4, <1>5, <2>3, Zenon DEF ScRuns
<1> QED  BY <1>7, <1>8

LEMMA ScPending ==
    ASSUME ScInvariant PROVE SC!PendingNeedsOnlyKeys
<1> DEFINE key == [a \in SC!Authorities |-> a]
           b == SC!Signed(request, key)
<1> SUFFICES ASSUME report.status = "reconciled_pending_attestation" PROVE SC!Report(b).eligible
  BY DEF SC!PendingNeedsOnlyKeys
<1>1. /\ SC!Blockers(request) \subseteq {"module_signatures", "binding_approvals"}
      /\ SC!ApprovedByAll(request)
  <2>1. report = SC!Report(request)
    BY DEF ScInvariant, SC!DefaultReport
  <2>2. SC!OnlyTrustMissing(request, SC!Blockers(request))
    BY <2>1, Zenon DEF SC!Report
  <2> QED  BY <2>2 DEF SC!OnlyTrustMissing
<1>2. /\ SC!Covered(request) /\ SC!OneSite(request) /\ SC!Fresh(request) /\ SC!Accepted(request)
      /\ ScRuns(request.operation, request.policy)
  BY <1>1, ScGates
<1>3. ScConsented(request)
  BY <1>1 DEF SC!ApprovedByAll, SC!Bound, ScConsented
<1>4. ScRows(request)
  BY DEF ScInvariant
<1> HIDE DEF key
<1>5. ScReSigned(b, request, key)
  BY <1>4, ScSignedRows
<1> HIDE DEF b
<1>6. /\ SC!Covered(b) /\ SC!ModulesSigned(b) /\ SC!OneSite(b) /\ SC!Fresh(b) /\ SC!Accepted(b)
      /\ SC!ApprovalsSigned(b)
  BY <1>2, <1>3, <1>4, <1>5, ScSignedAnew DEF key
<1>7. b.operation = request.operation /\ b.policy = request.policy
  BY <1>5 DEF ScReSigned
<1> QED  BY <1>2, <1>6, <1>7, ScGates

LEMMA ScOrder ==
    ASSUME ScInvariant PROVE SC!OnePicture /\ SC!BetterNeverBlocks
<1> DEFINE key == [a \in SC!Authorities |-> a]
<1> SUFFICES ASSUME report.eligible, NEW o \in SC!Better(request.operation)
             PROVE  SC!Report(SC!Signed([request EXCEPT !.operation = o], key)).eligible
  BY ScSound DEF SC!BetterNeverBlocks
<1> DEFINE x == [request EXCEPT !.operation = o]
           b == SC!Signed(x, key)
<1>2. SC!Report(request).eligible
  <2>1. ~SC!DefaultReport.eligible
    BY DEF SC!DefaultReport
  <2> QED  BY <2>1 DEF ScInvariant
<1>4. /\ SC!Covered(request) /\ SC!OneSite(request) /\ SC!Fresh(request) /\ SC!Accepted(request)
      /\ ScConsented(request) /\ ScRuns(request.operation, request.policy)
  BY <1>2, ScGates DEF SC!ApprovalsSigned, SC!ApprovedByAll, SC!Bound, ScConsented
<1>5. ScRows(request) /\ ScFigures(request)
  BY DEF ScInvariant
<1>6. /\ DOMAIN x = DOMAIN request /\ x.operation = o
      /\ x.at = request.at /\ x.policy = request.policy /\ x.modules = request.modules
      /\ x.approvals = request.approvals
  BY <1>5 DEF ScRows
<1>7. ScRuns(o, request.policy)
  BY <1>4, <1>5, ScBetter DEF ScFigures
<1> HIDE DEF x
<1>8. ScRows(x)
  BY <1>5, <1>6 DEF ScRows
<1>9. SC!Covered(x) /\ SC!OneSite(x) /\ SC!Fresh(x) /\ SC!Accepted(x) /\ ScConsented(x)
  BY <1>4, <1>6 DEF SC!Covered, SC!OneSite, SC!Fresh, SC!Accepted, ScConsented
<1> HIDE DEF key
<1>10. ScReSigned(b, x, key)
  BY <1>8, ScSignedRows
<1> HIDE DEF b
<1>11. /\ SC!Covered(b) /\ SC!ModulesSigned(b) /\ SC!OneSite(b) /\ SC!Fresh(b) /\ SC!Accepted(b)
       /\ SC!ApprovalsSigned(b)
  BY <1>8, <1>9, <1>10, ScSignedAnew DEF key
<1>12. b.operation = o /\ b.policy = request.policy
  BY <1>6, <1>10 DEF ScReSigned
<1>13. SC!Report(b).eligible
  BY <1>7, <1>11, <1>12, ScGates
<1> QED  BY <1>13 DEF b, x, key

-----------------------------------------------------------------------------
(* Planning.                                                               *)

OpNames == {"ais_and_vessel_calls", "berth_plan", "crane_work_orders", "yard_inventory",
            "truck_appointments", "reefer_monitoring", "shore_power_registry",
            "energy_management_system"}
OpOwn == [d \in OpNames |-> OP!Owned(d)]
OpAt == [calls |-> 1, berths |-> 1, cranes |-> 1, yards |-> 1, gates |-> 1, appointments |-> 2,
         batches |-> 1, energy |-> 1, storage |-> 2]
OpPay(r) == [d \in OpNames |-> OP!Payload(r, d)]

OpFields == {"at", "slots", "policy", "calls", "berths", "cranes", "yards", "gates", "appointments",
             "batches", "energy", "storage", "attestations"}

OpInvariant ==
    /\ "attestations" \in DOMAIN request
    /\ DOMAIN request = OpFields /\ Dated(request)
    /\ Signers(request.attestations, 8, vouched, OpOwn, OpAt)
    /\ edits \in 0..PackageEdits
    /\ report.status \in {"advisory_plan_ready", "infeasible"} => report \in OP!Reports(request)

LEMMA OpDomains == OP!Domains = OpNames /\ DOMAIN OP!DomainSeq = 1..8
<1>1. DOMAIN OP!DomainSeq = 1..8
  BY DEF OP!DomainSeq
<1>2. OP!Domains = {OP!DomainSeq[i] : i \in 1..8}
  BY <1>1 DEF OP!Domains, OP!Range
<1>3. {OP!DomainSeq[i] : i \in 1..8}
      = {OP!DomainSeq[1], OP!DomainSeq[2], OP!DomainSeq[3], OP!DomainSeq[4],
         OP!DomainSeq[5], OP!DomainSeq[6], OP!DomainSeq[7], OP!DomainSeq[8]}
  OBVIOUS
<1>4. /\ OP!DomainSeq[1] = "ais_and_vessel_calls" /\ OP!DomainSeq[2] = "berth_plan"
      /\ OP!DomainSeq[3] = "crane_work_orders" /\ OP!DomainSeq[4] = "yard_inventory"
      /\ OP!DomainSeq[5] = "truck_appointments" /\ OP!DomainSeq[6] = "reefer_monitoring"
      /\ OP!DomainSeq[7] = "shore_power_registry" /\ OP!DomainSeq[8] = "energy_management_system"
  BY DEF OP!DomainSeq
<1> QED  BY <1>1, <1>2, <1>3, <1>4 DEF OpNames

LEMMA OpParts ==
    /\ DOMAIN OpOwn = OpNames /\ \A d \in OpNames : OpOwn[d] = OP!Owned(d)
    /\ OwnersApart(OpOwn) /\ \A r : Placed(OpOwn, OpAt, OpNames, OpPay(r), r)
<1>1. DOMAIN OpOwn = OpNames /\ \A d \in OpNames : OpOwn[d] = OP!Owned(d)
  BY DEF OpOwn
<1>2. /\ OP!Owned("ais_and_vessel_calls") = {"calls"} /\ OP!Owned("berth_plan") = {"berths"}
      /\ OP!Owned("crane_work_orders") = {"cranes"} /\ OP!Owned("yard_inventory") = {"yards"}
      /\ OP!Owned("truck_appointments") = {"gates", "appointments"}
      /\ OP!Owned("reefer_monitoring") = {"batches"} /\ OP!Owned("shore_power_registry") = {}
      /\ OP!Owned("energy_management_system") = {"energy", "storage"}
  BY DEF OP!Owned
<1>3. OwnersApart(OpOwn)
  BY <1>1, <1>2 DEF OpNames, OwnersApart
<1>4. ASSUME NEW r, NEW d \in OpNames, NEW f \in OpOwn[d]
      PROVE  OpPay(r)[d][OpAt[f]] = r[f]
  <2>1. OpPay(r)[d] = OP!Payload(r, d)
    BY DEF OpPay
  <2>2. /\ OP!Payload(r, "ais_and_vessel_calls") = <<r.calls>> /\ OP!Payload(r, "berth_plan") = <<r.berths>>
        /\ OP!Payload(r, "crane_work_orders") = <<r.cranes>> /\ OP!Payload(r, "yard_inventory") = <<r.yards>>
        /\ OP!Payload(r, "truck_appointments") = <<r.gates, r.appointments>>
        /\ OP!Payload(r, "reefer_monitoring") = <<r.batches>>
        /\ OP!Payload(r, "energy_management_system") = <<r.energy, r.storage>>
    BY DEF OP!Payload
  <2>3. OpAt.calls = 1 /\ OpAt.berths = 1 /\ OpAt.cranes = 1 /\ OpAt.yards = 1 /\ OpAt.gates = 1
        /\ OpAt.appointments = 2 /\ OpAt.batches = 1 /\ OpAt.energy = 1 /\ OpAt.storage = 2
    BY DEF OpAt
  <2>4. \/ d = "ais_and_vessel_calls" /\ f = "calls"
        \/ d = "berth_plan" /\ f = "berths"
        \/ d = "crane_work_orders" /\ f = "cranes"
        \/ d = "yard_inventory" /\ f = "yards"
        \/ d = "truck_appointments" /\ f \in {"gates", "appointments"}
        \/ d = "reefer_monitoring" /\ f = "batches"
        \/ d = "energy_management_system" /\ f \in {"energy", "storage"}
    BY <1>1, <1>2, <1>4 DEF OpNames
  <2> QED  BY <2>1, <2>2, <2>3, <2>4
<1> QED  BY <1>1, <1>3, <1>4 DEF Placed

LEMMA OpEdits ==
    ASSUME NEW r, "attestations" \in DOMAIN r, NEW e \in OP!Edited(r)
    PROVE  Retouched(e, r, 2)
<1>1. \/ e.attestations = r.attestations
      \/ e = [r EXCEPT !.attestations[1].live = FALSE]
      \/ e = [r EXCEPT !.attestations[2].observed = 2]
      \/ e = [r EXCEPT !.attestations[3].domain = r.attestations[4].domain]
  <2>1. CASE e \in OP!EditedQuay(r)
    BY <2>1, ZenonT(60) DEF OP!EditedQuay
  <2>2. CASE e \in OP!EditedLand(r)
    BY <2>2, ZenonT(60) DEF OP!EditedLand
  <2>3. CASE e \in OP!EditedEnergy(r)
    BY <2>3, ZenonT(60) DEF OP!EditedEnergy
  <2> QED  BY <2>1, <2>2, <2>3 DEF OP!Edited
<1>2. DOMAIN e = DOMAIN r
  <2>1. CASE e \in OP!EditedQuay(r)
    BY <2>1, ZenonT(60) DEF OP!EditedQuay
  <2>2. CASE e \in OP!EditedLand(r)
    BY <2>2, ZenonT(60) DEF OP!EditedLand
  <2>3. CASE e \in OP!EditedEnergy(r)
    BY <2>3, ZenonT(60) DEF OP!EditedEnergy
  <2> QED  BY <2>1, <2>2, <2>3 DEF OP!Edited
<1> QED  BY <1>1, <1>2 DEF Retouched

LEMMA OpEditDated ==
    ASSUME NEW r, Dated(r), NEW e \in OP!Edited(r), DOMAIN e = DOMAIN r
    PROVE  Dated(e)
<1>0. "at" \in DOMAIN r /\ "policy" \in DOMAIN r /\ r.at \in Int /\ Terms(r.policy)
  BY DEF Dated, Terms
<1>1. CASE e \in OP!EditedQuay(r)
  <2>1. e.at = r.at
    BY <1>0, <1>1, ZenonT(60) DEF OP!EditedQuay
  <2>2. e.policy = r.policy
    BY <1>0, <1>1, ZenonT(60) DEF OP!EditedQuay
  <2> QED  BY <2>1, <2>2 DEF Dated
<1>2. CASE e \in OP!EditedLand(r)
  <2>1. e.at = r.at
    BY <1>0, <1>2, ZenonT(60) DEF OP!EditedLand
  <2>2. e.policy = r.policy
    BY <1>0, <1>2, ZenonT(60) DEF OP!EditedLand
  <2> QED  BY <2>1, <2>2 DEF Dated
<1>3. CASE e \in OP!EditedEnergy(r)
  <2>1. e.at \in {r.at, 4}
    BY <1>0, <1>3, ZenonT(60) DEF OP!EditedEnergy
  <2>2. \/ e.policy = r.policy \/ e.policy = [r.policy EXCEPT !.age = 1]
        \/ \E x : \E f \in {"margin", "degradation", "delay"} : e.policy = [r.policy EXCEPT ![f] = x]
    BY <1>0, <1>3, ZenonT(60) DEF OP!EditedEnergy
  <2>3. Terms(e.policy)
    BY <1>0, <2>2, TermsKept
  <2> QED  BY <1>0, <2>1, <2>3 DEF Dated, Terms
<1> QED  BY <1>1, <1>2, <1>3 DEF OP!Edited

LEMMA OpInitially ==
    ASSUME PackageEdits \in Nat, OP!Init PROVE OpInvariant
<1>1. "attestations" \in DOMAIN request /\ request.attestations = [i \in 1..8 |-> OP!Attestation(OP!DomainSeq[i])]
  BY OpDomains DEF OP!Init, OP!Package
<1>2. \A d : {"domain", "key", "over"} \subseteq DOMAIN OP!Attestation(d) /\ OP!Attestation(d).over = Unsigned
  BY DEF OP!Attestation, OP!None, Unsigned
<1>3. Rows(request.attestations, 8) /\ \A i \in 1..8 : request.attestations[i].over = Unsigned
  BY <1>1, <1>2 DEF Rows
<1>4. Signers(request.attestations, 8, vouched, OpOwn, OpAt)
  BY <1>3, UnsignedRows
<1>5. DOMAIN request = OpFields /\ Dated(request)
  BY DEF OP!Init, OP!Package, OP!Policy, OpFields, Dated
<1> QED  BY <1>1, <1>4, <1>5 DEF OP!Init, OpInvariant, OP!DefaultReport

LEMMA OpSigned ==
    ASSUME NEW r, "attestations" \in DOMAIN r, NEW content, Signers(r.attestations, 8, content, OpOwn, OpAt),
           Apart(r.attestations, 8), NEW domains, domains \subseteq OpNames, NEW key,
           NEW next, Vouched(content, OpOwn, domains, r, next)
    PROVE  Signers(OP!Signed(r, domains, key).attestations, 8, next, OpOwn, OpAt)
<1> DEFINE s == OP!Signed(r, domains, key)
           as == r.attestations
           bs == s.attestations
<1>1. Rows(as, 8)
  BY DEF Signers
<1>2. /\ DOMAIN s = DOMAIN r
      /\ bs = [i \in 1..8 |-> IF as[i].domain \notin domains THEN as[i]
                              ELSE [as[i] EXCEPT !.key = key, !.over = <<as[i].domain, OP!Payload(r, as[i].domain)>>]]
  BY <1>1 DEF OP!Signed, Rows
<1> HIDE DEF bs
<1>3. /\ DOMAIN bs = 1..8 /\ \A i \in 1..8 : DOMAIN bs[i] = DOMAIN as[i] /\ bs[i].domain = as[i].domain
      /\ \A i \in 1..8 : as[i].domain \in domains => bs[i].over = <<as[i].domain, OP!Payload(r, as[i].domain)>>
      /\ \A i \in 1..8 : as[i].domain \notin domains => bs[i].over = as[i].over
  BY <1>1, <1>2 DEF Rows
<1>4. \A i \in 1..8 : as[i].domain \in domains => OP!Payload(r, as[i].domain) = OpPay(r)[as[i].domain]
  BY DEF OpPay
<1>5. \A i \in 1..8 : as[i].domain \in domains => bs[i].over = <<as[i].domain, OpPay(r)[as[i].domain]>>
  BY <1>3, <1>4
<1>6. Rows(bs, 8)
  BY <1>1, <1>3 DEF Rows
<1>8. domains \subseteq DOMAIN OpOwn /\ OwnersApart(OpOwn) /\ Placed(OpOwn, OpAt, domains, OpPay(r), r)
  BY OpParts DEF Placed
<1>9. Resigned(as, bs, 8, domains, OpPay(r))
  BY <1>3, <1>5, <1>6 DEF Resigned
<1>10. Signers(as, 8, content, OpOwn, OpAt) /\ Apart(as, 8)
  OBVIOUS
<1> HIDE DEF as
<1>13. Signers(bs, 8, next, OpOwn, OpAt)
  BY <1>8, <1>9, <1>10, SignedRows
<1> QED  BY <1>13 DEF bs

LEMMA OpNext ==
    ASSUME PackageEdits \in Nat, OpInvariant, OP!Next \/ UNCHANGED <<request, report, edits, vouched>>
    PROVE  OpInvariant'
<1>0. OP!DefaultReport.status = "blocked"
  BY DEF OP!DefaultReport
<1>1. CASE OP!Edit
  <2>1. PICK r \in OP!Edited(request) : request' = r
    BY <1>1 DEF OP!Edit
  <2>2. "attestations" \in DOMAIN r /\ Signers(r.attestations, 8, vouched, OpOwn, OpAt)
    <3>1. Retouched(r, request, 2)
      BY <2>1, OpEdits DEF OpInvariant
    <3> QED  BY <3>1, EditedPackage DEF OpInvariant
  <2>4. DOMAIN r = OpFields /\ Dated(r)
    <3>1. DOMAIN r = DOMAIN request
      BY <2>1, OpEdits DEF Retouched, OpInvariant
    <3>2. Dated(r)
      BY <2>1, <3>1, OpEditDated DEF OpInvariant
    <3> QED  BY <3>1, <3>2 DEF OpInvariant
  <2>3. report'.status = "blocked" /\ vouched' = vouched /\ edits' \in 0..PackageEdits
    BY <1>0, <1>1 DEF OP!Edit, OpInvariant
  <2> QED  BY <2>1, <2>2, <2>3, <2>4 DEF OpInvariant
<1>2. CASE OP!Sign
  <2>1. PICK domains \in {OP!Domains, {"berth_plan"}, {"energy_management_system"}}, key \in {"k1", "k2"} :
            LET fields == UNION {OP!Owned(d) : d \in domains}
            IN  /\ request' = OP!Signed(request, domains, key)
                /\ vouched' = [f \in fields \cup DOMAIN vouched |->
                                IF f \in fields THEN request[f] ELSE vouched[f]]
    BY <1>2 DEF OP!Sign
  <2>2. domains \subseteq OpNames
    BY OpDomains DEF OpNames
  <2>3. Apart(request.attestations, 8)
    BY <1>2 DEF OP!Sign, OP!Distinct, Apart, OpInvariant, Signers, Rows
  <2>4. report'.status = "blocked" /\ edits' = edits
    BY <1>0, <1>2 DEF OP!Sign
  <2> DEFINE fields == UNION {OP!Owned(d) : d \in domains}
             next == [f \in fields \cup DOMAIN vouched |-> IF f \in fields THEN request[f] ELSE vouched[f]]
             s == OP!Signed(request, domains, key)
  <2>6. request' = s /\ vouched' = next
    BY <2>1
  <2>8. Vouched(vouched, OpOwn, domains, request, next)
    <3>1. {OP!Owned(d) : d \in domains} = {OpOwn[d] : d \in domains}
      BY <2>2, OpParts
    <3> QED  BY <3>1 DEF Vouched
  <2> HIDE DEF next, fields
  <2>5. Signers(s.attestations, 8, next, OpOwn, OpAt)
    <3>1. "attestations" \in DOMAIN request /\ Signers(request.attestations, 8, vouched, OpOwn, OpAt)
      BY DEF OpInvariant
    <3> QED  BY <2>2, <2>3, <2>8, <3>1, OpSigned, Zenon
  <2>9. DOMAIN s = DOMAIN request /\ \A f \in DOMAIN request \ {"attestations"} : s[f] = request[f]
    BY DEF OP!Signed
  <2> HIDE DEF s
  <2>7. Dated(s)
    BY <2>9 DEF OpInvariant, Dated
  <2> QED  BY <2>4, <2>5, <2>6, <2>7, <2>9 DEF OpInvariant
<1>3. CASE OP!Evaluate
  <2>1. report' \in OP!Reports(request) \/ report'.status = "raised"
    BY <1>3 DEF OP!Evaluate, OP!DefaultReport
  <2>2. OP!Reports(request') = OP!Reports(request)
    BY <1>3 DEF OP!Evaluate
  <2> QED  BY <1>3, <2>1, <2>2 DEF OP!Evaluate, OpInvariant
<1>4. CASE UNCHANGED <<request, report, edits, vouched>>
  BY <1>4 DEF OpInvariant
<1> QED  BY <1>1, <1>2, <1>3, <1>4 DEF OP!Next

(* A report is made from the gates of some plan.                            *)
LEMMA OpAnswer ==
    ASSUME NEW q, NEW x \in OP!Reports(q)
    PROVE  \E s, t, trips :
            LET gates == OP!Gates(q, s, trips, t)
                blockers == {g \in DOMAIN gates : ~gates[g]}
            IN  /\ x.passed = DOMAIN gates \ blockers
                /\ x.status = IF blockers = {} THEN "advisory_plan_ready"
                              ELSE IF blockers \cap OP!SourceGates = {} THEN "infeasible" ELSE "blocked"
<1> DEFINE Answer(s, trips, t) ==
               LET gates == OP!Gates(q, s, trips, t)
                   blockers == {g \in DOMAIN gates : ~gates[g]}
               IN  [passed |-> DOMAIN gates \ blockers,
                   status |-> IF blockers = {} THEN "advisory_plan_ready"
                              ELSE IF blockers \cap OP!SourceGates = {} THEN "infeasible" ELSE "blocked",
                   plan |-> [vessels |-> s.plan, trips |-> trips, flows |-> t.path, stored |-> t.energy]]
           Answers(s) ==
               LET trips == OP!ScheduleTrucks(q, s.plan)
                   loads == [k \in 1..q.slots |-> OP!Load(q, s.plan, trips, k - 1)]
               IN  {Answer(s, trips, t) : t \in OP!OptimizeStorage(q, loads)}
<1>1. x \in UNION {Answers(s) : s \in OP!ScheduleVessels(q)}
  BY DEF OP!Reports
<1>2. PICK s \in OP!ScheduleVessels(q) : x \in Answers(s)
  BY <1>1
<1>3. PICK trips, t : x = Answer(s, trips, t)
  BY <1>2
<1> QED  BY <1>3

LEMMA OpSound ==
    ASSUME OpInvariant
    PROVE  OP!TypeOK /\ OP!PlannedAsSigned
<1>1. ASSUME report.status \in {"advisory_plan_ready", "infeasible"}
      PROVE  /\ OP!SourcesSigned(request)
             /\ report.status = "advisory_plan_ready" => OP!SourceGates \subseteq report.passed
  <2>1. PICK s, t, trips :
            LET gates == OP!Gates(request, s, trips, t)
                blockers == {g \in DOMAIN gates : ~gates[g]}
            IN  /\ report.passed = DOMAIN gates \ blockers
                /\ report.status = IF blockers = {} THEN "advisory_plan_ready"
                                   ELSE IF blockers \cap OP!SourceGates = {} THEN "infeasible" ELSE "blocked"
    BY <1>1, OpAnswer DEF OpInvariant
  <2> DEFINE gates == OP!Gates(request, s, trips, t)
             blockers == {g \in DOMAIN gates : ~gates[g]}
  <2>2. OP!SourceGates \subseteq DOMAIN gates /\ gates["source_signatures"] = OP!SourcesSigned(request)
    BY DEF OP!Gates, OP!SourceGates
  <2> HIDE DEF gates
  <2>3. blockers \cap OP!SourceGates = {}
    BY <1>1, <2>1 DEF gates
  <2>4. "source_signatures" \in OP!SourceGates
    BY DEF OP!SourceGates
  <2>5. gates["source_signatures"]
    BY <2>2, <2>3, <2>4
  <2> QED  BY <2>1, <2>2, <2>3, <2>5 DEF gates
<1>2. OP!TypeOK
  BY <1>1 DEF OP!TypeOK, OpInvariant
<1>3. ASSUME OP!SourcesSigned(request)
      PROVE  \A d \in OP!Domains : \A f \in OP!Owned(d) : f \in DOMAIN vouched /\ vouched[f] = request[f]
  <2>1. Rows(request.attestations, 8)
    BY DEF OpInvariant, Signers
  <2>2. \A d \in OpNames : \E i \in 1..8 :
            request.attestations[i].over = <<d, OP!Payload(request, d)>>
    BY <1>3, <2>1, OpDomains DEF OP!SourcesSigned, OP!Covered, OP!SignatureValid, OP!Range, Rows
  <2>3. \A d \in OpNames : OP!Payload(request, d) = OpPay(request)[d]
    BY DEF OpPay
  <2>4. \A d \in DOMAIN OpOwn : \E i \in 1..8 :
            request.attestations[i].over = <<d, OpPay(request)[d]>>
    BY <2>2, <2>3, OpParts
  <2> DEFINE pay == OpPay(request)
  <2>5. Placed(OpOwn, OpAt, DOMAIN OpOwn, pay, request)
    BY OpParts
  <2> HIDE DEF pay
  <2>6. \A d \in DOMAIN OpOwn : \A f \in OpOwn[d] : f \in DOMAIN vouched /\ vouched[f] = request[f]
    BY <2>4, <2>5, SignedParts DEF OpInvariant, Signers, Attested, pay
  <2> QED  BY <2>6, OpParts, OpDomains
<1> QED  BY <1>1, <1>2, <1>3 DEF OP!PlannedAsSigned

(* Only the attestations tell the sources' answers of two packages apart.   *)
LEMMA OpUnmoved ==
    ASSUME NEW r, NEW b, \A f \in OpFields \ {"attestations"} : b[f] = r[f]
    PROVE  /\ \A d \in OpNames : OP!Payload(b, d) = OP!Payload(r, d)
           /\ OP!ReferencesHold(b) = OP!ReferencesHold(r)
<1>1. /\ b.slots = r.slots /\ b.calls = r.calls /\ b.berths = r.berths /\ b.cranes = r.cranes
      /\ b.yards = r.yards /\ b.gates = r.gates /\ b.appointments = r.appointments
      /\ b.batches = r.batches /\ b.energy = r.energy /\ b.storage = r.storage
  BY DEF OpFields
<1>2. \A d \in OpNames : OP!Payload(b, d) = OP!Payload(r, d)
  BY <1>1 DEF OP!Payload
<1>3. OP!SlotsComplete(b) = OP!SlotsComplete(r)
  BY <1>1 DEF OP!SlotsComplete
<1>4. OP!ReferencesHold(b) = OP!ReferencesHold(r)
  BY <1>1, <1>3 DEF OP!ReferencesHold
<1> QED  BY <1>2, <1>4

(* Sources that sign again what is there are all that a blocked request     *)
(* with its references lacks.                                               *)
LEMMA OpPending ==
    ASSUME OpInvariant, "k1" \in Trusted
    PROVE  OP!BlockedNeedsOnlySources
<1> DEFINE r == request
           rows == [i \in DOMAIN OP!DomainSeq |-> [OP!Attestation(OP!DomainSeq[i]) EXCEPT !.observed = r.at]]
           fresh == [r EXCEPT !.attestations = rows]
           b == OP!Signed(fresh, OP!Domains, "k1")
           bs == b.attestations
<1> SUFFICES ASSUME OP!ReferencesHold(r), NEW x \in OP!Reports(b)
             PROVE  x.status # "blocked"
  BY Zenon DEF OP!BlockedNeedsOnlySources
<1>1. /\ DOMAIN fresh = DOMAIN r /\ fresh.attestations = rows
      /\ \A f \in OpFields \ {"attestations"} : fresh[f] = r[f]
  BY DEF OpInvariant
<1>2. /\ DOMAIN rows = 1..8
      /\ \A i \in 1..8 : /\ rows[i].domain = OP!DomainSeq[i] /\ rows[i].live /\ rows[i].observed = r.at
                          /\ {"domain", "key", "observed", "live", "over"} = DOMAIN rows[i]
  BY OpDomains DEF OP!Attestation
<1>3. \A i \in 1..8 : OP!DomainSeq[i] \in OP!Domains
  BY OpDomains DEF OP!Domains, OP!Range
<1>4. /\ \A f \in OpFields \ {"attestations"} : b[f] = r[f]
      /\ bs = [i \in DOMAIN rows |-> IF rows[i].domain \notin OP!Domains THEN rows[i]
                   ELSE [rows[i] EXCEPT !.key = "k1", !.over = <<rows[i].domain, OP!Payload(fresh, rows[i].domain)>>]]
  <2>1. b = [fresh EXCEPT !.attestations = [i \in DOMAIN rows |-> IF rows[i].domain \notin OP!Domains THEN rows[i]
                   ELSE [rows[i] EXCEPT !.key = "k1", !.over = <<rows[i].domain, OP!Payload(fresh, rows[i].domain)>>]]]
    BY <1>1 DEF OP!Signed
  <2>2. OpFields = DOMAIN fresh /\ "attestations" \in DOMAIN fresh
    BY <1>1 DEF OpInvariant
  <2> HIDE DEF rows, fresh, b
  <2> QED  BY <1>1, <2>1, <2>2 DEF bs
<1> HIDE DEF rows, fresh, b
<1>5. \A d \in OpNames : OP!Payload(fresh, d) = OP!Payload(b, d)
  <2>1. \A f \in OpFields \ {"attestations"} : b[f] = fresh[f]
    BY <1>1, <1>4
  <2> QED  BY <2>1, OpUnmoved
<1>6. OP!ReferencesHold(b)
  BY <1>4, OpUnmoved
<1>7. FreshRows(bs, 8, OP!DomainSeq, r.at, OpPay(b))
  <2>1. DOMAIN bs = 1..8
    BY <1>2, <1>4
  <2>2. ASSUME NEW i \in 1..8
        PROVE  /\ bs[i].domain = OP!DomainSeq[i] /\ bs[i].key = "k1" /\ bs[i].live /\ bs[i].observed = r.at
               /\ bs[i].over = <<OP!DomainSeq[i], OpPay(b)[OP!DomainSeq[i]]>>
    <3>1. OP!DomainSeq[i] \in OpNames
      BY <1>3, OpDomains
    <3>2. bs[i] = [rows[i] EXCEPT !.key = "k1", !.over = <<rows[i].domain, OP!Payload(fresh, rows[i].domain)>>]
      BY <1>2, <1>3, <1>4
    <3>3. bs[i].over = <<OP!DomainSeq[i], OP!Payload(fresh, OP!DomainSeq[i])>>
      BY <1>2, <3>2
    <3>4. OP!Payload(fresh, OP!DomainSeq[i]) = OpPay(b)[OP!DomainSeq[i]]
      BY <1>5, <3>1 DEF OpPay
    <3> QED  BY <1>2, <3>2, <3>3, <3>4
  <2> QED  BY <2>1, <2>2 DEF FreshRows
<1>8. \A i, j \in 1..8 : OP!DomainSeq[i] = OP!DomainSeq[j] => i = j
  BY DEF OP!DomainSeq
<1>9. r.at \in Int /\ r.policy.age \in Nat /\ r.policy.alignment \in Nat /\ b.at = r.at /\ b.policy = r.policy
  BY <1>4 DEF OpInvariant, OpFields, Dated
<1> HIDE DEF bs
<1>10. /\ \A i, j \in DOMAIN bs : bs[i].domain = bs[j].domain => i = j
       /\ {a.domain : a \in {bs[i] : i \in DOMAIN bs}} = {OP!DomainSeq[i] : i \in 1..8}
       /\ \A a \in {bs[i] : i \in DOMAIN bs} : a.key \in Trusted /\ a.over = <<a.domain, OpPay(b)[a.domain]>>
       /\ \A a, c \in {bs[i] : i \in DOMAIN bs} :
            a.live /\ 0 <= r.at - a.observed /\ r.at - a.observed <= r.policy.age
            /\ a.observed - c.observed <= r.policy.alignment
  <2>1. "k1" \in Trusted /\ 8 \in Nat /\ r.at \in Int /\ r.policy.age \in Nat /\ r.policy.alignment \in Nat
    BY <1>9
  <2>2. TrustedRows(bs, 8, OP!DomainSeq, r.at, OpPay(b), r.policy.age, r.policy.alignment)
    BY <1>7, <1>8, <2>1, FreshTrusted
  <2> QED  BY <2>2 DEF TrustedRows
<1> DEFINE all == {bs[i] : i \in DOMAIN bs}
<1>11. OP!Range(b.attestations) = all
  BY DEF OP!Range, bs
<1>12. {a.domain : a \in all} = OP!Domains
  BY <1>10, OpDomains DEF OP!Domains, OP!Range
<1> HIDE DEF all
<1>13. OP!Covered(b)
  BY <1>6, <1>10, <1>11, <1>12 DEF OP!Covered, OP!Distinct, bs
<1>14. OP!SourcesSigned(b)
  <2>1. ASSUME NEW a \in all PROVE OP!SignatureValid(b, a)
    <3>1. a.domain \in OpNames
      BY <1>12, OpDomains
    <3>2. a.key \in Trusted /\ a.over = <<a.domain, OpPay(b)[a.domain]>>
      BY <1>10 DEF all
    <3> QED  BY <3>1, <3>2 DEF OP!SignatureValid, OpPay
  <2> QED  BY <1>11, <1>13, <2>1 DEF OP!SourcesSigned
<1>15. OP!FreshAndAligned(b)
  BY <1>9, <1>10, <1>11, <1>13 DEF OP!FreshAndAligned, all
<1>16. PICK s, t, trips :
            LET gates == OP!Gates(b, s, trips, t)
                blockers == {g \in DOMAIN gates : ~gates[g]}
            IN  /\ x.passed = DOMAIN gates \ blockers
                /\ x.status = IF blockers = {} THEN "advisory_plan_ready"
                              ELSE IF blockers \cap OP!SourceGates = {} THEN "infeasible" ELSE "blocked"
  <2>1. x \in OP!Reports(b)
    OBVIOUS
  <2> QED  BY <2>1, OpAnswer
<1>17. \A g \in OP!SourceGates : OP!Gates(b, s, trips, t)[g]
  <2>1. OP!Gates(b, s, trips, t).source_domain_coverage = OP!Covered(b)
    BY DEF OP!Gates
  <2>2. OP!Gates(b, s, trips, t).source_signatures = OP!SourcesSigned(b)
    BY DEF OP!Gates
  <2>3. OP!Gates(b, s, trips, t).source_freshness_alignment = OP!FreshAndAligned(b)
    BY DEF OP!Gates
  <2> QED  BY <1>13, <1>14, <1>15, <2>1, <2>2, <2>3 DEF OP!SourceGates
<1> QED  BY <1>16, <1>17

-----------------------------------------------------------------------------
(* Network.                                                              *)

EnNames == {"single_line_topology", "scada_switchgear", "power_quality_meters",
            "transformer_monitoring", "charging_management", "battery_management_system"}
EnOwn == [d \in EnNames |-> EN!Owned(d)]
EnAt == [buses |-> 1, branches |-> 2, sources |-> 3, outages |-> 4, islands |-> 5,
         switches |-> 1, meters |-> 1, thermals |-> 1, pools |-> 1, warranties |-> 1]
EnPay(r) == [d \in EnNames |-> EN!Payload(r, d)]

EnFields == {"at", "policy", "buses", "branches", "switches", "sources", "meters", "thermals", "pools",
             "warranties", "outages", "islands", "attestations"}

EnInvariant ==
    /\ "attestations" \in DOMAIN request
    /\ DOMAIN request = EnFields /\ Dated(request)
    /\ Signers(request.attestations, 6, vouched, EnOwn, EnAt)
    /\ edits \in 0..PackageEdits
    /\ report = EN!DefaultReport \/ report = EN!Report(request)

LEMMA EnDomains == EN!Domains = EnNames /\ DOMAIN EN!DomainSeq = 1..6
<1>1. DOMAIN EN!DomainSeq = 1..6
  BY DEF EN!DomainSeq
<1>2. EN!Domains = {EN!DomainSeq[i] : i \in 1..6}
  BY <1>1 DEF EN!Domains, EN!Range
<1>3. {EN!DomainSeq[i] : i \in 1..6}
      = {EN!DomainSeq[1], EN!DomainSeq[2], EN!DomainSeq[3], EN!DomainSeq[4], EN!DomainSeq[5],
         EN!DomainSeq[6]}
  OBVIOUS
<1>4. /\ EN!DomainSeq[1] = "single_line_topology"
      /\ EN!DomainSeq[2] = "scada_switchgear"
      /\ EN!DomainSeq[3] = "power_quality_meters"
      /\ EN!DomainSeq[4] = "transformer_monitoring"
      /\ EN!DomainSeq[5] = "charging_management"
      /\ EN!DomainSeq[6] = "battery_management_system"
  BY DEF EN!DomainSeq
<1> QED  BY <1>1, <1>2, <1>3, <1>4 DEF EnNames

LEMMA EnParts ==
    /\ DOMAIN EnOwn = EnNames /\ \A d \in EnNames : EnOwn[d] = EN!Owned(d)
    /\ OwnersApart(EnOwn) /\ \A r : Placed(EnOwn, EnAt, EnNames, EnPay(r), r)
<1>1. DOMAIN EnOwn = EnNames /\ \A d \in EnNames : EnOwn[d] = EN!Owned(d)
  BY DEF EnOwn
<1>2. /\ EN!Owned("single_line_topology") = {"buses", "branches", "sources", "outages", "islands"}
      /\ EN!Owned("scada_switchgear") = {"switches"}
      /\ EN!Owned("power_quality_meters") = {"meters"}
      /\ EN!Owned("transformer_monitoring") = {"thermals"}
      /\ EN!Owned("charging_management") = {"pools"}
      /\ EN!Owned("battery_management_system") = {"warranties"}
  BY DEF EN!Owned
<1>3. OwnersApart(EnOwn)
  BY <1>1, <1>2 DEF EnNames, OwnersApart
<1>4. ASSUME NEW r, NEW d \in EnNames, NEW f \in EnOwn[d]
      PROVE  EnPay(r)[d][EnAt[f]] = r[f]
  <2>1. EnPay(r)[d] = EN!Payload(r, d)
    BY DEF EnPay
  <2>2. /\ EN!Payload(r, "single_line_topology") = <<r.buses, r.branches, r.sources, r.outages, r.islands>>
        /\ EN!Payload(r, "scada_switchgear") = <<r.switches>>
        /\ EN!Payload(r, "power_quality_meters") = <<r.meters>>
        /\ EN!Payload(r, "transformer_monitoring") = <<r.thermals>>
        /\ EN!Payload(r, "charging_management") = <<r.pools>>
        /\ EN!Payload(r, "battery_management_system") = <<r.warranties>>
    BY DEF EN!Payload
  <2>3. /\ EnAt.buses = 1
        /\ EnAt.branches = 2
        /\ EnAt.sources = 3
        /\ EnAt.outages = 4
        /\ EnAt.islands = 5
        /\ EnAt.switches = 1
        /\ EnAt.meters = 1
        /\ EnAt.thermals = 1
        /\ EnAt.pools = 1
        /\ EnAt.warranties = 1
    BY DEF EnAt
  <2>4. \/ d = "single_line_topology" /\ f \in {"buses", "branches", "sources", "outages", "islands"}
        \/ d = "scada_switchgear" /\ f \in {"switches"}
        \/ d = "power_quality_meters" /\ f \in {"meters"}
        \/ d = "transformer_monitoring" /\ f \in {"thermals"}
        \/ d = "charging_management" /\ f \in {"pools"}
        \/ d = "battery_management_system" /\ f \in {"warranties"}
    <3>1. f \in EN!Owned(d)
      BY <1>1, <1>4
    <3>2. CASE d = "single_line_topology"
      BY <1>2, <3>1, <3>2
    <3>3. CASE d = "scada_switchgear"
      BY <1>2, <3>1, <3>3
    <3>4. CASE d = "power_quality_meters"
      BY <1>2, <3>1, <3>4
    <3>5. CASE d = "transformer_monitoring"
      BY <1>2, <3>1, <3>5
    <3>6. CASE d = "charging_management"
      BY <1>2, <3>1, <3>6
    <3>7. CASE d = "battery_management_system"
      BY <1>2, <3>1, <3>7
    <3> QED  BY <3>2, <3>3, <3>4, <3>5, <3>6, <3>7 DEF EnNames
  <2> QED  BY <2>1, <2>2, <2>3, <2>4
<1> QED  BY <1>1, <1>3, <1>4 DEF Placed

LEMMA EnEdits ==
    ASSUME NEW r, "attestations" \in DOMAIN r, NEW e \in EN!Edited(r)
    PROVE  Retouched(e, r, 2)
<1>1. \/ e.attestations = r.attestations
      \/ e = [r EXCEPT !.attestations[1].live = FALSE]
      \/ e = [r EXCEPT !.attestations[2].observed = 2]
      \/ e = [r EXCEPT !.attestations[3].domain = r.attestations[4].domain]
  <2>1. CASE e \in EN!EditedGrid(r)
    BY <2>1, ZenonT(60) DEF EN!EditedGrid
  <2>2. CASE e \in EN!EditedSupply(r)
    BY <2>2, ZenonT(60) DEF EN!EditedSupply
  <2>3. CASE e \in EN!EditedMeters(r)
    BY <2>3, SMTT(60) DEF EN!EditedMeters
  <2>4. CASE e \in EN!EditedTerms(r)
    BY <2>4, ZenonT(60) DEF EN!EditedTerms
  <2> QED  BY <2>1, <2>2, <2>3, <2>4 DEF EN!Edited
<1>2. DOMAIN e = DOMAIN r
  <2>1. CASE e \in EN!EditedGrid(r)
    BY <2>1, ZenonT(60) DEF EN!EditedGrid
  <2>2. CASE e \in EN!EditedSupply(r)
    BY <2>2, ZenonT(60) DEF EN!EditedSupply
  <2>3. CASE e \in EN!EditedMeters(r)
    BY <2>3, SMTT(60) DEF EN!EditedMeters
  <2>4. CASE e \in EN!EditedTerms(r)
    BY <2>4, ZenonT(60) DEF EN!EditedTerms
  <2> QED  BY <2>1, <2>2, <2>3, <2>4 DEF EN!Edited
<1> QED  BY <1>1, <1>2 DEF Retouched

LEMMA EnEditDated ==
    ASSUME NEW r, Dated(r), NEW e \in EN!Edited(r), DOMAIN e = DOMAIN r
    PROVE  Dated(e)
<1>0. "at" \in DOMAIN r /\ "policy" \in DOMAIN r /\ r.at \in Int /\ Terms(r.policy)
  BY DEF Dated, Terms
<1>1. CASE e \in EN!EditedGrid(r)
  <2>1. e.at = r.at
    BY <1>0, <1>1, ZenonT(60) DEF EN!EditedGrid
  <2>2. e.policy = r.policy
    BY <1>0, <1>1, ZenonT(60) DEF EN!EditedGrid
  <2>3. Terms(e.policy)
    BY <1>0, <2>2, TermsKept
  <2> QED  BY <1>0, <2>1, <2>3 DEF Dated, Terms
<1>2. CASE e \in EN!EditedSupply(r)
  <2>1. e.at = r.at
    BY <1>0, <1>2, ZenonT(60) DEF EN!EditedSupply
  <2>2. \/ e.policy = r.policy
        \/ \E x : \E f \in {"island", "outage"} : e.policy = [r.policy EXCEPT ![f] = x]
    BY <1>0, <1>2, ZenonT(60) DEF EN!EditedSupply
  <2>3. Terms(e.policy)
    BY <1>0, <2>2, TermsKept
  <2> QED  BY <1>0, <2>1, <2>3 DEF Dated, Terms
<1>3. CASE e \in EN!EditedMeters(r)
  <2>1. e.at = r.at
    BY <1>0, <1>3, SMTT(60) DEF EN!EditedMeters
  <2>2. e.policy = r.policy
    BY <1>0, <1>3, SMTT(60) DEF EN!EditedMeters
  <2>3. Terms(e.policy)
    BY <1>0, <2>2, TermsKept
  <2> QED  BY <1>0, <2>1, <2>3 DEF Dated, Terms
<1>4. CASE e \in EN!EditedTerms(r)
  <2>1. e.at \in {r.at, 4}
    BY <1>0, <1>4, ZenonT(60) DEF EN!EditedTerms
  <2>2. \/ e.policy = r.policy \/ e.policy = [r.policy EXCEPT !.age = 1]
        \/ e.policy = [r.policy EXCEPT !.factor = 99]
    BY <1>0, <1>4, ZenonT(60) DEF EN!EditedTerms
  <2>3. Terms(e.policy)
    BY <1>0, <2>2, TermsKept
  <2> QED  BY <1>0, <2>1, <2>3 DEF Dated, Terms
<1> QED  BY <1>1, <1>2, <1>3, <1>4 DEF EN!Edited

LEMMA EnInitially ==
    ASSUME PackageEdits \in Nat, EN!Init PROVE EnInvariant
<1>1. "attestations" \in DOMAIN request /\ request.attestations = [i \in 1..6 |-> EN!Attestation(EN!DomainSeq[i])]
  BY EnDomains DEF EN!Init, EN!Package
<1>2. \A d : {"domain", "key", "over"} \subseteq DOMAIN EN!Attestation(d) /\ EN!Attestation(d).over = Unsigned
  BY DEF EN!Attestation, EN!None, Unsigned
<1>3. Rows(request.attestations, 6) /\ \A i \in 1..6 : request.attestations[i].over = Unsigned
  BY <1>1, <1>2 DEF Rows
<1>4. Signers(request.attestations, 6, vouched, EnOwn, EnAt)
  BY <1>3, UnsignedRows
<1>5. DOMAIN request = EnFields /\ Dated(request)
  BY DEF EN!Init, EN!Package, EN!Policy, EnFields, Dated
<1> QED  BY <1>1, <1>4, <1>5 DEF EN!Init, EnInvariant, EN!DefaultReport

LEMMA EnSigned ==
    ASSUME NEW r, "attestations" \in DOMAIN r, NEW content, Signers(r.attestations, 6, content, EnOwn, EnAt),
           Apart(r.attestations, 6), NEW domains, domains \subseteq EnNames, NEW key,
           NEW next, Vouched(content, EnOwn, domains, r, next)
    PROVE  Signers(EN!Signed(r, domains, key).attestations, 6, next, EnOwn, EnAt)
<1> DEFINE s == EN!Signed(r, domains, key)
           as == r.attestations
           bs == s.attestations
<1>1. Rows(as, 6)
  BY DEF Signers
<1>2. /\ DOMAIN s = DOMAIN r
      /\ bs = [i \in 1..6 |-> IF as[i].domain \notin domains THEN as[i]
                              ELSE [as[i] EXCEPT !.key = key, !.over = <<as[i].domain, EN!Payload(r, as[i].domain)>>]]
  BY <1>1 DEF EN!Signed, Rows
<1> HIDE DEF s, bs
<1>3. /\ DOMAIN bs = 1..6 /\ \A i \in 1..6 : DOMAIN bs[i] = DOMAIN as[i] /\ bs[i].domain = as[i].domain
      /\ \A i \in 1..6 : as[i].domain \in domains => bs[i].over = <<as[i].domain, EN!Payload(r, as[i].domain)>>
      /\ \A i \in 1..6 : as[i].domain \notin domains => bs[i].over = as[i].over
  BY <1>1, <1>2 DEF Rows
<1>4. \A i \in 1..6 : as[i].domain \in domains => EN!Payload(r, as[i].domain) = EnPay(r)[as[i].domain]
  BY DEF EnPay
<1>5. \A i \in 1..6 : as[i].domain \in domains => bs[i].over = <<as[i].domain, EnPay(r)[as[i].domain]>>
  BY <1>3, <1>4
<1>6. Rows(bs, 6)
  BY <1>1, <1>3 DEF Rows
<1>8. domains \subseteq DOMAIN EnOwn /\ OwnersApart(EnOwn) /\ Placed(EnOwn, EnAt, domains, EnPay(r), r)
  BY EnParts DEF Placed
<1>9. Resigned(as, bs, 6, domains, EnPay(r))
  BY <1>3, <1>5, <1>6 DEF Resigned
<1>10. Signers(as, 6, content, EnOwn, EnAt) /\ Apart(as, 6)
  OBVIOUS
<1> HIDE DEF as
<1>13. Signers(bs, 6, next, EnOwn, EnAt)
  BY <1>8, <1>9, <1>10, SignedRows
<1> QED  BY <1>13 DEF s, bs

LEMMA EnNext ==
    ASSUME PackageEdits \in Nat, EnInvariant, EN!Next \/ UNCHANGED <<request, report, edits, vouched>>
    PROVE  EnInvariant'
<1>1. CASE EN!Edit
  <2>1. PICK r \in EN!Edited(request) : request' = r
    BY <1>1 DEF EN!Edit
  <2>2. "attestations" \in DOMAIN r /\ Signers(r.attestations, 6, vouched, EnOwn, EnAt)
    <3>1. Retouched(r, request, 2)
      BY <2>1, EnEdits DEF EnInvariant
    <3> QED  BY <3>1, EditedPackage DEF EnInvariant
  <2>4. DOMAIN r = EnFields /\ Dated(r)
    <3>1. DOMAIN r = DOMAIN request
      BY <2>1, EnEdits DEF Retouched, EnInvariant
    <3>2. Dated(r)
      BY <2>1, <3>1, EnEditDated DEF EnInvariant
    <3> QED  BY <3>1, <3>2 DEF EnInvariant
  <2>3. report' = EN!DefaultReport /\ vouched' = vouched /\ edits' \in 0..PackageEdits
    BY <1>1 DEF EN!Edit, EnInvariant
  <2> QED  BY <2>1, <2>2, <2>3, <2>4 DEF EnInvariant
<1>2. CASE EN!Sign
  <2>1. PICK domains \in {EN!Domains, {"scada_switchgear"}, {"single_line_topology"}}, key \in {"k1", "k2"} :
            LET fields == UNION {EN!Owned(d) : d \in domains}
            IN  /\ request' = EN!Signed(request, domains, key)
                /\ vouched' = [f \in fields \cup DOMAIN vouched |->
                                IF f \in fields THEN request[f] ELSE vouched[f]]
    BY <1>2 DEF EN!Sign
  <2>2. domains \subseteq EnNames
    BY EnDomains DEF EnNames
  <2>3. Apart(request.attestations, 6)
    BY <1>2 DEF EN!Sign, EN!Distinct, Apart, EnInvariant, Signers, Rows
  <2>4. report' = EN!DefaultReport /\ edits' = edits
    BY <1>2 DEF EN!Sign
  <2> DEFINE fields == UNION {EN!Owned(d) : d \in domains}
             next == [f \in fields \cup DOMAIN vouched |-> IF f \in fields THEN request[f] ELSE vouched[f]]
             s == EN!Signed(request, domains, key)
  <2>5. request' = s /\ vouched' = next
    BY <2>1
  <2>6. Vouched(vouched, EnOwn, domains, request, next)
    <3>1. {EN!Owned(d) : d \in domains} = {EnOwn[d] : d \in domains}
      BY <2>2, EnParts
    <3> QED  BY <3>1 DEF Vouched
  <2> HIDE DEF next, fields
  <2>7. Signers(s.attestations, 6, next, EnOwn, EnAt)
    <3>1. "attestations" \in DOMAIN request /\ Signers(request.attestations, 6, vouched, EnOwn, EnAt)
      BY DEF EnInvariant
    <3> QED  BY <2>2, <2>3, <2>6, <3>1, EnSigned, Zenon
  <2>8. DOMAIN s = DOMAIN request /\ \A f \in DOMAIN request \ {"attestations"} : s[f] = request[f]
    BY DEF EN!Signed
  <2> HIDE DEF s
  <2>9. Dated(s)
    BY <2>8 DEF EnInvariant, Dated
  <2> QED  BY <2>4, <2>5, <2>7, <2>8, <2>9 DEF EnInvariant
<1>3. CASE EN!Evaluate
  BY <1>3 DEF EN!Evaluate, EnInvariant
<1>4. CASE UNCHANGED <<request, report, edits, vouched>>
  BY <1>4 DEF EnInvariant
<1> QED  BY <1>1, <1>2, <1>3, <1>4 DEF EN!Next

LEMMA EnAsSigned ==
    ASSUME EnInvariant, EN!SourcesSigned(request)
    PROVE  \A d \in EN!Domains : \A f \in EN!Owned(d) : f \in DOMAIN vouched /\ vouched[f] = request[f]
<1>1. Rows(request.attestations, 6)
  BY DEF EnInvariant, Signers
<1>2. \A d \in EnNames : \E i \in 1..6 :
          request.attestations[i].over = <<d, EN!Payload(request, d)>>
  BY <1>1, EnDomains DEF EN!SourcesSigned, EN!Covered, EN!SignatureValid, EN!Range, Rows
<1>3. \A d \in EnNames : EN!Payload(request, d) = EnPay(request)[d]
  BY DEF EnPay
<1>4. \A d \in DOMAIN EnOwn : \E i \in 1..6 :
          request.attestations[i].over = <<d, EnPay(request)[d]>>
  BY <1>2, <1>3, EnParts
<1> DEFINE pay == EnPay(request)
<1>5. Placed(EnOwn, EnAt, DOMAIN EnOwn, pay, request)
  BY EnParts
<1> HIDE DEF pay
<1>6. \A d \in DOMAIN EnOwn : \A f \in EnOwn[d] : f \in DOMAIN vouched /\ vouched[f] = request[f]
  BY <1>4, <1>5, SignedParts DEF EnInvariant, Signers, Attested, pay
<1> QED  BY <1>6, EnParts, EnDomains

LEMMA EnSound ==
    ASSUME EnInvariant
    PROVE  EN!TypeOK /\ EN!AssessedAsSigned
<1>1. CASE report = EN!DefaultReport
  BY <1>1 DEF EN!DefaultReport, EN!TypeOK, EN!AssessedAsSigned, EnInvariant
<1>2. CASE report = EN!Report(request)
  <2> DEFINE state == EN!Normal(request)
             gates == EN!Gates(request, state)
             blockers == {g \in DOMAIN gates : ~gates[g]}
  <2>1. /\ report.passed = DOMAIN gates \ blockers
        /\ report.status # "blocked" => blockers \cap EN!SourceGates = {}
    BY <1>2 DEF EN!Report, EN!Judged
  <2>2. /\ EN!SourceGates \subseteq DOMAIN gates /\ "source_signatures" \in EN!SourceGates
        /\ gates["source_signatures"] = EN!SourcesSigned(request)
    BY DEF EN!Gates, EN!SourceGates
  <2> HIDE DEF gates
  <2>3. report.status # "blocked" => EN!SourcesSigned(request) /\ EN!SourceGates \subseteq report.passed
    BY <2>1, <2>2
  <2> QED  BY <2>3, EnAsSigned DEF EN!TypeOK, EN!AssessedAsSigned, EnInvariant
<1> QED  BY <1>1, <1>2 DEF EnInvariant

(* Only the attestations tell the sources' answers of two packages apart.  *)
LEMMA EnUnmoved ==
    ASSUME NEW r, NEW b, \A f \in EnFields \ {"attestations"} : b[f] = r[f]
    PROVE  \A d \in EnNames : EN!Payload(b, d) = EN!Payload(r, d)
<1>1. /\ b.buses = r.buses /\ b.branches = r.branches /\ b.sources = r.sources /\ b.outages = r.outages
      /\ b.islands = r.islands /\ b.switches = r.switches /\ b.meters = r.meters /\ b.thermals = r.thermals
      /\ b.pools = r.pools /\ b.warranties = r.warranties
  BY DEF EnFields
<1> QED  BY <1>1 DEF EN!Payload

(* Sources that sign again what is there are all that a blocked request    *)
(* lacks.                                                                  *)
LEMMA EnPending ==
    ASSUME EnInvariant, "k1" \in Trusted
    PROVE  EN!BlockedNeedsOnlySources
<1> DEFINE r == request
           rows == [i \in DOMAIN EN!DomainSeq |-> [EN!Attestation(EN!DomainSeq[i]) EXCEPT !.observed = r.at]]
           fresh == [r EXCEPT !.attestations = rows]
           b == EN!Signed(fresh, EN!Domains, "k1")
           bs == b.attestations
<1> SUFFICES EN!Report(b).status # "blocked"
  BY Zenon DEF EN!BlockedNeedsOnlySources
<1>1. /\ DOMAIN fresh = DOMAIN r /\ fresh.attestations = rows
      /\ \A f \in EnFields \ {"attestations"} : fresh[f] = r[f]
  BY DEF EnInvariant
<1>2. /\ DOMAIN rows = 1..6
      /\ \A i \in 1..6 : /\ rows[i].domain = EN!DomainSeq[i] /\ rows[i].live /\ rows[i].observed = r.at
                          /\ {"domain", "key", "observed", "live", "over"} = DOMAIN rows[i]
  BY EnDomains DEF EN!Attestation
<1>3. \A i \in 1..6 : EN!DomainSeq[i] \in EN!Domains
  BY EnDomains DEF EN!Domains, EN!Range
<1>4. /\ \A f \in EnFields \ {"attestations"} : b[f] = r[f]
      /\ bs = [i \in DOMAIN rows |-> IF rows[i].domain \notin EN!Domains THEN rows[i]
                   ELSE [rows[i] EXCEPT !.key = "k1", !.over = <<rows[i].domain, EN!Payload(fresh, rows[i].domain)>>]]
  <2>1. b = [fresh EXCEPT !.attestations = [i \in DOMAIN rows |-> IF rows[i].domain \notin EN!Domains THEN rows[i]
                   ELSE [rows[i] EXCEPT !.key = "k1", !.over = <<rows[i].domain, EN!Payload(fresh, rows[i].domain)>>]]]
    BY <1>1 DEF EN!Signed
  <2>2. EnFields = DOMAIN fresh /\ "attestations" \in DOMAIN fresh
    BY <1>1 DEF EnInvariant
  <2> HIDE DEF rows, fresh, b
  <2> QED  BY <1>1, <2>1, <2>2 DEF bs
<1> HIDE DEF rows, fresh, b
<1>5. \A d \in EnNames : EN!Payload(fresh, d) = EN!Payload(b, d)
  <2>1. \A f \in EnFields \ {"attestations"} : b[f] = fresh[f]
    BY <1>1, <1>4
  <2> QED  BY <2>1, EnUnmoved
<1>7. FreshRows(bs, 6, EN!DomainSeq, r.at, EnPay(b))
  <2>1. DOMAIN bs = 1..6
    BY <1>2, <1>4
  <2>2. ASSUME NEW i \in 1..6
        PROVE  /\ bs[i].domain = EN!DomainSeq[i] /\ bs[i].key = "k1" /\ bs[i].live /\ bs[i].observed = r.at
               /\ bs[i].over = <<EN!DomainSeq[i], EnPay(b)[EN!DomainSeq[i]]>>
    <3>1. EN!DomainSeq[i] \in EnNames
      BY <1>3, EnDomains
    <3>2. bs[i] = [rows[i] EXCEPT !.key = "k1", !.over = <<rows[i].domain, EN!Payload(fresh, rows[i].domain)>>]
      BY <1>2, <1>3, <1>4
    <3>3. bs[i].over = <<EN!DomainSeq[i], EN!Payload(fresh, EN!DomainSeq[i])>>
      BY <1>2, <3>2
    <3>4. EN!Payload(fresh, EN!DomainSeq[i]) = EnPay(b)[EN!DomainSeq[i]]
      BY <1>5, <3>1 DEF EnPay
    <3> QED  BY <1>2, <3>2, <3>3, <3>4
  <2> QED  BY <2>1, <2>2 DEF FreshRows
<1>8. \A i, j \in 1..6 : EN!DomainSeq[i] = EN!DomainSeq[j] => i = j
  BY DEF EN!DomainSeq
<1>9. r.at \in Int /\ r.policy.age \in Nat /\ r.policy.alignment \in Nat /\ b.at = r.at /\ b.policy = r.policy
  BY <1>4 DEF EnInvariant, EnFields, Dated
<1> HIDE DEF bs
<1>10. /\ \A i, j \in DOMAIN bs : bs[i].domain = bs[j].domain => i = j
       /\ {a.domain : a \in {bs[i] : i \in DOMAIN bs}} = {EN!DomainSeq[i] : i \in 1..6}
       /\ \A a \in {bs[i] : i \in DOMAIN bs} : a.key \in Trusted /\ a.over = <<a.domain, EnPay(b)[a.domain]>>
       /\ \A a, c \in {bs[i] : i \in DOMAIN bs} :
            a.live /\ 0 <= r.at - a.observed /\ r.at - a.observed <= r.policy.age
            /\ a.observed - c.observed <= r.policy.alignment
  <2>1. "k1" \in Trusted /\ 6 \in Nat /\ r.at \in Int /\ r.policy.age \in Nat /\ r.policy.alignment \in Nat
    BY <1>9
  <2>2. TrustedRows(bs, 6, EN!DomainSeq, r.at, EnPay(b), r.policy.age, r.policy.alignment)
    BY <1>7, <1>8, <2>1, FreshTrusted
  <2> QED  BY <2>2 DEF TrustedRows
<1> DEFINE all == {bs[i] : i \in DOMAIN bs}
<1>11. EN!Range(b.attestations) = all
  BY DEF EN!Range, bs
<1>12. {a.domain : a \in all} = EN!Domains
  BY <1>10, EnDomains DEF EN!Domains, EN!Range
<1> HIDE DEF all
<1>13. EN!Covered(b)
  BY <1>10, <1>11, <1>12 DEF EN!Covered, EN!Distinct, bs
<1>14. \A a \in all : EN!SignatureValid(b, a)
  <2>1. ASSUME NEW a \in all PROVE EN!SignatureValid(b, a)
    <3>1. a.domain \in EnNames
      BY <1>12, EnDomains
    <3>2. a.key \in Trusted /\ a.over = <<a.domain, EnPay(b)[a.domain]>>
      BY <1>10 DEF all
    <3> QED  BY <3>1, <3>2 DEF EN!SignatureValid, EnPay
  <2> QED  BY <2>1
<1>15. EN!SourcesSigned(b)
  BY <1>11, <1>13, <1>14 DEF EN!SourcesSigned
<1>16. EN!FreshAndAligned(b)
  BY <1>9, <1>10, <1>11, <1>13 DEF EN!FreshAndAligned, all
<1> DEFINE gates == EN!Gates(b, EN!Normal(b))
<1>17. /\ gates.source_domain_coverage = EN!Covered(b) /\ gates.source_signatures = EN!SourcesSigned(b)
       /\ gates.source_freshness_alignment = EN!FreshAndAligned(b)
  BY DEF EN!Gates
<1> HIDE DEF gates
<1>18. \A g \in EN!SourceGates : gates[g]
  BY <1>13, <1>15, <1>16, <1>17 DEF EN!SourceGates
<1>19. {g \in DOMAIN gates : ~gates[g]} \cap EN!SourceGates = {}
  BY <1>18
<1> QED  BY <1>19 DEF EN!Report, EN!Judged, gates

-----------------------------------------------------------------------------
(* Settlement.                                                           *)

CsNames == {"utility_tariff_invoice", "revenue_metering", "demand_response",
            "ancillary_services", "power_purchase_agreement", "renewable_certificate_registry",
            "tenant_billing", "investment_and_mv"}
CsOwn == [d \in CsNames |-> CS!Owned(d)]
CsAt == [f \in UNION {CsOwn[d] : d \in CsNames} |-> f]
CsPay(r) == [d \in CsNames |-> CS!Payload(r, d)]

CsFields == {"at", "policy", "tariff", "intervals", "invoice", "responses", "ancillaries", "ppa",
             "certificates", "tenants", "mv", "measures", "approvals", "attestations"}

CsInvariant ==
    /\ "attestations" \in DOMAIN request
    /\ DOMAIN request = CsFields /\ Dated(request)
    /\ Signers(request.attestations, 8, vouched, CsOwn, CsAt)
    /\ edits \in 0..PackageEdits
    /\ report = CS!DefaultReport \/ report = CS!Report(request)

LEMMA CsDomains == CS!Domains = CsNames /\ DOMAIN CS!DomainSeq = 1..8
<1>1. DOMAIN CS!DomainSeq = 1..8
  BY DEF CS!DomainSeq
<1>2. CS!Domains = {CS!DomainSeq[i] : i \in 1..8}
  BY <1>1 DEF CS!Domains, CS!Range
<1>3. {CS!DomainSeq[i] : i \in 1..8}
      = {CS!DomainSeq[1], CS!DomainSeq[2], CS!DomainSeq[3], CS!DomainSeq[4], CS!DomainSeq[5],
         CS!DomainSeq[6], CS!DomainSeq[7], CS!DomainSeq[8]}
  OBVIOUS
<1>4. /\ CS!DomainSeq[1] = "utility_tariff_invoice"
      /\ CS!DomainSeq[2] = "revenue_metering"
      /\ CS!DomainSeq[3] = "demand_response"
      /\ CS!DomainSeq[4] = "ancillary_services"
      /\ CS!DomainSeq[5] = "power_purchase_agreement"
      /\ CS!DomainSeq[6] = "renewable_certificate_registry"
      /\ CS!DomainSeq[7] = "tenant_billing"
      /\ CS!DomainSeq[8] = "investment_and_mv"
  BY DEF CS!DomainSeq
<1> QED  BY <1>1, <1>2, <1>3, <1>4 DEF CsNames

LEMMA CsParts ==
    /\ DOMAIN CsOwn = CsNames /\ \A d \in CsNames : CsOwn[d] = CS!Owned(d)
    /\ OwnersApart(CsOwn) /\ \A r : Placed(CsOwn, CsAt, CsNames, CsPay(r), r)
<1>1. DOMAIN CsOwn = CsNames /\ \A d \in CsNames : CsOwn[d] = CS!Owned(d)
  BY DEF CsOwn
<1>2. /\ CS!Owned("utility_tariff_invoice") = {"tariff", "invoice"}
      /\ CS!Owned("revenue_metering") = {"intervals"}
      /\ CS!Owned("demand_response") = {"responses"}
      /\ CS!Owned("ancillary_services") = {"ancillaries"}
      /\ CS!Owned("power_purchase_agreement") = {"ppa"}
      /\ CS!Owned("renewable_certificate_registry") = {"certificates"}
      /\ CS!Owned("tenant_billing") = {"tenants"}
      /\ CS!Owned("investment_and_mv") = {"mv", "measures", "approvals"}
  BY DEF CS!Owned
<1>3. OwnersApart(CsOwn)
  BY <1>1, <1>2 DEF CsNames, OwnersApart
<1>4. ASSUME NEW r, NEW d \in CsNames, NEW f \in CsOwn[d]
      PROVE  CsPay(r)[d][CsAt[f]] = r[f]
  <2>1. CsPay(r)[d] = CS!Payload(r, d)
    BY DEF CsPay
  <2>2. CsAt[f] = f
    BY DEF CsAt
  <2>3. CS!Payload(r, d)[f] = r[f]
    BY <1>1, <1>4 DEF CS!Payload
  <2> QED  BY <2>1, <2>2, <2>3
<1> QED  BY <1>1, <1>3, <1>4 DEF Placed

(* What the edits of the investments leave alone.                          *)
CsTuned(p, q) == p = q \/ p = [q EXCEPT !.discount = 0]

LEMMA CsInvestments ==
    ASSUME NEW r, NEW e \in CS!EditedInvestments(r)
    PROVE  /\ DOMAIN e = DOMAIN r
           /\ \A f \in DOMAIN r \ {"mv", "measures", "policy"} : e[f] = r[f]
           /\ "policy" \in DOMAIN r => CsTuned(e.policy, r.policy)
<1> DEFINE Kept(x) ==
      /\ DOMAIN x = DOMAIN r /\ \A f \in DOMAIN r \ {"mv", "measures", "policy"} : x[f] = r[f]
      /\ "policy" \in DOMAIN r => CsTuned(x.policy, r.policy)
<1> DEFINE o1 == [r EXCEPT !.mv.kwh = 40]
           o2 == [r EXCEPT !.mv.status = "calculated_only"]
           o3 == [r EXCEPT !.mv.period = "p0"]
           o4 == [r EXCEPT !.measures[2].claim = "peak"]
           o5 == [r EXCEPT !.measures[1].om = 400]
           o6 == [r EXCEPT !.measures[1].om = -100]
           o7 == [r EXCEPT !.measures[1].savings = [peak |-> 5, offpeak |-> 5]]
           o8 == [r EXCEPT !.measures[1].savings = [valley |-> 10]]
           o9 == [r EXCEPT !.measures[2].capex = 20 * @]
           o10 == [r EXCEPT !.measures[1].carbon = 0, !.measures[2].carbon = 3]
           o11 == [r EXCEPT !.measures[1].carbon = 2]
           o12 == [r EXCEPT !.measures[1].approved = FALSE]
           o13 == [r EXCEPT !.policy.discount = 0]
           o14 == [r EXCEPT !.measures = [i \in 1..Len(@) |-> @[Len(@) + 1 - i]]]
<1>o1. Kept(o1) /\ Kept(o2) /\ Kept(o3) /\ Kept(o4) /\ Kept(o5) /\ Kept(o6)
  BY DEF CsTuned
<1>o7. Kept(o7) /\ Kept(o8) /\ Kept(o9) /\ Kept(o10) /\ Kept(o11) /\ Kept(o12)
  BY DEF CsTuned
<1>o13. Kept(o13) /\ Kept(o14)
  BY DEF CsTuned
<1>e. e \in {o1, o2, o3, o4, o5, o6, o7, o8, o9, o10, o11, o12, o13, o14}
  BY DEF CS!EditedInvestments
<1> HIDE DEF Kept, o1, o2, o3, o4, o5, o6, o7, o8, o9, o10, o11, o12, o13, o14
<1>k. Kept(e)
  BY <1>e, <1>o1, <1>o7, <1>o13
<1> QED  BY <1>k DEF Kept

LEMMA CsEdits ==
    ASSUME NEW r, "attestations" \in DOMAIN r, NEW e \in CS!Edited(r)
    PROVE  Retouched(e, r, 6)
<1>1. \/ e.attestations = r.attestations
      \/ e = [r EXCEPT !.attestations[1].live = FALSE]
      \/ e = [r EXCEPT !.attestations[2].observed = 6]
      \/ e = [r EXCEPT !.attestations[3].domain = r.attestations[4].domain]
  <2>1. CASE e \in CS!EditedBills(r)
    <3>1. e.attestations = r.attestations
      BY <2>1, ZenonT(60) DEF CS!EditedBills
    <3> QED  BY <3>1
  <2>2. CASE e \in CS!EditedInvoices(r)
    <3>1. e.attestations = r.attestations
      BY <2>2, ZenonT(60) DEF CS!EditedInvoices
    <3> QED  BY <3>1
  <2>3. CASE e \in CS!EditedMarkets(r)
    <3>1. e.attestations = r.attestations
      BY <2>3, ZenonT(60) DEF CS!EditedMarkets
    <3> QED  BY <3>1
  <2>4. CASE e \in CS!EditedInvestments(r)
    <3>1. e.attestations = r.attestations
      BY <2>4, CsInvestments
    <3> QED  BY <3>1
  <2>5. CASE e \in CS!EditedApprovals(r)
    BY <2>5, ZenonT(60) DEF CS!EditedApprovals
  <2> QED  BY <2>1, <2>2, <2>3, <2>4, <2>5 DEF CS!Edited
<1>2. DOMAIN e = DOMAIN r
  <2>1. CASE e \in CS!EditedBills(r)
    BY <2>1, ZenonT(60) DEF CS!EditedBills
  <2>2. CASE e \in CS!EditedInvoices(r)
    BY <2>2, ZenonT(60) DEF CS!EditedInvoices
  <2>3. CASE e \in CS!EditedMarkets(r)
    BY <2>3, ZenonT(60) DEF CS!EditedMarkets
  <2>4. CASE e \in CS!EditedInvestments(r)
    BY <2>4, CsInvestments
  <2>5. CASE e \in CS!EditedApprovals(r)
    BY <2>5, ZenonT(60) DEF CS!EditedApprovals
  <2> QED  BY <2>1, <2>2, <2>3, <2>4, <2>5 DEF CS!Edited
<1> QED  BY <1>1, <1>2 DEF Retouched

LEMMA CsEditDated ==
    ASSUME NEW r, Dated(r), NEW e \in CS!Edited(r), DOMAIN e = DOMAIN r
    PROVE  Dated(e)
<1>a. "at" \in DOMAIN r
  BY DEF Dated
<1>p. "policy" \in DOMAIN r
  BY DEF Dated
<1>t. "age" \in DOMAIN r.policy
  BY DEF Dated
<1>0. r.at \in Int /\ Terms(r.policy)
  BY DEF Dated, Terms
<1>1. CASE e \in CS!EditedBills(r)
  <2>1. e.at = r.at
    BY <1>a, <1>1, ZenonT(60) DEF CS!EditedBills
  <2> DEFINE Kept(x) == Terms(x.policy)
  <2>2. Kept([r EXCEPT !.tariff.rates = [peak |-> 2]])
    BY <1>0, <1>p
  <2>3. Kept([r EXCEPT !.tariff.rates.peak = 3])
    BY <1>0, <1>p
  <2>4. Kept([r EXCEPT !.tariff.through = 3])
    BY <1>0, <1>p
  <2>5. Kept([r EXCEPT !.tariff.currency = "USD"])
    BY <1>0, <1>p
  <2>6. Kept([r EXCEPT !.policy.end = 5])
    BY <1>0, <1>p DEF Terms
  <2>7. Kept([r EXCEPT !.policy.amountPct = 10])
    BY <1>0, <1>p DEF Terms
  <2>8. Kept([r EXCEPT !.policy.tenantPct = 10])
    BY <1>0, <1>p DEF Terms
  <2>9. Kept([r EXCEPT !.policy.energyPct = 5, !.invoice.kwh = 310, !.tenants[1].kwh = 170])
    BY <1>0, <1>p DEF Terms
  <2>10. Kept([r EXCEPT !.policy.amountPct = 5, !.policy.tenantPct = 3, !.invoice.energy = 410, !.invoice.total = 571])
    BY <1>0, <1>p DEF Terms
  <2> HIDE DEF Kept
  <2>11. Kept(e)
    BY <1>1, <2>2, <2>3, <2>4, <2>5, <2>6, <2>7, <2>8, <2>9, <2>10 DEF CS!EditedBills
  <2>12. Terms(e.policy)
    BY <2>11 DEF Kept
  <2> QED  BY <1>0, <2>1, <2>12 DEF Dated, Terms
<1>2. CASE e \in CS!EditedInvoices(r)
  <2>1. e.at = r.at
    BY <1>a, <1>2, ZenonT(60) DEF CS!EditedInvoices
  <2> DEFINE Kept(x) == Terms(x.policy)
             e1 == [r EXCEPT !.intervals[1].kwh = 110]
             e2 == [r EXCEPT !.intervals[2].kw = 60]
             e3 == [r EXCEPT !.intervals[2].id = "i1"]
             e4 == [r EXCEPT !.intervals[1].quality = "estimated"]
             e5 == [r EXCEPT !.intervals[2].period = "peak"]
             e6 == [r EXCEPT !.intervals[1].end = 5]
             e7 == [r EXCEPT !.intervals = CS!Append(@, CS!Interval("i3", 0, 2, "peak", 0, 0)), !.policy.intervals = 3]
             e8 == [r EXCEPT !.invoice.kwh = 310]
             e9 == [r EXCEPT !.invoice.total = 571]
             e10 == [r EXCEPT !.invoice.meter = "n"]
             e11 == [r EXCEPT !.invoice.energy = 410, !.invoice.total = 571]
             e12 == [r EXCEPT !.invoice.status = "approved"]
             e13 == [r EXCEPT !.invoice.receipt = FALSE]
             e14 == [r EXCEPT !.tariff.fixed = 20, !.invoice.fixed = 20]
  <2>2. Kept(e1) /\ Kept(e2) /\ Kept(e3) /\ Kept(e4) /\ Kept(e5) /\ Kept(e6)
    BY <1>0, <1>p
  <2>8. Kept(e7)
    BY <1>0, <1>p DEF Terms
  <2>9. Kept(e8) /\ Kept(e9) /\ Kept(e10) /\ Kept(e11) /\ Kept(e12) /\ Kept(e13)
    BY <1>0, <1>p
  <2>15. Kept(e14)
    BY <1>0, <1>p
  <2>16. e \in {e1, e2, e3, e4, e5, e6, e7, e8, e9, e10, e11, e12, e13, e14}
    BY <1>2 DEF CS!EditedInvoices
  <2> HIDE DEF Kept, e1, e2, e3, e4, e5, e6, e7, e8, e9, e10, e11, e12, e13, e14
  <2>17. Kept(e)
    BY <2>2, <2>8, <2>9, <2>15, <2>16
  <2>18. Terms(e.policy)
    BY <2>17 DEF Kept
  <2> QED  BY <1>0, <2>1, <2>18 DEF Dated, Terms
<1>3. CASE e \in CS!EditedMarkets(r)
  <2>1. e.at = r.at
    BY <1>a, <1>p, <1>3, ZenonT(60) DEF CS!EditedMarkets
  <2>2. e.policy = r.policy
    BY <1>a, <1>p, <1>3, ZenonT(60) DEF CS!EditedMarkets
  <2>3. Terms(e.policy)
    BY <1>0, <2>2, TermsKept
  <2> QED  BY <1>0, <2>1, <2>3 DEF Dated, Terms
<1>4. CASE e \in CS!EditedInvestments(r)
  <2>1. e.at = r.at
    BY <1>a, <1>4, CsInvestments
  <2>2. e.policy = r.policy \/ e.policy = [r.policy EXCEPT !.discount = 0]
    <3>1. CsTuned(e.policy, r.policy)
      BY <1>p, <1>4, CsInvestments
    <3> QED  BY <3>1 DEF CsTuned
  <2>3. Terms(e.policy)
    BY <1>0, <2>2, TermsKept
  <2> QED  BY <1>0, <2>1, <2>3 DEF Dated, Terms
<1>5. CASE e \in CS!EditedApprovals(r)
  <2>1. e.at \in {r.at, 7}
    BY <1>a, <1>p, <1>5, ZenonT(60) DEF CS!EditedApprovals
  <2>2. e.policy = r.policy
    BY <1>a, <1>p, <1>5, ZenonT(60) DEF CS!EditedApprovals
  <2>3. Terms(e.policy)
    BY <1>0, <2>2, TermsKept
  <2> QED  BY <1>0, <2>1, <2>3 DEF Dated, Terms
<1> QED  BY <1>1, <1>2, <1>3, <1>4, <1>5 DEF CS!Edited

LEMMA CsInitially ==
    ASSUME PackageEdits \in Nat, CS!Init PROVE CsInvariant
<1>1. "attestations" \in DOMAIN request /\ request.attestations = [i \in 1..8 |-> CS!Attestation(CS!DomainSeq[i])]
  BY CsDomains DEF CS!Init, CS!Package
<1>2. \A d : {"domain", "key", "over"} \subseteq DOMAIN CS!Attestation(d) /\ CS!Attestation(d).over = Unsigned
  BY DEF CS!Attestation, CS!None, Unsigned
<1>3. Rows(request.attestations, 8) /\ \A i \in 1..8 : request.attestations[i].over = Unsigned
  BY <1>1, <1>2 DEF Rows
<1>4. Signers(request.attestations, 8, vouched, CsOwn, CsAt)
  BY <1>3, UnsignedRows
<1>5. DOMAIN request = CsFields /\ Dated(request)
  BY DEF CS!Init, CS!Package, CS!Policy, CsFields, Dated
<1> QED  BY <1>1, <1>4, <1>5 DEF CS!Init, CsInvariant, CS!DefaultReport

LEMMA CsSigned ==
    ASSUME NEW r, "attestations" \in DOMAIN r, NEW content, Signers(r.attestations, 8, content, CsOwn, CsAt),
           Apart(r.attestations, 8), NEW domains, domains \subseteq CsNames, NEW key,
           NEW next, Vouched(content, CsOwn, domains, r, next)
    PROVE  Signers(CS!Signed(r, domains, key).attestations, 8, next, CsOwn, CsAt)
<1> DEFINE s == CS!Signed(r, domains, key)
           as == r.attestations
           bs == s.attestations
<1>1. Rows(as, 8)
  BY DEF Signers
<1>2. /\ DOMAIN s = DOMAIN r
      /\ bs = [i \in 1..8 |-> IF as[i].domain \notin domains THEN as[i]
                              ELSE [as[i] EXCEPT !.key = key, !.over = <<as[i].domain, CS!Payload(r, as[i].domain)>>]]
  BY <1>1 DEF CS!Signed, Rows
<1> HIDE DEF s, bs
<1>3. /\ DOMAIN bs = 1..8 /\ \A i \in 1..8 : DOMAIN bs[i] = DOMAIN as[i] /\ bs[i].domain = as[i].domain
      /\ \A i \in 1..8 : as[i].domain \in domains => bs[i].over = <<as[i].domain, CS!Payload(r, as[i].domain)>>
      /\ \A i \in 1..8 : as[i].domain \notin domains => bs[i].over = as[i].over
  BY <1>1, <1>2 DEF Rows
<1>4. \A i \in 1..8 : as[i].domain \in domains => CS!Payload(r, as[i].domain) = CsPay(r)[as[i].domain]
  BY DEF CsPay
<1>5. \A i \in 1..8 : as[i].domain \in domains => bs[i].over = <<as[i].domain, CsPay(r)[as[i].domain]>>
  BY <1>3, <1>4
<1>6. Rows(bs, 8)
  BY <1>1, <1>3 DEF Rows
<1>8. domains \subseteq DOMAIN CsOwn /\ OwnersApart(CsOwn) /\ Placed(CsOwn, CsAt, domains, CsPay(r), r)
  BY CsParts DEF Placed
<1>9. Resigned(as, bs, 8, domains, CsPay(r))
  BY <1>3, <1>5, <1>6 DEF Resigned
<1>10. Signers(as, 8, content, CsOwn, CsAt) /\ Apart(as, 8)
  OBVIOUS
<1> HIDE DEF as
<1>13. Signers(bs, 8, next, CsOwn, CsAt)
  BY <1>8, <1>9, <1>10, SignedRows
<1> QED  BY <1>13 DEF s, bs

LEMMA CsNext ==
    ASSUME PackageEdits \in Nat, CsInvariant, CS!Next \/ UNCHANGED <<request, report, edits, vouched>>
    PROVE  CsInvariant'
<1>1. CASE CS!Edit
  <2>1. PICK r \in CS!Edited(request) : request' = r
    BY <1>1 DEF CS!Edit
  <2>2. "attestations" \in DOMAIN r /\ Signers(r.attestations, 8, vouched, CsOwn, CsAt)
    <3>1. Retouched(r, request, 6)
      BY <2>1, CsEdits DEF CsInvariant
    <3> QED  BY <3>1, EditedPackage DEF CsInvariant
  <2>4. DOMAIN r = CsFields /\ Dated(r)
    <3>1. DOMAIN r = DOMAIN request
      BY <2>1, CsEdits DEF Retouched, CsInvariant
    <3>2. Dated(r)
      BY <2>1, <3>1, CsEditDated DEF CsInvariant
    <3> QED  BY <3>1, <3>2 DEF CsInvariant
  <2>3. report' = CS!DefaultReport /\ vouched' = vouched /\ edits' \in 0..PackageEdits
    BY <1>1 DEF CS!Edit, CsInvariant
  <2> QED  BY <2>1, <2>2, <2>3, <2>4 DEF CsInvariant
<1>2. CASE CS!Sign
  <2>1. PICK domains \in {CS!Domains, {"tenant_billing"}, {"investment_and_mv"}}, key \in {"k1", "k2"} :
            LET fields == UNION {CS!Owned(d) : d \in domains}
            IN  /\ request' = CS!Signed(request, domains, key)
                /\ vouched' = [f \in fields \cup DOMAIN vouched |->
                                IF f \in fields THEN request[f] ELSE vouched[f]]
    BY <1>2 DEF CS!Sign
  <2>2. domains \subseteq CsNames
    BY CsDomains DEF CsNames
  <2>3. Apart(request.attestations, 8)
    BY <1>2 DEF CS!Sign, CS!Covered, CS!Distinct, Apart, CsInvariant, Signers, Rows
  <2>4. report' = CS!DefaultReport /\ edits' = edits
    BY <1>2 DEF CS!Sign
  <2> DEFINE fields == UNION {CS!Owned(d) : d \in domains}
             next == [f \in fields \cup DOMAIN vouched |-> IF f \in fields THEN request[f] ELSE vouched[f]]
             s == CS!Signed(request, domains, key)
  <2>5. request' = s /\ vouched' = next
    BY <2>1
  <2>6. Vouched(vouched, CsOwn, domains, request, next)
    <3>1. {CS!Owned(d) : d \in domains} = {CsOwn[d] : d \in domains}
      BY <2>2, CsParts
    <3> QED  BY <3>1 DEF Vouched
  <2> HIDE DEF next, fields
  <2>7. Signers(s.attestations, 8, next, CsOwn, CsAt)
    <3>1. "attestations" \in DOMAIN request /\ Signers(request.attestations, 8, vouched, CsOwn, CsAt)
      BY DEF CsInvariant
    <3> QED  BY <2>2, <2>3, <2>6, <3>1, CsSigned, Zenon
  <2>8. DOMAIN s = DOMAIN request /\ \A f \in DOMAIN request \ {"attestations"} : s[f] = request[f]
    BY DEF CS!Signed
  <2> HIDE DEF s
  <2>9. Dated(s)
    BY <2>8 DEF CsInvariant, Dated
  <2> QED  BY <2>4, <2>5, <2>7, <2>8, <2>9 DEF CsInvariant
<1>3. CASE CS!Evaluate
  BY <1>3 DEF CS!Evaluate, CsInvariant
<1>4. CASE UNCHANGED <<request, report, edits, vouched>>
  BY <1>4 DEF CsInvariant
<1> QED  BY <1>1, <1>2, <1>3, <1>4 DEF CS!Next

LEMMA CsAsSigned ==
    ASSUME CsInvariant, CS!SourcesSigned(request)
    PROVE  \A d \in CS!Domains : \A f \in CS!Owned(d) : f \in DOMAIN vouched /\ vouched[f] = request[f]
<1>1. Rows(request.attestations, 8)
  BY DEF CsInvariant, Signers
<1>2. \A d \in CsNames : \E i \in 1..8 :
          request.attestations[i].over = <<d, CS!Payload(request, d)>>
  BY <1>1, CsDomains DEF CS!SourcesSigned, CS!Covered, CS!SignatureValid, CS!Range, Rows
<1>3. \A d \in CsNames : CS!Payload(request, d) = CsPay(request)[d]
  BY DEF CsPay
<1>4. \A d \in DOMAIN CsOwn : \E i \in 1..8 :
          request.attestations[i].over = <<d, CsPay(request)[d]>>
  BY <1>2, <1>3, CsParts
<1> DEFINE pay == CsPay(request)
<1>5. Placed(CsOwn, CsAt, DOMAIN CsOwn, pay, request)
  BY CsParts
<1> HIDE DEF pay
<1>6. \A d \in DOMAIN CsOwn : \A f \in CsOwn[d] : f \in DOMAIN vouched /\ vouched[f] = request[f]
  BY <1>4, <1>5, SignedParts DEF CsInvariant, Signers, Attested, pay
<1> QED  BY <1>6, CsParts, CsDomains

(* Two people of two offices signed one rule when approval counts as dual.  *)
LEMMA CsApprovers ==
    ASSUME NEW r, CS!DualApproval(r)
    PROVE  \E f, e \in CS!Range(r.approvals) :
               /\ f.role = "finance" /\ e.role = "energy_manager" /\ f.by # e.by
               /\ \A a \in {f, e} : a.decision = "approved" /\ a.rule = r.policy.rule
<1> DEFINE A == {x \in CS!Range(r.approvals) : x.decision = "approved"}
<1>1. /\ {a.role : a \in A} = {"finance", "energy_manager"}
      /\ \A i, j \in DOMAIN r.approvals : r.approvals[i].by = r.approvals[j].by => i = j
      /\ \A a \in CS!Range(r.approvals) : a.rule = r.policy.rule
  BY DEF CS!DualApproval, CS!Distinct
<1>2. \E f, e \in A : f.role = "finance" /\ e.role = "energy_manager"
  <2>1. "finance" \in {a.role : a \in A} /\ "energy_manager" \in {a.role : a \in A}
    BY <1>1
  <2> HIDE DEF A
  <2> QED  BY <2>1
<1>3. PICK f \in A, e \in A : f.role = "finance" /\ e.role = "energy_manager"
  BY <1>2
<1>4. PICK i \in DOMAIN r.approvals, j \in DOMAIN r.approvals : f = r.approvals[i] /\ e = r.approvals[j]
  BY DEF CS!Range
<1>5. i # j
  <2>1. "finance" # "energy_manager"
    OBVIOUS
  <2> QED  BY <1>3, <1>4, <2>1
<1>6. f.by # e.by
  BY <1>1, <1>4, <1>5
<1>7. f \in CS!Range(r.approvals) /\ e \in CS!Range(r.approvals)
      /\ f.decision = "approved" /\ e.decision = "approved"
  OBVIOUS
<1> HIDE DEF A
<1> QED  BY <1>1, <1>3, <1>6, <1>7

LEMMA CsSound ==
    ASSUME CsInvariant
    PROVE  CS!TypeOK /\ CS!SettledAsSigned /\ CS!TwoApprovers
<1>1. CASE report = CS!DefaultReport
  BY <1>1 DEF CS!DefaultReport, CS!TypeOK, CS!SettledAsSigned, CS!TwoApprovers, CsInvariant
<1>2. CASE report = CS!Report(request)
  <2> DEFINE gates == CS!Gates(request)
             passed == {g \in DOMAIN gates : gates[g]}
             all == passed = DOMAIN gates
             others == DOMAIN gates \ CS!SourceGates \subseteq passed
  <2>1. /\ report.status = IF all THEN "evidence_package_passed"
                           ELSE IF others THEN "reconciled_pending_source_attestation" ELSE "blocked"
        /\ report.verified = IF all THEN CS!Verified(request) ELSE CS!None
    BY <1>2 DEF CS!Report
  <2>2. /\ {"source_signatures", "dual_approval_audit"} \subseteq DOMAIN gates
        /\ "dual_approval_audit" \notin CS!SourceGates
        /\ gates["source_signatures"] = CS!SourcesSigned(request)
        /\ gates["dual_approval_audit"] = CS!DualApproval(request)
    BY DEF CS!Gates, CS!SourceGates
  <2> HIDE DEF gates
  <2>3. /\ all => CS!SourcesSigned(request)
        /\ all \/ others => CS!DualApproval(request)
    BY <2>2
  <2>4. CS!Verified(request) # CS!None
    <3>1. "invoice" \in DOMAIN CS!Verified(request) /\ "invoice" \notin DOMAIN CS!None
      BY DEF CS!Verified, CS!None
    <3> QED  BY <3>1
  <2> HIDE DEF all, others
  <2>5. CS!TypeOK
    BY <2>1, <2>4 DEF CS!TypeOK, CsInvariant
  <2>6. CS!SettledAsSigned
    BY <2>1, <2>3, CsAsSigned DEF CS!SettledAsSigned
  <2>7. CS!TwoApprovers
    <3>1. SUFFICES ASSUME report.status # "blocked" PROVE CS!TwoApprovers
      BY DEF CS!TwoApprovers
    <3>2. CS!DualApproval(request)
      BY <2>1, <2>3, <3>1
    <3> QED  BY <3>2, CsApprovers DEF CS!TwoApprovers
  <2> QED  BY <2>5, <2>6, <2>7
<1> QED  BY <1>1, <1>2 DEF CsInvariant

(* The gates of the settlement do not read the attestations.               *)
LEMMA CsUnmoved ==
    ASSUME NEW r, NEW b, \A f \in CsFields \ {"attestations"} : b[f] = r[f]
    PROVE  /\ \A d \in CsNames : CS!Payload(b, d) = CS!Payload(r, d)
           /\ \A g \in DOMAIN CS!Gates(r) \ CS!SourceGates : CS!Gates(b)[g] = CS!Gates(r)[g]
<1>1. /\ b.policy = r.policy /\ b.tariff = r.tariff /\ b.intervals = r.intervals /\ b.invoice = r.invoice
      /\ b.responses = r.responses /\ b.ancillaries = r.ancillaries /\ b.ppa = r.ppa
      /\ b.certificates = r.certificates /\ b.tenants = r.tenants /\ b.mv = r.mv
      /\ b.measures = r.measures /\ b.approvals = r.approvals
  BY DEF CsFields
<1>2. ASSUME NEW d \in CsNames PROVE CS!Payload(b, d) = CS!Payload(r, d)
  <2>1. CS!Owned(d) \subseteq CsFields \ {"attestations"}
    BY DEF CsNames, CsFields, CS!Owned
  <2> QED  BY <2>1 DEF CS!Payload
<1>3. CS!TariffReady(b) = CS!TariffReady(r) /\ CS!PaymentReady(b) = CS!PaymentReady(r)
  BY <1>1 DEF CS!TariffReady, CS!PaymentReady
<1>4. CS!MeterReady(b) = CS!MeterReady(r)
  BY <1>1 DEF CS!MeterReady
<1>5. CS!MeterEnergy(b) = CS!MeterEnergy(r) /\ CS!MeterPeak(b) = CS!MeterPeak(r)
  BY <1>1 DEF CS!MeterEnergy, CS!MeterPeak
<1>6. \A p : CS!Rate(b, p) = CS!Rate(r, p)
  BY <1>1 DEF CS!Rate
<1>7. CS!Expected(b) = CS!Expected(r)
  <2>1. CS!SumOf(b.intervals, LAMBDA i : i.kwh * CS!Rate(b, i.period))
        = CS!SumOf(r.intervals, LAMBDA i : i.kwh * CS!Rate(r, i.period))
    BY <1>1, <1>6 DEF CS!SumOf
  <2> QED  BY <1>1, <1>5, <2>1 DEF CS!Expected
<1>8. CS!InvoiceReady(b) = CS!InvoiceReady(r)
  BY <1>1, <1>3, <1>4, <1>5, <1>7 DEF CS!InvoiceReady
<1>9. \A x, y : CS!Settled(b, x, y) = CS!Settled(r, x, y)
  BY <1>1 DEF CS!Settled
<1>10. /\ CS!ResponsesReady(b) = CS!ResponsesReady(r) /\ CS!AncillariesReady(b) = CS!AncillariesReady(r)
       /\ CS!PPAReady(b) = CS!PPAReady(r)
  <2>1. CS!ResponsesReady(b) = CS!ResponsesReady(r)
    BY <1>1, <1>9 DEF CS!ResponsesReady
  <2>2. CS!AncillariesReady(b) = CS!AncillariesReady(r)
    BY <1>1, <1>9 DEF CS!AncillariesReady
  <2>3. CS!PPAReady(b) = CS!PPAReady(r)
    BY <1>1, <1>9 DEF CS!PPAReady
  <2> QED  BY <2>1, <2>2, <2>3
<1>11. CS!CertificatesReady(b) = CS!CertificatesReady(r)
  BY <1>1 DEF CS!CertificatesReady
<1>12. CS!Allocable(b) = CS!Allocable(r)
  BY <1>1 DEF CS!Allocable
<1>13. CS!TenantsReady(b) = CS!TenantsReady(r)
  BY <1>1, <1>5, <1>12 DEF CS!TenantsReady
<1>14. CS!MVReady(b) = CS!MVReady(r) /\ CS!InvestmentReady(b) = CS!InvestmentReady(r)
  BY <1>1 DEF CS!MVReady, CS!InvestmentReady
<1>15. \A m : CS!AnnualBenefit(b, m) = CS!AnnualBenefit(r, m)
  <2> TAKE m
  <2>1. [p \in DOMAIN m.savings |-> m.savings[p] * CS!Rate(b, p)]
        = [p \in DOMAIN m.savings |-> m.savings[p] * CS!Rate(r, p)]
    BY <1>6
  <2> QED  BY <1>1, <2>1 DEF CS!AnnualBenefit, CS!AnnualValue
<1>16. CS!EconomicsReady(b) = CS!EconomicsReady(r)
  <2>1. CS!SumOf(b.measures, LAMBDA m : CS!AnnualBenefit(b, m))
        = CS!SumOf(r.measures, LAMBDA m : CS!AnnualBenefit(r, m))
    BY <1>1, <1>15 DEF CS!SumOf
  <2> QED  BY <1>1, <1>14, <1>15, <2>1 DEF CS!EconomicsReady
<1>17. CS!DualApproval(b) = CS!DualApproval(r)
  BY <1>1 DEF CS!DualApproval
<1>18. \A g \in DOMAIN CS!Gates(r) \ CS!SourceGates : CS!Gates(b)[g] = CS!Gates(r)[g]
  <2>1. DOMAIN CS!Gates(r) \ CS!SourceGates
        = {"tariff_contract", "revenue_meter_quality", "utility_invoice_reconciliation",
           "utility_payment_receipt", "demand_response_settlement", "ancillary_service_settlement",
           "ppa_settlement", "renewable_certificate_registry", "tenant_allocation",
           "measurement_verification_link", "investment_approval", "payback_and_macc", "dual_approval_audit"}
    BY DEF CS!Gates, CS!SourceGates
  <2>2. /\ CS!Gates(b).tariff_contract = CS!Gates(r).tariff_contract
        /\ CS!Gates(b).revenue_meter_quality = CS!Gates(r).revenue_meter_quality
        /\ CS!Gates(b).utility_invoice_reconciliation = CS!Gates(r).utility_invoice_reconciliation
        /\ CS!Gates(b).utility_payment_receipt = CS!Gates(r).utility_payment_receipt
        /\ CS!Gates(b).demand_response_settlement = CS!Gates(r).demand_response_settlement
        /\ CS!Gates(b).ancillary_service_settlement = CS!Gates(r).ancillary_service_settlement
        /\ CS!Gates(b).ppa_settlement = CS!Gates(r).ppa_settlement
    BY <1>3, <1>4, <1>8, <1>10 DEF CS!Gates
  <2>3. /\ CS!Gates(b).renewable_certificate_registry = CS!Gates(r).renewable_certificate_registry
        /\ CS!Gates(b).tenant_allocation = CS!Gates(r).tenant_allocation
        /\ CS!Gates(b).measurement_verification_link = CS!Gates(r).measurement_verification_link
        /\ CS!Gates(b).investment_approval = CS!Gates(r).investment_approval
        /\ CS!Gates(b).payback_and_macc = CS!Gates(r).payback_and_macc
        /\ CS!Gates(b).dual_approval_audit = CS!Gates(r).dual_approval_audit
    BY <1>11, <1>13, <1>14, <1>16, <1>17 DEF CS!Gates
  <2> QED  BY <2>1, <2>2, <2>3
<1> QED  BY <1>2, <1>18

(* Sources that sign again what is there are all that a package that waits *)
(* for them lacks.                                                         *)
LEMMA CsPending ==
    ASSUME CsInvariant, "k1" \in Trusted
    PROVE  CS!PendingNeedsOnlySources
<1> DEFINE r == request
           rows == [i \in DOMAIN CS!DomainSeq |-> [CS!Attestation(CS!DomainSeq[i]) EXCEPT !.observed = r.at]]
           fresh == [r EXCEPT !.attestations = rows]
           b == CS!Signed(fresh, CS!Domains, "k1")
           bs == b.attestations
           others == \A g \in DOMAIN CS!Gates(r) \ CS!SourceGates : CS!Gates(r)[g]
<1> SUFFICES ASSUME others PROVE CS!Report(b).status = "evidence_package_passed"
  <2>1. ASSUME report = CS!DefaultReport PROVE report.status # "reconciled_pending_source_attestation"
    BY <2>1 DEF CS!DefaultReport
  <2>2. ASSUME report = CS!Report(r), report.status = "reconciled_pending_source_attestation"
        PROVE  others
    BY <2>2 DEF CS!Report
  <2> QED  BY <2>1, <2>2, Zenon DEF CS!PendingNeedsOnlySources, CsInvariant
<1> HIDE DEF others
<1>1. /\ DOMAIN fresh = DOMAIN r /\ fresh.attestations = rows
      /\ \A f \in CsFields \ {"attestations"} : fresh[f] = r[f]
  BY DEF CsInvariant
<1>2. /\ DOMAIN rows = 1..8
      /\ \A i \in 1..8 : /\ rows[i].domain = CS!DomainSeq[i] /\ rows[i].live /\ rows[i].observed = r.at
                          /\ {"domain", "key", "observed", "live", "over"} = DOMAIN rows[i]
  BY CsDomains DEF CS!Attestation
<1>3. \A i \in 1..8 : CS!DomainSeq[i] \in CS!Domains
  BY CsDomains DEF CS!Domains, CS!Range
<1>4. /\ \A f \in CsFields \ {"attestations"} : b[f] = r[f]
      /\ bs = [i \in DOMAIN rows |-> IF rows[i].domain \notin CS!Domains THEN rows[i]
                   ELSE [rows[i] EXCEPT !.key = "k1", !.over = <<rows[i].domain, CS!Payload(fresh, rows[i].domain)>>]]
  <2>1. b = [fresh EXCEPT !.attestations = [i \in DOMAIN rows |-> IF rows[i].domain \notin CS!Domains THEN rows[i]
                   ELSE [rows[i] EXCEPT !.key = "k1", !.over = <<rows[i].domain, CS!Payload(fresh, rows[i].domain)>>]]]
    BY <1>1 DEF CS!Signed
  <2>2. CsFields = DOMAIN fresh /\ "attestations" \in DOMAIN fresh
    BY <1>1 DEF CsInvariant
  <2> HIDE DEF rows, fresh, b
  <2> QED  BY <1>1, <2>1, <2>2 DEF bs
<1> HIDE DEF rows, fresh, b
<1>5. \A d \in CsNames : CS!Payload(fresh, d) = CS!Payload(b, d)
  <2>1. \A f \in CsFields \ {"attestations"} : b[f] = fresh[f]
    BY <1>1, <1>4
  <2> QED  BY <2>1, CsUnmoved
<1>7. FreshRows(bs, 8, CS!DomainSeq, r.at, CsPay(b))
  <2>1. DOMAIN bs = 1..8
    BY <1>2, <1>4
  <2>2. ASSUME NEW i \in 1..8
        PROVE  /\ bs[i].domain = CS!DomainSeq[i] /\ bs[i].key = "k1" /\ bs[i].live /\ bs[i].observed = r.at
               /\ bs[i].over = <<CS!DomainSeq[i], CsPay(b)[CS!DomainSeq[i]]>>
    <3>1. CS!DomainSeq[i] \in CsNames
      BY <1>3, CsDomains
    <3>2. bs[i] = [rows[i] EXCEPT !.key = "k1", !.over = <<rows[i].domain, CS!Payload(fresh, rows[i].domain)>>]
      BY <1>2, <1>3, <1>4
    <3>3. bs[i].over = <<CS!DomainSeq[i], CS!Payload(fresh, CS!DomainSeq[i])>>
      BY <1>2, <3>2
    <3>4. CS!Payload(fresh, CS!DomainSeq[i]) = CsPay(b)[CS!DomainSeq[i]]
      BY <1>5, <3>1 DEF CsPay
    <3> QED  BY <1>2, <3>2, <3>3, <3>4
  <2> QED  BY <2>1, <2>2 DEF FreshRows
<1>8. \A i, j \in 1..8 : CS!DomainSeq[i] = CS!DomainSeq[j] => i = j
  BY DEF CS!DomainSeq
<1>9. r.at \in Int /\ r.policy.age \in Nat /\ r.policy.alignment \in Nat /\ b.at = r.at /\ b.policy = r.policy
  BY <1>4 DEF CsInvariant, CsFields, Dated
<1> HIDE DEF bs
<1>10. /\ \A i, j \in DOMAIN bs : bs[i].domain = bs[j].domain => i = j
       /\ {a.domain : a \in {bs[i] : i \in DOMAIN bs}} = {CS!DomainSeq[i] : i \in 1..8}
       /\ \A a \in {bs[i] : i \in DOMAIN bs} : a.key \in Trusted /\ a.over = <<a.domain, CsPay(b)[a.domain]>>
       /\ \A a, c \in {bs[i] : i \in DOMAIN bs} :
            a.live /\ 0 <= r.at - a.observed /\ r.at - a.observed <= r.policy.age
            /\ a.observed - c.observed <= r.policy.alignment
  <2>1. "k1" \in Trusted /\ 8 \in Nat /\ r.at \in Int /\ r.policy.age \in Nat /\ r.policy.alignment \in Nat
    BY <1>9
  <2>2. TrustedRows(bs, 8, CS!DomainSeq, r.at, CsPay(b), r.policy.age, r.policy.alignment)
    BY <1>7, <1>8, <2>1, FreshTrusted
  <2> QED  BY <2>2 DEF TrustedRows
<1> DEFINE all == {bs[i] : i \in DOMAIN bs}
<1>11. CS!Range(b.attestations) = all
  BY DEF CS!Range, bs
<1>12. {a.domain : a \in all} = CS!Domains
  BY <1>10, CsDomains DEF CS!Domains, CS!Range
<1> HIDE DEF all
<1>13. CS!Covered(b)
  BY <1>10, <1>11, <1>12 DEF CS!Covered, CS!Distinct, bs
<1>14. \A a \in all : CS!SignatureValid(b, a)
  <2>1. ASSUME NEW a \in all PROVE CS!SignatureValid(b, a)
    <3>1. a.domain \in CsNames
      BY <1>12, CsDomains
    <3>2. a.key \in Trusted /\ a.over = <<a.domain, CsPay(b)[a.domain]>>
      BY <1>10 DEF all
    <3> QED  BY <3>1, <3>2 DEF CS!SignatureValid, CsPay
  <2> QED  BY <2>1
<1>15. CS!SourcesSigned(b)
  BY <1>11, <1>13, <1>14 DEF CS!SourcesSigned
<1>16. CS!FreshAndLive(b)
  BY <1>9, <1>10, <1>11 DEF CS!FreshAndLive, all
<1>17. /\ CS!Gates(b).source_domain_coverage = CS!Covered(b)
       /\ CS!Gates(b).source_signatures = CS!SourcesSigned(b)
       /\ CS!Gates(b).source_time_and_live = CS!FreshAndLive(b)
       /\ DOMAIN CS!Gates(b) = DOMAIN CS!Gates(r)
  BY DEF CS!Gates
<1>18. \A g \in CS!SourceGates : CS!Gates(b)[g]
  BY <1>13, <1>15, <1>16, <1>17 DEF CS!SourceGates
<1>19. \A g \in DOMAIN CS!Gates(r) \ CS!SourceGates : CS!Gates(b)[g]
  BY <1>4, CsUnmoved DEF others
<1>20. \A g \in DOMAIN CS!Gates(b) : CS!Gates(b)[g]
  BY <1>17, <1>18, <1>19
<1> QED  BY <1>20 DEF CS!Report

-----------------------------------------------------------------------------
(* Qualification.                                                        *)

ApNames == {"experiment_registry", "forecast_calibration", "runtime_monitoring",
            "execution_receipts", "fault_campaign", "human_review_log"}
ApOwn == [d \in ApNames |-> AP!Owned(d)]
ApAt == [f \in UNION {ApOwn[d] : d \in ApNames} |-> f]
ApPay(r) == [d \in ApNames |-> AP!Payload(r, d)]

ApFields == {"at", "policy", "artifacts", "pairs", "shadow", "forecasts", "ood", "explanations", "latencies",
             "receipts", "faults", "reviews", "attestations"}

ApInvariant ==
    /\ "attestations" \in DOMAIN request
    /\ DOMAIN request = ApFields /\ Dated(request)
    /\ Signers(request.attestations, 6, vouched, ApOwn, ApAt)
    /\ edits \in 0..PackageEdits
    /\ report = AP!DefaultReport \/ \E lucky \in BOOLEAN : report = AP!Report(request, lucky)

LEMMA ApDomains == AP!Domains = ApNames /\ DOMAIN AP!DomainSeq = 1..6
<1>1. DOMAIN AP!DomainSeq = 1..6
  BY DEF AP!DomainSeq
<1>2. AP!Domains = {AP!DomainSeq[i] : i \in 1..6}
  BY <1>1 DEF AP!Domains, AP!Range
<1>3. {AP!DomainSeq[i] : i \in 1..6}
      = {AP!DomainSeq[1], AP!DomainSeq[2], AP!DomainSeq[3], AP!DomainSeq[4], AP!DomainSeq[5],
         AP!DomainSeq[6]}
  OBVIOUS
<1>4. /\ AP!DomainSeq[1] = "experiment_registry"
      /\ AP!DomainSeq[2] = "forecast_calibration"
      /\ AP!DomainSeq[3] = "runtime_monitoring"
      /\ AP!DomainSeq[4] = "execution_receipts"
      /\ AP!DomainSeq[5] = "fault_campaign"
      /\ AP!DomainSeq[6] = "human_review_log"
  BY DEF AP!DomainSeq
<1> QED  BY <1>1, <1>2, <1>3, <1>4 DEF ApNames

LEMMA ApParts ==
    /\ DOMAIN ApOwn = ApNames /\ \A d \in ApNames : ApOwn[d] = AP!Owned(d)
    /\ OwnersApart(ApOwn) /\ \A r : Placed(ApOwn, ApAt, ApNames, ApPay(r), r)
<1>1. DOMAIN ApOwn = ApNames /\ \A d \in ApNames : ApOwn[d] = AP!Owned(d)
  BY DEF ApOwn
<1>2. /\ AP!Owned("experiment_registry") = {"artifacts", "pairs", "shadow"}
      /\ AP!Owned("forecast_calibration") = {"forecasts"}
      /\ AP!Owned("runtime_monitoring") = {"ood", "explanations", "latencies"}
      /\ AP!Owned("execution_receipts") = {"receipts"}
      /\ AP!Owned("fault_campaign") = {"faults"}
      /\ AP!Owned("human_review_log") = {"reviews"}
  BY DEF AP!Owned
<1>3. OwnersApart(ApOwn)
  BY <1>1, <1>2 DEF ApNames, OwnersApart
<1>4. ASSUME NEW r, NEW d \in ApNames, NEW f \in ApOwn[d]
      PROVE  ApPay(r)[d][ApAt[f]] = r[f]
  <2>1. ApPay(r)[d] = AP!Payload(r, d)
    BY DEF ApPay
  <2>2. ApAt[f] = f
    BY DEF ApAt
  <2>3. AP!Payload(r, d)[f] = r[f]
    BY <1>1, <1>4 DEF AP!Payload
  <2> QED  BY <2>1, <2>2, <2>3
<1> QED  BY <1>1, <1>3, <1>4 DEF Placed

(* What the edits leave alone.                                             *)
ApTuned(p, q) == p = q \/ p = [q EXCEPT !.peak = 10] \/ p = [q EXCEPT !.carbon = 10]

LEMMA ApTrials ==
    ASSUME NEW r, NEW e \in AP!EditedTrials(r)
    PROVE  /\ DOMAIN e = DOMAIN r
           /\ \A f \in DOMAIN r \ {"artifacts", "pairs", "shadow", "policy"} : e[f] = r[f]
           /\ "policy" \in DOMAIN r => ApTuned(e.policy, r.policy)
<1> DEFINE Kept(x) ==
      /\ DOMAIN x = DOMAIN r /\ \A f \in DOMAIN r \ {"artifacts", "pairs", "shadow", "policy"} : x[f] = r[f]
      /\ "policy" \in DOMAIN r => ApTuned(x.policy, r.policy)
<1> DEFINE o1 == [r EXCEPT !.artifacts[1].immutable = FALSE]
           o2 == [r EXCEPT !.artifacts[2].policy = "older"]
           o3 == [r EXCEPT !.artifacts[2].role = "candidate"]
           o4 == [r EXCEPT !.pairs[2].id = "a"]
           o5 == [r EXCEPT !.pairs[1].candidatePolicy = "other"]
           o6 == [r EXCEPT !.pairs[3].seed = 11]
           o7 == [r EXCEPT !.pairs[3].seed = 47]
           o8 == [r EXCEPT !.pairs[2].season = "summer"]
           o9 == [r EXCEPT !.pairs[1].candidate = AP!Metrics(98, 100)]
           o10 == [r EXCEPT !.pairs[1].candidate.carbon = 105]
           o11 == [r EXCEPT !.pairs[1].candidate.peak = 150]
           o12 == [r EXCEPT !.pairs[1].candidate.teu = 90]
           o13 == [r EXCEPT !.pairs[1].candidate.violations = 1]
           o14 == [r EXCEPT !.pairs[1].candidate.breaches = 1]
           o15 == [r EXCEPT !.pairs[1].candidate.breaches = 2, !.pairs[1].baseline.breaches = 2]
           o16 == [r EXCEPT !.pairs[1].candidate.breaches = 3, !.pairs[1].baseline.breaches = 2]
           o17 == [r EXCEPT !.policy.peak = 10, !.pairs[1].candidate.peak = 105]
           o18 == [r EXCEPT !.policy.carbon = 10]
           o19 == [r EXCEPT !.shadow[1].end = 7]
           o20 == [r EXCEPT !.shadow = <<AP!Run("run", 0, 4), AP!Run("two", 4, 8)>>]
           o21 == [r EXCEPT !.shadow = Append(@, AP!Run("run", 8, 9))]
           o22 == [r EXCEPT !.shadow[1].live = FALSE]
<1>o1. Kept(o1) /\ Kept(o2) /\ Kept(o3) /\ Kept(o4) /\ Kept(o5) /\ Kept(o6)
  BY DEF ApTuned
<1>o7. Kept(o7) /\ Kept(o8) /\ Kept(o9) /\ Kept(o10) /\ Kept(o11) /\ Kept(o12)
  BY DEF ApTuned
<1>o13. Kept(o13) /\ Kept(o14) /\ Kept(o15) /\ Kept(o16) /\ Kept(o17) /\ Kept(o18)
  BY DEF ApTuned
<1>o19. Kept(o19) /\ Kept(o20) /\ Kept(o21) /\ Kept(o22)
  BY DEF ApTuned
<1>e. e \in {o1, o2, o3, o4, o5, o6, o7, o8, o9, o10, o11, o12, o13, o14, o15, o16, o17, o18, o19, o20, o21, o22}
  BY DEF AP!EditedTrials
<1> HIDE DEF Kept, o1, o2, o3, o4, o5, o6, o7, o8, o9, o10, o11, o12, o13, o14, o15, o16, o17, o18, o19, o20, o21, o22
<1>k. Kept(e)
  BY <1>e, <1>o1, <1>o7, <1>o13, <1>o19
<1> QED  BY <1>k DEF Kept

LEMMA ApRuntime ==
    ASSUME NEW r, NEW e \in AP!EditedRuntime(r)
    PROVE  /\ DOMAIN e = DOMAIN r
           /\ \A f \in DOMAIN r \ {"forecasts", "ood", "explanations", "receipts", "latencies"} : e[f] = r[f]
<1> DEFINE Kept(x) ==
      /\ DOMAIN x = DOMAIN r /\ \A f \in DOMAIN r \ {"forecasts", "ood", "explanations", "receipts", "latencies"} : x[f] = r[f]
<1> DEFINE o1 == [r EXCEPT !.forecasts[1].actual = 80]
           o2 == [r EXCEPT !.forecasts[4].actual = 110]
           o3 == [r EXCEPT !.forecasts[4].actual = 124]
           o4 == [r EXCEPT !.forecasts[2].decision = "f1"]
           o5 == [r EXCEPT !.ood[1].detected = FALSE]
           o6 == [r EXCEPT !.ood[1].score = 0, !.ood[1].detected = FALSE]
           o7 == [r EXCEPT !.ood[1].suppressed = FALSE]
           o8 == [r EXCEPT !.ood[3].score = 1, !.ood[3].detected = TRUE]
           o9 == [r EXCEPT !.explanations[1].fidelity = 80]
           o10 == [r EXCEPT !.explanations[1].beforeReview = FALSE]
           o11 == [r EXCEPT !.receipts[1].projected.kw = 7]
           o12 == [r EXCEPT !.receipts[1].acknowledged.kw = 6]
           o13 == [r EXCEPT !.receipts[1].acknowledged.kw = 8]
           o14 == [r EXCEPT !.receipts[1].current.kw = -2]
           o15 == [r EXCEPT !.receipts[1].acknowledged = [kvar |-> 5]]
           o16 == [r EXCEPT !.receipts[2].command = "c1"]
           o17 == [r EXCEPT !.receipts[1].ack = 30]
           o18 == [r EXCEPT !.receipts[2].interlocks = FALSE]
           o19 == [r EXCEPT !.latencies[4].total = 120]
           o20 == [r EXCEPT !.latencies[1].total = 160]
           o21 == [r EXCEPT !.latencies[2].timedOut = TRUE]
           o22 == [r EXCEPT !.latencies[1].total = 10]
           o23 == [r EXCEPT !.latencies[2].timedOut = TRUE, !.latencies[2].fallback = TRUE]
<1>o1. Kept(o1) /\ Kept(o2) /\ Kept(o3) /\ Kept(o4) /\ Kept(o5) /\ Kept(o6)
  OBVIOUS
<1>o7. Kept(o7) /\ Kept(o8) /\ Kept(o9) /\ Kept(o10) /\ Kept(o11) /\ Kept(o12)
  OBVIOUS
<1>o13. Kept(o13) /\ Kept(o14) /\ Kept(o15) /\ Kept(o16) /\ Kept(o17) /\ Kept(o18)
  OBVIOUS
<1>o19. Kept(o19) /\ Kept(o20) /\ Kept(o21) /\ Kept(o22) /\ Kept(o23)
  OBVIOUS
<1>e. e \in {o1, o2, o3, o4, o5, o6, o7, o8, o9, o10, o11, o12, o13, o14, o15, o16, o17, o18, o19, o20, o21, o22, o23}
  BY DEF AP!EditedRuntime
<1> HIDE DEF Kept, o1, o2, o3, o4, o5, o6, o7, o8, o9, o10, o11, o12, o13, o14, o15, o16, o17, o18, o19, o20, o21, o22, o23
<1>k. Kept(e)
  BY <1>e, <1>o1, <1>o7, <1>o13, <1>o19
<1> QED  BY <1>k DEF Kept

LEMMA ApEdits ==
    ASSUME NEW r, "attestations" \in DOMAIN r, NEW e \in AP!Edited(r)
    PROVE  Retouched(e, r, 6)
<1>1. \/ e.attestations = r.attestations
      \/ e = [r EXCEPT !.attestations[1].live = FALSE]
      \/ e = [r EXCEPT !.attestations[2].observed = 6]
      \/ e = [r EXCEPT !.attestations[3].domain = r.attestations[4].domain]
  <2>1. CASE e \in AP!EditedTrials(r)
    <3>1. e.attestations = r.attestations
      BY <2>1, ApTrials
    <3> QED  BY <3>1
  <2>2. CASE e \in AP!EditedRuntime(r)
    <3>1. e.attestations = r.attestations
      BY <2>2, ApRuntime
    <3> QED  BY <3>1
  <2>3. CASE e \in AP!EditedOversight(r)
    BY <2>3, ZenonT(60) DEF AP!EditedOversight
  <2> QED  BY <2>1, <2>2, <2>3 DEF AP!Edited
<1>2. DOMAIN e = DOMAIN r
  <2>1. CASE e \in AP!EditedTrials(r)
    BY <2>1, ApTrials
  <2>2. CASE e \in AP!EditedRuntime(r)
    BY <2>2, ApRuntime
  <2>3. CASE e \in AP!EditedOversight(r)
    BY <2>3, ZenonT(60) DEF AP!EditedOversight
  <2> QED  BY <2>1, <2>2, <2>3 DEF AP!Edited
<1> QED  BY <1>1, <1>2 DEF Retouched

LEMMA ApEditDated ==
    ASSUME NEW r, Dated(r), NEW e \in AP!Edited(r), DOMAIN e = DOMAIN r
    PROVE  Dated(e)
<1>0. "at" \in DOMAIN r /\ "policy" \in DOMAIN r /\ r.at \in Int /\ Terms(r.policy)
  BY DEF Dated, Terms
<1>1. CASE e \in AP!EditedTrials(r)
  <2>1. e.at = r.at
    BY <1>0, <1>1, ApTrials
  <2>2. \/ e.policy = r.policy
        \/ e.policy = [r.policy EXCEPT !.peak = 10]
        \/ e.policy = [r.policy EXCEPT !.carbon = 10]
    <3>1. ApTuned(e.policy, r.policy)
      BY <1>0, <1>1, ApTrials
    <3> QED  BY <3>1 DEF ApTuned
  <2>3. Terms(e.policy)
    BY <1>0, <2>2, TermsKept
  <2> QED  BY <1>0, <2>1, <2>3 DEF Dated, Terms
<1>2. CASE e \in AP!EditedRuntime(r)
  <2>1. e.at = r.at
    BY <1>0, <1>2, ApRuntime
  <2>2. e.policy = r.policy
    BY <1>0, <1>2, ApRuntime
  <2>3. Terms(e.policy)
    BY <1>0, <2>2, TermsKept
  <2> QED  BY <1>0, <2>1, <2>3 DEF Dated, Terms
<1>3. CASE e \in AP!EditedOversight(r)
  <2>1. e.at \in {r.at, 12}
    BY <1>0, <1>3, ZenonT(60) DEF AP!EditedOversight
  <2>2. \/ e.policy = r.policy \/ e.policy = [r.policy EXCEPT !.age = 1]
        \/ e.policy = [r.policy EXCEPT !.baseline = "older"]
    BY <1>0, <1>3, ZenonT(60) DEF AP!EditedOversight
  <2>3. Terms(e.policy)
    BY <1>0, <2>2, TermsKept
  <2> QED  BY <1>0, <2>1, <2>3 DEF Dated, Terms
<1> QED  BY <1>1, <1>2, <1>3 DEF AP!Edited

LEMMA ApInitially ==
    ASSUME PackageEdits \in Nat, AP!Init PROVE ApInvariant
<1>1. "attestations" \in DOMAIN request /\ request.attestations = [i \in 1..6 |-> AP!Attestation(AP!DomainSeq[i])]
  BY ApDomains DEF AP!Init, AP!Package
<1>2. \A d : {"domain", "key", "over"} \subseteq DOMAIN AP!Attestation(d) /\ AP!Attestation(d).over = Unsigned
  BY DEF AP!Attestation, AP!None, Unsigned
<1>3. Rows(request.attestations, 6) /\ \A i \in 1..6 : request.attestations[i].over = Unsigned
  BY <1>1, <1>2 DEF Rows
<1>4. Signers(request.attestations, 6, vouched, ApOwn, ApAt)
  BY <1>3, UnsignedRows
<1>5. DOMAIN request = ApFields /\ Dated(request)
  BY DEF AP!Init, AP!Package, AP!Policy, ApFields, Dated
<1> QED  BY <1>1, <1>4, <1>5 DEF AP!Init, ApInvariant, AP!DefaultReport

LEMMA ApSigned ==
    ASSUME NEW r, "attestations" \in DOMAIN r, NEW content, Signers(r.attestations, 6, content, ApOwn, ApAt),
           Apart(r.attestations, 6), NEW domains, domains \subseteq ApNames, NEW key,
           NEW next, Vouched(content, ApOwn, domains, r, next)
    PROVE  Signers(AP!Signed(r, domains, key).attestations, 6, next, ApOwn, ApAt)
<1> DEFINE s == AP!Signed(r, domains, key)
           as == r.attestations
           bs == s.attestations
<1>1. Rows(as, 6)
  BY DEF Signers
<1>2. /\ DOMAIN s = DOMAIN r
      /\ bs = [i \in 1..6 |-> IF as[i].domain \notin domains THEN as[i]
                              ELSE [as[i] EXCEPT !.key = key, !.over = <<as[i].domain, AP!Payload(r, as[i].domain)>>]]
  BY <1>1 DEF AP!Signed, Rows
<1> HIDE DEF s, bs
<1>3. /\ DOMAIN bs = 1..6 /\ \A i \in 1..6 : DOMAIN bs[i] = DOMAIN as[i] /\ bs[i].domain = as[i].domain
      /\ \A i \in 1..6 : as[i].domain \in domains => bs[i].over = <<as[i].domain, AP!Payload(r, as[i].domain)>>
      /\ \A i \in 1..6 : as[i].domain \notin domains => bs[i].over = as[i].over
  BY <1>1, <1>2 DEF Rows
<1>4. \A i \in 1..6 : as[i].domain \in domains => AP!Payload(r, as[i].domain) = ApPay(r)[as[i].domain]
  BY DEF ApPay
<1>5. \A i \in 1..6 : as[i].domain \in domains => bs[i].over = <<as[i].domain, ApPay(r)[as[i].domain]>>
  BY <1>3, <1>4
<1>6. Rows(bs, 6)
  BY <1>1, <1>3 DEF Rows
<1>8. domains \subseteq DOMAIN ApOwn /\ OwnersApart(ApOwn) /\ Placed(ApOwn, ApAt, domains, ApPay(r), r)
  BY ApParts DEF Placed
<1>9. Resigned(as, bs, 6, domains, ApPay(r))
  BY <1>3, <1>5, <1>6 DEF Resigned
<1>10. Signers(as, 6, content, ApOwn, ApAt) /\ Apart(as, 6)
  OBVIOUS
<1> HIDE DEF as
<1>13. Signers(bs, 6, next, ApOwn, ApAt)
  BY <1>8, <1>9, <1>10, SignedRows
<1> QED  BY <1>13 DEF s, bs

LEMMA ApNext ==
    ASSUME PackageEdits \in Nat, ApInvariant, AP!Next \/ UNCHANGED <<request, report, edits, vouched>>
    PROVE  ApInvariant'
<1>1. CASE AP!Edit
  <2>1. PICK r \in AP!Edited(request) : request' = r
    BY <1>1 DEF AP!Edit
  <2>2. "attestations" \in DOMAIN r /\ Signers(r.attestations, 6, vouched, ApOwn, ApAt)
    <3>1. Retouched(r, request, 6)
      BY <2>1, ApEdits DEF ApInvariant
    <3> QED  BY <3>1, EditedPackage DEF ApInvariant
  <2>4. DOMAIN r = ApFields /\ Dated(r)
    <3>1. DOMAIN r = DOMAIN request
      BY <2>1, ApEdits DEF Retouched, ApInvariant
    <3>2. Dated(r)
      BY <2>1, <3>1, ApEditDated DEF ApInvariant
    <3> QED  BY <3>1, <3>2 DEF ApInvariant
  <2>3. report' = AP!DefaultReport /\ vouched' = vouched /\ edits' \in 0..PackageEdits
    BY <1>1 DEF AP!Edit, ApInvariant
  <2> QED  BY <2>1, <2>2, <2>3, <2>4 DEF ApInvariant
<1>2. CASE AP!Sign
  <2>1. PICK domains \in {AP!Domains, {"experiment_registry"}, {"execution_receipts"}}, key \in {"k1", "k2"} :
            LET fields == UNION {AP!Owned(d) : d \in domains}
            IN  /\ request' = AP!Signed(request, domains, key)
                /\ vouched' = [f \in fields \cup DOMAIN vouched |->
                                IF f \in fields THEN request[f] ELSE vouched[f]]
    BY <1>2 DEF AP!Sign
  <2>2. domains \subseteq ApNames
    BY ApDomains DEF ApNames
  <2>3. Apart(request.attestations, 6)
    BY <1>2 DEF AP!Sign, AP!Distinct, Apart, ApInvariant, Signers, Rows
  <2>4. report' = AP!DefaultReport /\ edits' = edits
    BY <1>2 DEF AP!Sign
  <2> DEFINE fields == UNION {AP!Owned(d) : d \in domains}
             next == [f \in fields \cup DOMAIN vouched |-> IF f \in fields THEN request[f] ELSE vouched[f]]
             s == AP!Signed(request, domains, key)
  <2>5. request' = s /\ vouched' = next
    BY <2>1
  <2>6. Vouched(vouched, ApOwn, domains, request, next)
    <3>1. {AP!Owned(d) : d \in domains} = {ApOwn[d] : d \in domains}
      BY <2>2, ApParts
    <3> QED  BY <3>1 DEF Vouched
  <2> HIDE DEF next, fields
  <2>7. Signers(s.attestations, 6, next, ApOwn, ApAt)
    <3>1. "attestations" \in DOMAIN request /\ Signers(request.attestations, 6, vouched, ApOwn, ApAt)
      BY DEF ApInvariant
    <3> QED  BY <2>2, <2>3, <2>6, <3>1, ApSigned, Zenon
  <2>8. DOMAIN s = DOMAIN request /\ \A f \in DOMAIN request \ {"attestations"} : s[f] = request[f]
    BY DEF AP!Signed
  <2> HIDE DEF s
  <2>9. Dated(s)
    BY <2>8 DEF ApInvariant, Dated
  <2> QED  BY <2>4, <2>5, <2>7, <2>8, <2>9 DEF ApInvariant
<1>3. CASE AP!Evaluate
  BY <1>3 DEF AP!Evaluate, ApInvariant
<1>4. CASE UNCHANGED <<request, report, edits, vouched>>
  BY <1>4 DEF ApInvariant
<1> QED  BY <1>1, <1>2, <1>3, <1>4 DEF AP!Next

LEMMA ApAsSigned ==
    ASSUME ApInvariant, AP!SourceReady(request)
    PROVE  \A d \in AP!Domains : \A f \in AP!Owned(d) : f \in DOMAIN vouched /\ vouched[f] = request[f]
<1>1. Rows(request.attestations, 6)
  BY DEF ApInvariant, Signers
<1>2. \A d \in ApNames : \E i \in 1..6 :
          request.attestations[i].over = <<d, AP!Payload(request, d)>>
  BY <1>1, ApDomains DEF AP!SourceReady, AP!Covered, AP!SignatureValid, AP!Range, Rows
<1>3. \A d \in ApNames : AP!Payload(request, d) = ApPay(request)[d]
  BY DEF ApPay
<1>4. \A d \in DOMAIN ApOwn : \E i \in 1..6 :
          request.attestations[i].over = <<d, ApPay(request)[d]>>
  BY <1>2, <1>3, ApParts
<1> DEFINE pay == ApPay(request)
<1>5. Placed(ApOwn, ApAt, DOMAIN ApOwn, pay, request)
  BY ApParts
<1> HIDE DEF pay
<1>6. \A d \in DOMAIN ApOwn : \A f \in ApOwn[d] : f \in DOMAIN vouched /\ vouched[f] = request[f]
  BY <1>4, <1>5, SignedParts DEF ApInvariant, Signers, Attested, pay
<1> QED  BY <1>6, ApParts, ApDomains

LEMMA ApSound ==
    ASSUME ApInvariant
    PROVE  AP!TypeOK /\ AP!QualifiedAsSigned
<1>1. CASE report = AP!DefaultReport
  BY <1>1 DEF AP!DefaultReport, AP!TypeOK, AP!QualifiedAsSigned, ApInvariant
<1>2. ASSUME NEW lucky \in BOOLEAN, report = AP!Report(request, lucky)
      PROVE  AP!TypeOK /\ AP!QualifiedAsSigned
  <2> DEFINE gates == AP!Gates(request, lucky)
             passed == {g \in DOMAIN gates : gates[g]}
  <2>1. /\ report.passed = passed
        /\ report.status # "blocked" => AP!SourceReady(request)
    BY <1>2 DEF AP!Report
  <2>2. /\ {"source_domain_coverage", "source_trust_and_time"} \subseteq DOMAIN gates
        /\ gates["source_domain_coverage"] = AP!Covered(request)
        /\ gates["source_trust_and_time"] = AP!SourceReady(request)
    BY DEF AP!Gates
  <2>3. AP!SourceReady(request) => AP!Covered(request)
    BY DEF AP!SourceReady
  <2> HIDE DEF gates
  <2>4. report.status # "blocked" => AP!SourceGates \subseteq report.passed
    BY <2>1, <2>2, <2>3 DEF AP!SourceGates
  <2> QED  BY <2>1, <2>4, ApAsSigned DEF AP!TypeOK, AP!QualifiedAsSigned, ApInvariant
<1> QED  BY <1>1, <1>2 DEF ApInvariant

(* Only the attestations tell the sources' answers of two packages apart.  *)
LEMMA ApUnmoved ==
    ASSUME NEW r, NEW b, \A f \in ApFields \ {"attestations"} : b[f] = r[f]
    PROVE  \A d \in ApNames : AP!Payload(b, d) = AP!Payload(r, d)
<1> TAKE d \in ApNames
<1>1. AP!Owned(d) \subseteq ApFields \ {"attestations"}
  BY DEF ApNames, ApFields, AP!Owned
<1> QED  BY <1>1 DEF AP!Payload

(* Sources that sign again what is there are all that a blocked request    *)
(* lacks.                                                                  *)
LEMMA ApPending ==
    ASSUME ApInvariant, "k1" \in Trusted
    PROVE  AP!BlockedNeedsOnlySources
<1> DEFINE r == request
           rows == [i \in DOMAIN AP!DomainSeq |-> [AP!Attestation(AP!DomainSeq[i]) EXCEPT !.observed = r.at]]
           fresh == [r EXCEPT !.attestations = rows]
           b == AP!Signed(fresh, AP!Domains, "k1")
           bs == b.attestations
<1> SUFFICES AP!Report(b, FALSE).status # "blocked"
  BY Zenon DEF AP!BlockedNeedsOnlySources
<1>1. /\ DOMAIN fresh = DOMAIN r /\ fresh.attestations = rows
      /\ \A f \in ApFields \ {"attestations"} : fresh[f] = r[f]
  BY DEF ApInvariant
<1>2. /\ DOMAIN rows = 1..6
      /\ \A i \in 1..6 : /\ rows[i].domain = AP!DomainSeq[i] /\ rows[i].live /\ rows[i].observed = r.at
                          /\ {"domain", "key", "observed", "live", "over"} = DOMAIN rows[i]
  BY ApDomains DEF AP!Attestation
<1>3. \A i \in 1..6 : AP!DomainSeq[i] \in AP!Domains
  BY ApDomains DEF AP!Domains, AP!Range
<1>4. /\ \A f \in ApFields \ {"attestations"} : b[f] = r[f]
      /\ bs = [i \in DOMAIN rows |-> IF rows[i].domain \notin AP!Domains THEN rows[i]
                   ELSE [rows[i] EXCEPT !.key = "k1", !.over = <<rows[i].domain, AP!Payload(fresh, rows[i].domain)>>]]
  <2>1. b = [fresh EXCEPT !.attestations = [i \in DOMAIN rows |-> IF rows[i].domain \notin AP!Domains THEN rows[i]
                   ELSE [rows[i] EXCEPT !.key = "k1", !.over = <<rows[i].domain, AP!Payload(fresh, rows[i].domain)>>]]]
    BY <1>1 DEF AP!Signed
  <2>2. ApFields = DOMAIN fresh /\ "attestations" \in DOMAIN fresh
    BY <1>1 DEF ApInvariant
  <2> HIDE DEF rows, fresh, b
  <2> QED  BY <1>1, <2>1, <2>2 DEF bs
<1> HIDE DEF rows, fresh, b
<1>5. \A d \in ApNames : AP!Payload(fresh, d) = AP!Payload(b, d)
  <2>1. \A f \in ApFields \ {"attestations"} : b[f] = fresh[f]
    BY <1>1, <1>4
  <2> QED  BY <2>1, ApUnmoved
<1>7. FreshRows(bs, 6, AP!DomainSeq, r.at, ApPay(b))
  <2>1. DOMAIN bs = 1..6
    BY <1>2, <1>4
  <2>2. ASSUME NEW i \in 1..6
        PROVE  /\ bs[i].domain = AP!DomainSeq[i] /\ bs[i].key = "k1" /\ bs[i].live /\ bs[i].observed = r.at
               /\ bs[i].over = <<AP!DomainSeq[i], ApPay(b)[AP!DomainSeq[i]]>>
    <3>1. AP!DomainSeq[i] \in ApNames
      BY <1>3, ApDomains
    <3>2. bs[i] = [rows[i] EXCEPT !.key = "k1", !.over = <<rows[i].domain, AP!Payload(fresh, rows[i].domain)>>]
      BY <1>2, <1>3, <1>4
    <3>3. bs[i].over = <<AP!DomainSeq[i], AP!Payload(fresh, AP!DomainSeq[i])>>
      BY <1>2, <3>2
    <3>4. AP!Payload(fresh, AP!DomainSeq[i]) = ApPay(b)[AP!DomainSeq[i]]
      BY <1>5, <3>1 DEF ApPay
    <3> QED  BY <1>2, <3>2, <3>3, <3>4
  <2> QED  BY <2>1, <2>2 DEF FreshRows
<1>8. \A i, j \in 1..6 : AP!DomainSeq[i] = AP!DomainSeq[j] => i = j
  BY DEF AP!DomainSeq
<1>9. r.at \in Int /\ r.policy.age \in Nat /\ r.policy.alignment \in Nat /\ b.at = r.at /\ b.policy = r.policy
  BY <1>4 DEF ApInvariant, ApFields, Dated
<1> HIDE DEF bs
<1>10. /\ \A i, j \in DOMAIN bs : bs[i].domain = bs[j].domain => i = j
       /\ {a.domain : a \in {bs[i] : i \in DOMAIN bs}} = {AP!DomainSeq[i] : i \in 1..6}
       /\ \A a \in {bs[i] : i \in DOMAIN bs} : a.key \in Trusted /\ a.over = <<a.domain, ApPay(b)[a.domain]>>
       /\ \A a, c \in {bs[i] : i \in DOMAIN bs} :
            a.live /\ 0 <= r.at - a.observed /\ r.at - a.observed <= r.policy.age
            /\ a.observed - c.observed <= r.policy.alignment
  <2>1. "k1" \in Trusted /\ 6 \in Nat /\ r.at \in Int /\ r.policy.age \in Nat /\ r.policy.alignment \in Nat
    BY <1>9
  <2>2. TrustedRows(bs, 6, AP!DomainSeq, r.at, ApPay(b), r.policy.age, r.policy.alignment)
    BY <1>7, <1>8, <2>1, FreshTrusted
  <2> QED  BY <2>2 DEF TrustedRows
<1> DEFINE all == {bs[i] : i \in DOMAIN bs}
<1>11. AP!Range(b.attestations) = all
  BY DEF AP!Range, bs
<1>12. {a.domain : a \in all} = AP!Domains
  BY <1>10, ApDomains DEF AP!Domains, AP!Range
<1> HIDE DEF all
<1>13. AP!Covered(b)
  BY <1>10, <1>11, <1>12 DEF AP!Covered, AP!Distinct, bs
<1>14. \A a \in all : AP!SignatureValid(b, a)
  <2>1. ASSUME NEW a \in all PROVE AP!SignatureValid(b, a)
    <3>1. a.domain \in ApNames
      BY <1>12, ApDomains
    <3>2. a.key \in Trusted /\ a.over = <<a.domain, ApPay(b)[a.domain]>>
      BY <1>10 DEF all
    <3> QED  BY <3>1, <3>2 DEF AP!SignatureValid, ApPay
  <2> QED  BY <2>1
<1>15. AP!SourceReady(b)
  BY <1>9, <1>10, <1>11, <1>13, <1>14 DEF AP!SourceReady, all
<1> QED  BY <1>15 DEF AP!Report

-----------------------------------------------------------------------------
(* Safeguards: nine systems sign at once, a list may lose its last row.    *)

EsNames == {"identity_provider", "authorization_and_tenant_control", "message_and_timeseries_platform",
            "ha_orchestrator", "backup_dr_platform", "worm_siem_platform", "pki_key_management",
            "ot_security_monitor", "enterprise_governance"}
EsContent == {"policy", "identity", "authorization", "platform", "ha", "backup", "audit", "pki", "ot", "approvals"}
EsOwn == [d \in EsNames |-> ES!Owned(d)]
EsAt == [f \in UNION {EsOwn[d] : d \in EsNames} |-> f]
EsPay(r) == [d \in EsNames |-> ES!Payload(r, d)]

EsSources(as, content) ==
    \E n \in Nat : Listed(as, n) /\ Rows(as, n) /\ PartsHold(as, n, content, EsOwn, EsAt)
(* The figures that limits are set for are whole numbers.                  *)
EsTerms(x) ==
    /\ {"slo", "rpo", "rto", "retention", "keyAge"} \subseteq DOMAIN x
    /\ x.slo \in Int /\ x.rpo \in Int /\ x.rto \in Int /\ x.retention \in Int /\ x.keyAge \in Int
EsIdentity(x) ==
    /\ {"deprovision", "keys", "missing"} \subseteq DOMAIN x
    /\ x.deprovision \in Int
EsPlatform(x) ==
    /\ {"nodes", "published", "acked", "duplicates", "store", "replicas", "days", "missing"} \subseteq DOMAIN x
    /\ x.nodes \in Int /\ x.published \in Int /\ x.acked \in Int
EsAvailability(x) ==
    /\ {"failover", "available", "api", "worker", "zones", "database", "capacity", "missing"} \subseteq DOMAIN x
    /\ x.failover \in Int /\ x.available \in Int
EsBackup(x) ==
    /\ {"rpo", "rto", "days", "missing"} \subseteq DOMAIN x
    /\ x.rpo \in Int /\ x.rto \in Int
EsAuditLog(x) ==
    /\ {"days", "generated", "delivered", "detection", "rules", "missing"} \subseteq DOMAIN x
    /\ x.days \in Int /\ x.generated \in Int /\ x.delivered \in Int /\ x.detection \in Int
EsPki(x) ==
    /\ {"remaining", "keyAge", "tls", "expired", "missing"} \subseteq DOMAIN x
    /\ x.remaining \in Int /\ x.keyAge \in Int
EsOt(x) ==
    /\ {"remediation", "zones", "inventory", "missing"} \subseteq DOMAIN x
    /\ x.remediation \in Int
EsAuthorization(x) ==
    /\ {"tenants", "keys", "missing", "tests", "rejected"} \subseteq DOMAIN x
    /\ \E n \in Nat : Listed(x.tenants, n)
EsFigures(r) ==
    /\ EsAuthorization(r.authorization)
    /\ EsTerms(r.policy)
    /\ EsIdentity(r.identity)
    /\ EsPlatform(r.platform)
    /\ EsAvailability(r.ha)
    /\ EsBackup(r.backup)
    /\ EsAuditLog(r.audit)
    /\ EsPki(r.pki)
    /\ EsOt(r.ot)

(* No organization is listed twice.                                        *)
EsTenants(z) == \A i, j \in DOMAIN z.tenants : z.tenants[i] = z.tenants[j] => i = j

EsInvariant ==
    /\ EsTenants(request.authorization)
    /\ DOMAIN request = {"at", "attestations"} \cup EsContent /\ Dated(request) /\ EsFigures(request)
    /\ EsSources(request.attestations, vouched) /\ request.attestations # <<>>
    /\ \E m \in Nat : Listed(request.approvals, m)
    /\ DOMAIN vouched \in {{}, EsContent}
    /\ edits \in 0..PackageEdits
    /\ report = ES!DefaultReport \/ report = ES!Report(request)

LEMMA EsDomains == ES!Domains = EsNames /\ DOMAIN ES!DomainSeq = 1..9
<1>1. DOMAIN ES!DomainSeq = 1..9
  BY DEF ES!DomainSeq
<1>2. ES!Domains = {ES!DomainSeq[i] : i \in 1..9}
  BY <1>1 DEF ES!Domains, ES!Range
<1>3. {ES!DomainSeq[i] : i \in 1..9}
      = {ES!DomainSeq[1], ES!DomainSeq[2], ES!DomainSeq[3], ES!DomainSeq[4], ES!DomainSeq[5],
         ES!DomainSeq[6], ES!DomainSeq[7], ES!DomainSeq[8], ES!DomainSeq[9]}
  OBVIOUS
<1>4. /\ ES!DomainSeq[1] = "identity_provider"
      /\ ES!DomainSeq[2] = "authorization_and_tenant_control"
      /\ ES!DomainSeq[3] = "message_and_timeseries_platform"
      /\ ES!DomainSeq[4] = "ha_orchestrator"
      /\ ES!DomainSeq[5] = "backup_dr_platform"
      /\ ES!DomainSeq[6] = "worm_siem_platform"
      /\ ES!DomainSeq[7] = "pki_key_management"
      /\ ES!DomainSeq[8] = "ot_security_monitor"
      /\ ES!DomainSeq[9] = "enterprise_governance"
  BY DEF ES!DomainSeq
<1> QED  BY <1>1, <1>2, <1>3, <1>4 DEF EsNames

LEMMA EsParts ==
    /\ DOMAIN EsOwn = EsNames /\ \A d \in EsNames : EsOwn[d] = ES!Owned(d)
    /\ UNION {EsOwn[d] : d \in EsNames} = EsContent
    /\ \A r : Placed(EsOwn, EsAt, EsNames, EsPay(r), r)
<1>1. DOMAIN EsOwn = EsNames /\ \A d \in EsNames : EsOwn[d] = ES!Owned(d)
  BY DEF EsOwn
<1>2. /\ ES!Owned("identity_provider") = {"identity"}
      /\ ES!Owned("authorization_and_tenant_control") = {"authorization"}
      /\ ES!Owned("message_and_timeseries_platform") = {"platform"}
      /\ ES!Owned("ha_orchestrator") = {"ha"}
      /\ ES!Owned("backup_dr_platform") = {"backup"}
      /\ ES!Owned("worm_siem_platform") = {"audit"}
      /\ ES!Owned("pki_key_management") = {"pki"}
      /\ ES!Owned("ot_security_monitor") = {"ot"}
      /\ ES!Owned("enterprise_governance") = {"policy", "approvals"}
  BY DEF ES!Owned
<1>3. UNION {EsOwn[d] : d \in EsNames} = EsContent
  <2>1. {EsOwn[d] : d \in EsNames}
        = {{"identity"}, {"authorization"}, {"platform"}, {"ha"}, {"backup"}, {"audit"}, {"pki"}, {"ot"},
           {"policy", "approvals"}}
    BY <1>1, <1>2 DEF EsNames
  <2> QED  BY <2>1 DEF EsContent
<1>4. ASSUME NEW r, NEW d \in EsNames, NEW f \in EsOwn[d]
      PROVE  EsPay(r)[d][EsAt[f]] = r[f]
  <2>1. EsPay(r)[d] = ES!Payload(r, d)
    BY DEF EsPay
  <2>2. EsAt[f] = f
    BY DEF EsAt
  <2>3. ES!Payload(r, d)[f] = r[f]
    BY <1>1, <1>4 DEF ES!Payload
  <2> QED  BY <2>1, <2>2, <2>3
<1> QED  BY <1>1, <1>3, <1>4 DEF Placed

(* An edit keeps the fields; the attestations lose a row, or one changes.  *)
LEMMA EsEdits ==
    ASSUME NEW r, "attestations" \in DOMAIN r, NEW e \in ES!Edited(r)
    PROVE  /\ DOMAIN e = DOMAIN r
           /\ \/ \E observed \in {30, 35} : Retouched(e, r, observed)
              \/ e = [r EXCEPT !.attestations = ES!ButLast(r.attestations)]
<1>1. \/ e.attestations = r.attestations
      \/ e = [r EXCEPT !.attestations[1].live = FALSE]
      \/ e = [r EXCEPT !.attestations[2].observed = 30]
      \/ e = [r EXCEPT !.attestations[2].observed = 35]
      \/ e = [r EXCEPT !.attestations[3].domain = r.attestations[4].domain]
      \/ e = [r EXCEPT !.attestations = ES!ButLast(r.attestations)]
  <2>1. CASE e \in ES!EditedAccess(r)
    BY <2>1, ZenonT(60) DEF ES!EditedAccess
  <2>2. CASE e \in ES!EditedPlatform(r)
    BY <2>2, SMTT(60) DEF ES!EditedPlatform
  <2>3. CASE e \in ES!EditedOversight(r)
    <3>1. e.attestations = r.attestations
      BY <2>3, ZenonT(60) DEF ES!EditedOversight
    <3> QED  BY <3>1
  <2>4. CASE e \in ES!EditedTrust(r)
    BY <2>4, ZenonT(60) DEF ES!EditedTrust
  <2> QED  BY <2>1, <2>2, <2>3, <2>4 DEF ES!Edited
<1>2. DOMAIN e = DOMAIN r
  <2>1. CASE e \in ES!EditedAccess(r)
    BY <2>1, ZenonT(60) DEF ES!EditedAccess
  <2>2. CASE e \in ES!EditedPlatform(r)
    BY <2>2, SMTT(60) DEF ES!EditedPlatform
  <2>3. CASE e \in ES!EditedOversight(r)
    BY <2>3, ZenonT(60) DEF ES!EditedOversight
  <2>4. CASE e \in ES!EditedTrust(r)
    BY <2>4, ZenonT(60) DEF ES!EditedTrust
  <2> QED  BY <2>1, <2>2, <2>3, <2>4 DEF ES!Edited
<1> QED  BY <1>1, <1>2 DEF Retouched

(* The approvals stay a list, of one more at most.                         *)
LEMMA EsApprovalEdits ==
    ASSUME NEW r, "approvals" \in DOMAIN r, NEW e \in ES!Edited(r), NEW m \in Nat, Listed(r.approvals, m)
    PROVE  Listed(e.approvals, m) \/ Listed(e.approvals, m + 1)
<1>1. \/ e.approvals = r.approvals
      \/ \E i, row : e.approvals = [r.approvals EXCEPT ![i] = row]
      \/ \E row : e.approvals = Append(r.approvals, row)
  <2>1. CASE e \in ES!EditedAccess(r)
    BY <2>1, ZenonT(60) DEF ES!EditedAccess
  <2>2. CASE e \in ES!EditedPlatform(r)
    BY <2>2, SMTT(60) DEF ES!EditedPlatform
  <2>3. CASE e \in ES!EditedOversight(r)
    BY <2>3, ZenonT(60) DEF ES!EditedOversight
  <2>4. CASE e \in ES!EditedTrust(r)
    <3>1. \/ e.approvals = r.approvals
          \/ e = [r EXCEPT !.approvals[2].by = "eve"]
          \/ e = [r EXCEPT !.approvals[1].decision = "rejected"]
          \/ e = [r EXCEPT !.approvals[3].role = "enterprise_owner"]
          \/ e = [r EXCEPT !.approvals[3].architecture = "v0"]
          \/ e = [r EXCEPT !.approvals = Append(@, [ES!Approval("ot_security_owner", "olga") EXCEPT !.decision = "rejected"])]
      BY <2>4, ZenonT(60) DEF ES!EditedTrust
    <3>2. \/ e.approvals = r.approvals
          \/ e.approvals = [r.approvals EXCEPT ![2] = [r.approvals[2] EXCEPT !.by = "eve"]]
          \/ e.approvals = [r.approvals EXCEPT ![1] = [r.approvals[1] EXCEPT !.decision = "rejected"]]
          \/ e.approvals = [r.approvals EXCEPT ![3] = [r.approvals[3] EXCEPT !.role = "enterprise_owner"]]
          \/ e.approvals = [r.approvals EXCEPT ![3] = [r.approvals[3] EXCEPT !.architecture = "v0"]]
          \/ \E row : e.approvals = Append(r.approvals, row)
      BY <3>1
    <3> QED  BY <3>2, Zenon
  <2> QED  BY <2>1, <2>2, <2>3, <2>4 DEF ES!Edited
<1>2. ASSUME NEW i, NEW row, e.approvals = [r.approvals EXCEPT ![i] = row] PROVE Listed(e.approvals, m)
  BY <1>2 DEF Listed
<1>3. ASSUME NEW row, e.approvals = Append(r.approvals, row) PROVE Listed(e.approvals, m + 1)
  BY <1>3, ListedAppend
<1> QED  BY <1>1, <1>2, <1>3

(* A list of signed rows stays one when a row changes what nobody signed   *)
(* or the last one goes.                                                   *)
LEMMA EsRow ==
    ASSUME NEW as, NEW content, EsSources(as, content), NEW k, NEW row,
           k \in DOMAIN as => DOMAIN row = DOMAIN as[k] /\ row.over = as[k].over
    PROVE  EsSources([as EXCEPT ![k] = row], content)
<1> DEFINE bs == [as EXCEPT ![k] = row]
<1>1. PICK n \in Nat : Listed(as, n) /\ Rows(as, n) /\ PartsHold(as, n, content, EsOwn, EsAt)
  BY DEF EsSources
<1>2. DOMAIN as = 1..n
  BY <1>1 DEF Rows
<1>3. bs = [i \in 1..n |-> IF i = k THEN row ELSE as[i]]
  BY <1>2
<1> HIDE DEF bs
<1>4. \A i \in 1..n : DOMAIN bs[i] = DOMAIN as[i] /\ bs[i].over = as[i].over
  BY <1>2, <1>3
<1>5. Listed(bs, n) /\ Rows(bs, n)
  BY <1>1, <1>3, <1>4 DEF Listed, Rows
<1>6. PartsHold(bs, n, content, EsOwn, EsAt)
  <2>1. ASSUME NEW i \in 1..n, bs[i].over # Unsigned
        PROVE  /\ bs[i].over[1] \in DOMAIN EsOwn
               /\ \A f \in EsOwn[bs[i].over[1]] :
                    f \in DOMAIN content /\ bs[i].over[2][EsAt[f]] = content[f]
    BY <1>1, <1>4, <2>1 DEF PartsHold
  <2> QED  BY <2>1 DEF PartsHold
<1>7. EsSources(bs, content)
  BY <1>5, <1>6 DEF EsSources
<1> QED  BY <1>7 DEF bs

(* The first k rows of a list.                                             *)
LEMMA FrontRows ==
    ASSUME NEW S, NEW as, NEW k \in Nat, \A i \in 1..k : as[i] \in S
    PROVE  /\ SubSeq(as, 1, k) \in Seq(S)
           /\ Len(SubSeq(as, 1, k)) = k
           /\ \A i \in 1..k : SubSeq(as, 1, k)[i] = as[i]
<1>0. 1 \in Int /\ k \in Int
  OBVIOUS
<1>1. SubSeq(as, 1, k) \in Seq(S)
  BY <1>0, SubSeqProperties, Zenon
<1>2. Len(SubSeq(as, 1, k)) = IF 1 <= k THEN k - 1 + 1 ELSE 0
  BY <1>0, SubSeqProperties
<1>3. \A i \in 1..k - 1 + 1 : SubSeq(as, 1, k)[i] = as[1 + i - 1]
  BY <1>0, SubSeqProperties
<1>4. Len(SubSeq(as, 1, k)) = k
  BY <1>2
<1>5. ASSUME NEW i \in 1..k PROVE SubSeq(as, 1, k)[i] = as[i]
  <2>1. i \in 1..k - 1 + 1 /\ 1 + i - 1 = i
    OBVIOUS
  <2> QED BY <1>3, <2>1
<1> QED BY <1>1, <1>4, <1>5

LEMMA EsFront ==
    ASSUME NEW as, NEW content, EsSources(as, content), as # <<>>
    PROVE  EsSources(ES!ButLast(as), content)
<1>1. PICK n \in Nat : Listed(as, n) /\ Rows(as, n) /\ PartsHold(as, n, content, EsOwn, EsAt)
  BY DEF EsSources
<1> DEFINE bs == ES!ButLast(as)
<1>2. as \in Seq({as[i] : i \in 1..n}) /\ Len(as) = n /\ n > 0
  BY <1>1, ListedSeq
<1>3. PICK k \in Nat : k + 1 = n
  <2>1. n - 1 \in Nat /\ (n - 1) + 1 = n
    BY <1>2
  <2> QED  BY <2>1
<1>4. \A i \in 1..k : i \in 1..n
  BY <1>3
<1>5. bs = SubSeq(as, 1, k)
  <2>1. Len(as) - 1 = k
    BY <1>2, <1>3
  <2> QED  BY <2>1, Zenon DEF ES!ButLast
<1> HIDE DEF bs
<1>6. bs \in Seq({as[i] : i \in 1..n}) /\ DOMAIN bs = 1..k /\ \A i \in 1..k : i \in 1..n /\ bs[i] = as[i]
  <2>1. ASSUME NEW S, S = {as[i] : i \in 1..n}
        PROVE  bs \in Seq(S) /\ DOMAIN bs = 1..k /\ \A i \in 1..k : bs[i] = as[i]
    <3>1. \A i \in 1..k : as[i] \in S
      BY <1>4, <2>1
    <3>2. /\ SubSeq(as, 1, k) \in Seq(S)
          /\ Len(SubSeq(as, 1, k)) = k
          /\ \A i \in 1..k : SubSeq(as, 1, k)[i] = as[i]
      <4>1. k \in Nat
        BY <1>3
      <4>2. SubSeq(as, 1, k) \in Seq(S)
        BY <4>1, <3>1, FrontRows, Zenon
      <4>3. Len(SubSeq(as, 1, k)) = k
        BY <4>1, <3>1, FrontRows, Zenon
      <4>4. \A i \in 1..k : SubSeq(as, 1, k)[i] = as[i]
        BY <4>1, <3>1, FrontRows
      <4> QED  BY <4>2, <4>3, <4>4
    <3> QED  BY <1>5, <3>2, LenProperties
  <2> QED  BY <1>4, <2>1
<1>7. Listed(bs, k) /\ Rows(bs, k)
  <2>1. bs = [i \in 1..k |-> bs[i]]
    BY <1>6
  <2>2. Listed(bs, k)
    BY <2>1, <1>6, Zenon DEF Listed
  <2>3. ASSUME NEW i \in 1..k PROVE {"domain", "key", "over"} \subseteq DOMAIN bs[i]
    BY <1>1, <1>6, <2>3 DEF Rows
  <2> QED  BY <1>6, <2>2, <2>3, Zenon DEF Rows
<1>8. PartsHold(bs, k, content, EsOwn, EsAt)
  <2>1. ASSUME NEW i \in 1..k, bs[i].over # Unsigned
        PROVE  /\ bs[i].over[1] \in DOMAIN EsOwn
               /\ \A f \in EsOwn[bs[i].over[1]] :
                    f \in DOMAIN content /\ bs[i].over[2][EsAt[f]] = content[f]
    <3>1. i \in 1..n /\ bs[i] = as[i]
      BY <1>6
    <3> QED  BY <1>1, <2>1, <3>1 DEF PartsHold
  <2> QED  BY <2>1 DEF PartsHold
<1>9. EsSources(bs, content)
  BY <1>7, <1>8 DEF EsSources
<1> QED  BY <1>9 DEF bs

(* An edit of the terms or the date leaves them terms and a date.          *)
LEMMA EsEditDated ==
    ASSUME NEW r, Dated(r), NEW e \in ES!Edited(r), DOMAIN e = DOMAIN r
    PROVE  Dated(e)
<1>a. "at" \in DOMAIN r
  BY DEF Dated
<1>p. "policy" \in DOMAIN r
  BY DEF Dated
<1>0. r.at \in Int /\ Terms(r.policy)
  BY DEF Dated, Terms
<1>1. CASE e \in ES!EditedAccess(r)
  <2>1. e.at = r.at
    BY <1>a, <1>1, ZenonT(60) DEF ES!EditedAccess
  <2>2. e.policy = r.policy
    BY <1>p, <1>1, ZenonT(60) DEF ES!EditedAccess
  <2> QED  BY <1>0, <2>1, <2>2 DEF Dated, Terms
<1>2. CASE e \in ES!EditedPlatform(r)
  <2>1. e.at = r.at
    BY <1>a, <1>2, SMTT(60) DEF ES!EditedPlatform
  <2>2. e.policy = r.policy
    BY <1>p, <1>2, SMTT(60) DEF ES!EditedPlatform
  <2> QED  BY <1>0, <2>1, <2>2 DEF Dated, Terms
<1>3. CASE e \in ES!EditedOversight(r)
  <2> DEFINE Kept(x) == Terms(x.policy) /\ x.at \in Int
             e1 == [r EXCEPT !.audit.days = 365]
             e2 == [r EXCEPT !.audit.delivered = @ - 11]
             e3 == [r EXCEPT !.audit.detection = 16]
             e4 == [r EXCEPT !.audit.missing = {"worm"}]
             e5 == [r EXCEPT !.pki.tls = "TLS1.2"]
             e6 == [r EXCEPT !.policy.tls = "TLS1.3"]
             e7 == [r EXCEPT !.policy.tls = "TLS1.3", !.pki.tls = "TLS1.2"]
             e8 == [r EXCEPT !.pki.keyAge = 91]
             e9 == [r EXCEPT !.pki.expired = 1]
             e10 == [r EXCEPT !.pki.remaining = 398]
             e11 == [r EXCEPT !.pki.missing = {"revocation"}]
             e12 == [r EXCEPT !.ot.missing = {"jump_host"}]
             e13 == [r EXCEPT !.ot.missing = {"interlock"}]
             e14 == [r EXCEPT !.ot.zones = (@ \ {"safety_system"}) \cup {"guest"}]
             e15 == [r EXCEPT !.ot.inventory = 94]
             e16 == [r EXCEPT !.policy.frameworks = (@ \ {"NIST SP 800-207"}) \cup {"ISO 27001"}]
             e17 == [r EXCEPT !.policy.rto = 15]
             e18 == [r EXCEPT !.policy.retention = @ + 445]
  <2>1. Kept(e1) /\ Kept(e2) /\ Kept(e3) /\ Kept(e4) /\ Kept(e5)
    BY <1>0, <1>a, <1>p
  <2>6. Kept(e6) /\ Kept(e7)
    BY <1>0, <1>a, <1>p DEF Terms
  <2>8. Kept(e8) /\ Kept(e9) /\ Kept(e10) /\ Kept(e11) /\ Kept(e12) /\ Kept(e13)
    BY <1>0, <1>a, <1>p
  <2>14. Kept(e14) /\ Kept(e15)
    BY <1>0, <1>a, <1>p
  <2>16. Kept(e16) /\ Kept(e17) /\ Kept(e18)
    BY <1>0, <1>a, <1>p DEF Terms
  <2>19. e \in {e1, e2, e3, e4, e5, e6, e7, e8, e9, e10, e11, e12, e13, e14, e15, e16, e17, e18}
    BY <1>3 DEF ES!EditedOversight
  <2> HIDE DEF Kept, e1, e2, e3, e4, e5, e6, e7, e8, e9, e10, e11, e12, e13, e14, e15, e16, e17, e18
  <2>20. Kept(e)
    BY <2>1, <2>6, <2>8, <2>14, <2>16, <2>19
  <2> QED  BY <2>20 DEF Kept, Dated, Terms
<1>4. CASE e \in ES!EditedTrust(r)
  <2> DEFINE Kept(x) == Terms(x.policy) /\ x.at \in Int
             e1 == [r EXCEPT !.policy.architecture = "v2"]
             e2 == [r EXCEPT !.approvals[2].by = "eve"]
             e3 == [r EXCEPT !.approvals[1].decision = "rejected"]
             e4 == [r EXCEPT !.approvals[3].role = "enterprise_owner"]
             e5 == [r EXCEPT !.approvals[3].architecture = "v0"]
             e6 == [r EXCEPT !.approvals = ES!Append(@, [ES!Approval("ot_security_owner", "olga") EXCEPT !.decision = "rejected"])]
             e7 == [r EXCEPT !.at = 101]
             e8 == [r EXCEPT !.at = 90]
             e9 == [r EXCEPT !.at = 44]
             e10 == [r EXCEPT !.attestations[1].live = FALSE]
             e11 == [r EXCEPT !.attestations[2].observed = 30]
             e12 == [r EXCEPT !.attestations[2].observed = 35]
             e13 == [r EXCEPT !.attestations[3].domain = r.attestations[4].domain]
             e14 == [r EXCEPT !.attestations = ES!ButLast(@)]
  <2>1. Kept(e1)
    BY <1>0, <1>a, <1>p DEF Terms
  <2>2. Kept(e2) /\ Kept(e3) /\ Kept(e4) /\ Kept(e5) /\ Kept(e6) /\ Kept(e7)
    BY <1>0, <1>a, <1>p
  <2>8. Kept(e8) /\ Kept(e9) /\ Kept(e10) /\ Kept(e11) /\ Kept(e12) /\ Kept(e13)
    BY <1>0, <1>a, <1>p
  <2>14. Kept(e14)
    BY <1>0, <1>a, <1>p
  <2>15. e \in {e1, e2, e3, e4, e5, e6, e7, e8, e9, e10, e11, e12, e13, e14}
    BY <1>4 DEF ES!EditedTrust
  <2> HIDE DEF Kept, e1, e2, e3, e4, e5, e6, e7, e8, e9, e10, e11, e12, e13, e14
  <2>16. Kept(e)
    BY <2>1, <2>2, <2>8, <2>14, <2>15
  <2> QED  BY <2>16 DEF Kept, Dated, Terms
<1> QED  BY <1>1, <1>2, <1>3, <1>4 DEF ES!Edited

(* An edit leaves the figures figures.                                     *)
LEMMA EsEditFigures ==
    ASSUME NEW r, EsContent \subseteq DOMAIN r, EsFigures(r), NEW e \in ES!Edited(r)
    PROVE  EsFigures(e)
<1> DEFINE Kept(x) ==
      /\ EsAuthorization(x.authorization)
      /\ EsTerms(x.policy)
      /\ EsIdentity(x.identity)
      /\ EsPlatform(x.platform)
      /\ EsAvailability(x.ha)
      /\ EsBackup(x.backup)
      /\ EsAuditLog(x.audit)
      /\ EsPki(x.pki)
      /\ EsOt(x.ot)
<1>a. {"authorization", "policy", "identity", "platform", "ha", "backup", "audit", "pki", "ot"} \subseteq DOMAIN r
  BY DEF EsContent
<1>0. Kept(r)
  BY DEF EsFigures
<1>s. Listed(<<"a", "b", "c">>, 3) /\ Listed(<<"a">>, 1)
  BY DEF Listed
<1>1. CASE e \in ES!EditedAccess(r)
  <2> DEFINE e1 == [r EXCEPT !.identity.missing = {"mfa"}]
             e2 == [r EXCEPT !.identity.missing = {"https"}]
             e3 == [r EXCEPT !.identity.deprovision = 61]
             e4 == [r EXCEPT !.identity.deprovision = 60]
             e5 == [r EXCEPT !.authorization.bindings = 19]
             e6 == [r EXCEPT !.authorization.missing = {"least_privilege"}]
             e7 == [r EXCEPT !.authorization.missing = {"privileged_review"}]
             e8 == [r EXCEPT !.authorization.keys.b = "ka"]
             e9 == [r EXCEPT !.authorization.tenants = <<"a", "b", "c">>]
             e10 == [r EXCEPT !.authorization.rejected = 49]
             e11 == [r EXCEPT !.authorization.tenants = <<"a", "b", "c">>, !.authorization.keys = [a |-> "ka", b |-> "kb", c |-> "kb"]]
             e12 == [r EXCEPT !.authorization.missing = {"partition_keys"}]
             e13 == [r EXCEPT !.authorization.tenants = <<"a">>]
  <2>1. Kept(e1) /\ Kept(e2) /\ Kept(e3) /\ Kept(e4)
    BY <1>a, <1>0 DEF EsIdentity
  <2>5. Kept(e5) /\ Kept(e6) /\ Kept(e7) /\ Kept(e8)
    BY <1>a, <1>0 DEF EsAuthorization
  <2>9. Kept(e9)
    BY <1>a, <1>0, <1>s DEF EsAuthorization
  <2>10. Kept(e10)
    BY <1>a, <1>0 DEF EsAuthorization
  <2>11. Kept(e11)
    BY <1>a, <1>0, <1>s DEF EsAuthorization
  <2>12. Kept(e12)
    BY <1>a, <1>0 DEF EsAuthorization
  <2>13. Kept(e13)
    BY <1>a, <1>0, <1>s DEF EsAuthorization
  <2>14. e \in {e1, e2, e3, e4, e5, e6, e7, e8, e9, e10, e11, e12, e13}
    BY <1>1 DEF ES!EditedAccess
  <2> HIDE DEF Kept, e1, e2, e3, e4, e5, e6, e7, e8, e9, e10, e11, e12, e13
  <2>15. Kept(e)
    BY <2>1, <2>5, <2>9, <2>10, <2>11, <2>12, <2>13, <2>14
  <2> QED  BY <2>15 DEF Kept, EsFigures
<1>2. CASE e \in ES!EditedPlatform(r)
  <2> DEFINE e1 == [r EXCEPT !.platform.nodes = 2]
             e2 == [r EXCEPT !.platform.acked = 9900]
             e3 == [r EXCEPT !.platform.acked = 9990]
             e4 == [r EXCEPT !.platform.duplicates = 1]
             e5 == [r EXCEPT !.platform.missing = {"replay"}]
             e6 == [r EXCEPT !.platform.missing = {"series_export"}]
             e7 == [r EXCEPT !.platform.replicas = 1]
             e8 == [r EXCEPT !.ha.zones = 1]
             e9 == [r EXCEPT !.ha.missing = {"split_brain"}]
             e10 == [r EXCEPT !.ha.failover = 31]
             e11 == [r EXCEPT !.ha.available = 9985]
             e12 == [r EXCEPT !.ha.capacity = 99]
             e13 == [r EXCEPT !.backup.missing = {"restore_drill"}]
             e14 == [r EXCEPT !.backup.missing = {"offline"}]
             e15 == [r EXCEPT !.backup.rpo = 16]
             e16 == [r EXCEPT !.backup.rto = 31]
  <2>1. Kept(e1) /\ Kept(e2) /\ Kept(e3) /\ Kept(e4) /\ Kept(e5) /\ Kept(e6)
    BY <1>a, <1>0 DEF EsPlatform
  <2>7. Kept(e7)
    BY <1>a, <1>0 DEF EsPlatform
  <2>8. Kept(e8) /\ Kept(e9) /\ Kept(e10) /\ Kept(e11) /\ Kept(e12)
    BY <1>a, <1>0 DEF EsAvailability
  <2>13. Kept(e13) /\ Kept(e14) /\ Kept(e15) /\ Kept(e16)
    BY <1>a, <1>0 DEF EsBackup
  <2>17. e \in {e1, e2, e3, e4, e5, e6, e7, e8, e9, e10, e11, e12, e13, e14, e15, e16}
    BY <1>2 DEF ES!EditedPlatform
  <2> HIDE DEF Kept, e1, e2, e3, e4, e5, e6, e7, e8, e9, e10, e11, e12, e13, e14, e15, e16
  <2>18. Kept(e)
    BY <2>1, <2>7, <2>8, <2>13, <2>17
  <2> QED  BY <2>18 DEF Kept, EsFigures
<1>3. CASE e \in ES!EditedOversight(r)
  <2> DEFINE e1 == [r EXCEPT !.audit.days = 365]
             e2 == [r EXCEPT !.audit.delivered = @ - 11]
             e3 == [r EXCEPT !.audit.detection = 16]
             e4 == [r EXCEPT !.audit.missing = {"worm"}]
             e5 == [r EXCEPT !.pki.tls = "TLS1.2"]
             e6 == [r EXCEPT !.policy.tls = "TLS1.3"]
             e7 == [r EXCEPT !.policy.tls = "TLS1.3", !.pki.tls = "TLS1.2"]
             e8 == [r EXCEPT !.pki.keyAge = 91]
             e9 == [r EXCEPT !.pki.expired = 1]
             e10 == [r EXCEPT !.pki.remaining = 398]
             e11 == [r EXCEPT !.pki.missing = {"revocation"}]
             e12 == [r EXCEPT !.ot.missing = {"jump_host"}]
             e13 == [r EXCEPT !.ot.missing = {"interlock"}]
             e14 == [r EXCEPT !.ot.zones = (@ \ {"safety_system"}) \cup {"guest"}]
             e15 == [r EXCEPT !.ot.inventory = 94]
             e16 == [r EXCEPT !.policy.frameworks = (@ \ {"NIST SP 800-207"}) \cup {"ISO 27001"}]
             e17 == [r EXCEPT !.policy.rto = 15]
             e18 == [r EXCEPT !.policy.retention = @ + 445]
  <2>1. Kept(e1) /\ Kept(e2) /\ Kept(e3) /\ Kept(e4)
    BY <1>a, <1>0 DEF EsAuditLog
  <2>5. Kept(e5)
    BY <1>a, <1>0 DEF EsPki
  <2>6. Kept(e6)
    BY <1>a, <1>0 DEF EsTerms
  <2>7. Kept(e7)
    BY <1>a, <1>0 DEF EsTerms, EsPki
  <2>8. Kept(e8) /\ Kept(e9) /\ Kept(e10) /\ Kept(e11)
    BY <1>a, <1>0 DEF EsPki
  <2>12. Kept(e12) /\ Kept(e13) /\ Kept(e14) /\ Kept(e15)
    BY <1>a, <1>0 DEF EsOt
  <2>16. Kept(e16)
    BY <1>a, <1>0 DEF EsTerms
  <2>17. Kept(e17) /\ Kept(e18)
    BY <1>a, <1>0 DEF EsTerms
  <2>19. e \in {e1, e2, e3, e4, e5, e6, e7, e8, e9, e10, e11, e12, e13, e14, e15, e16, e17, e18}
    BY <1>3 DEF ES!EditedOversight
  <2> HIDE DEF Kept, e1, e2, e3, e4, e5, e6, e7, e8, e9, e10, e11, e12, e13, e14, e15, e16, e17, e18
  <2>20. Kept(e)
    BY <2>1, <2>5, <2>6, <2>7, <2>8, <2>12, <2>16, <2>17, <2>19
  <2> QED  BY <2>20 DEF Kept, EsFigures
<1>4. CASE e \in ES!EditedTrust(r)
  <2> DEFINE e1 == [r EXCEPT !.policy.architecture = "v2"]
             e2 == [r EXCEPT !.approvals[2].by = "eve"]
             e3 == [r EXCEPT !.approvals[1].decision = "rejected"]
             e4 == [r EXCEPT !.approvals[3].role = "enterprise_owner"]
             e5 == [r EXCEPT !.approvals[3].architecture = "v0"]
             e6 == [r EXCEPT !.approvals = ES!Append(@, [ES!Approval("ot_security_owner", "olga") EXCEPT !.decision = "rejected"])]
             e7 == [r EXCEPT !.at = 101]
             e8 == [r EXCEPT !.at = 90]
             e9 == [r EXCEPT !.at = 44]
             e10 == [r EXCEPT !.attestations[1].live = FALSE]
             e11 == [r EXCEPT !.attestations[2].observed = 30]
             e12 == [r EXCEPT !.attestations[2].observed = 35]
             e13 == [r EXCEPT !.attestations[3].domain = r.attestations[4].domain]
             e14 == [r EXCEPT !.attestations = ES!ButLast(@)]
  <2>1. Kept(e1)
    BY <1>a, <1>0 DEF EsTerms
  <2>2. Kept(e2) /\ Kept(e3) /\ Kept(e4) /\ Kept(e5) /\ Kept(e6) /\ Kept(e7)
    BY <1>a, <1>0
  <2>8. Kept(e8) /\ Kept(e9) /\ Kept(e10) /\ Kept(e11) /\ Kept(e12) /\ Kept(e13)
    BY <1>a, <1>0
  <2>14. Kept(e14)
    BY <1>a, <1>0
  <2>15. e \in {e1, e2, e3, e4, e5, e6, e7, e8, e9, e10, e11, e12, e13, e14}
    BY <1>4 DEF ES!EditedTrust
  <2> HIDE DEF Kept, e1, e2, e3, e4, e5, e6, e7, e8, e9, e10, e11, e12, e13, e14
  <2>16. Kept(e)
    BY <2>1, <2>2, <2>8, <2>14, <2>15
  <2> QED  BY <2>16 DEF Kept, EsFigures
<1> QED  BY <1>1, <1>2, <1>3, <1>4 DEF ES!Edited

LEMMA EsInitially ==
    ASSUME PackageEdits \in Nat, ES!Init PROVE EsInvariant
<1>1. /\ DOMAIN request = {"at", "attestations"} \cup EsContent
      /\ request.attestations = [i \in 1..9 |-> ES!Attestation(ES!DomainSeq[i])]
  BY EsDomains DEF ES!Init, ES!Package, EsContent
<1>2. \A d : {"domain", "key", "over"} \subseteq DOMAIN ES!Attestation(d) /\ ES!Attestation(d).over = Unsigned
  BY DEF ES!Attestation, ES!None, Unsigned
<1>3. /\ Listed(request.attestations, 9) /\ Rows(request.attestations, 9)
      /\ PartsHold(request.attestations, 9, vouched, EsOwn, EsAt)
  BY <1>1, <1>2 DEF Rows, Listed, PartsHold
<1>6. EsSources(request.attestations, vouched) /\ request.attestations # <<>>
  <2>1. 9 \in Nat /\ 9 > 0
    OBVIOUS
  <2>2. request.attestations # <<>>
    BY <1>3, <2>1, ListedSeq
  <2> QED  BY <1>3, <2>1, <2>2 DEF EsSources
<1>4. Listed(request.approvals, 3)
  BY DEF ES!Init, ES!Package, Listed
<1>5. DOMAIN vouched = {} /\ edits = 0 /\ report = ES!DefaultReport
  BY DEF ES!Init
<1>7. Dated(request)
  BY DEF ES!Init, ES!Package, ES!Policy, Dated
<1>8. EsFigures(request)
  <2>1. EsTerms(request.policy)
    BY DEF ES!Init, ES!Package, EsTerms, ES!Policy
  <2>9. EsAuthorization(request.authorization)
    <3>1. request.authorization = ES!Authorization
      BY DEF ES!Init, ES!Package
    <3>2. Listed(ES!Authorization.tenants, 2)
      BY DEF ES!Authorization, Listed
    <3>3. {"tenants", "keys", "missing", "tests", "rejected"} \subseteq DOMAIN ES!Authorization
      BY DEF ES!Authorization
    <3> QED  BY <3>1, <3>2, <3>3 DEF EsAuthorization
  <2>2. EsIdentity(request.identity)
    BY DEF ES!Init, ES!Package, EsIdentity, ES!Identity
  <2>3. EsPlatform(request.platform)
    BY DEF ES!Init, ES!Package, EsPlatform, ES!Platform
  <2>4. EsAvailability(request.ha)
    BY DEF ES!Init, ES!Package, EsAvailability, ES!Availability
  <2>5. EsBackup(request.backup)
    BY DEF ES!Init, ES!Package, EsBackup, ES!Backup
  <2>6. EsAuditLog(request.audit)
    BY DEF ES!Init, ES!Package, EsAuditLog, ES!AuditLog
  <2>7. EsPki(request.pki)
    BY DEF ES!Init, ES!Package, EsPki, ES!Pki
  <2>8. EsOt(request.ot)
    BY DEF ES!Init, ES!Package, EsOt, ES!Ot
  <2> QED  BY <2>1, <2>2, <2>3, <2>4, <2>5, <2>6, <2>7, <2>8, <2>9 DEF EsFigures
<1>9. EsTenants(request.authorization)
  BY DEF ES!Init, ES!Package, ES!Authorization, EsTenants
<1> QED  BY <1>1, <1>4, <1>5, <1>6, <1>7, <1>8, <1>9 DEF EsInvariant

LEMMA EsNext ==
    ASSUME PackageEdits \in Nat, EsInvariant, ES!Next \/ UNCHANGED <<request, report, edits, vouched>>
    PROVE  EsInvariant'
<1>1. CASE ES!Edit
  <2>1. PICK r \in ES!Edited(request) : request' = r /\ r.attestations # <<>>
    BY <1>1 DEF ES!Edit, ES!Valid
  <2>2. edits' \in 0..PackageEdits /\ report' = ES!DefaultReport /\ vouched' = vouched
    BY <1>1 DEF ES!Edit, EsInvariant
  <2>3. /\ DOMAIN request = {"at", "attestations"} \cup EsContent
        /\ EsSources(request.attestations, vouched) /\ request.attestations # <<>>
        /\ DOMAIN vouched \in {{}, EsContent}
    BY DEF EsInvariant
  <2>4. PICK m \in Nat : Listed(request.approvals, m)
    BY DEF EsInvariant
  <2> DEFINE as == request.attestations
             bs == r.attestations
  <2>5. EsSources(bs, vouched)
    <3>1. ASSUME NEW observed, Retouched(r, request, observed)
          PROVE  EsSources(bs, vouched)
      <4>1. \/ bs = as
            \/ bs = [as EXCEPT ![1] = [as[1] EXCEPT !.live = FALSE]]
            \/ bs = [as EXCEPT ![2] = [as[2] EXCEPT !.observed = observed]]
            \/ bs = [as EXCEPT ![3] = [as[3] EXCEPT !.domain = as[4].domain]]
        BY <2>3, <3>1 DEF Retouched
      <4>2. EsSources(as, vouched)
        BY <2>3
      <4> HIDE DEF as, bs
      <4>3. \A i \in DOMAIN as : "over" \in DOMAIN as[i]
        BY <4>2 DEF EsSources, Rows
      <4>4. /\ 1 \in DOMAIN as =>
                 LET row == [as[1] EXCEPT !.live = FALSE]
                 IN  DOMAIN row = DOMAIN as[1] /\ row.over = as[1].over
            /\ 2 \in DOMAIN as =>
                 LET row == [as[2] EXCEPT !.observed = observed]
                 IN  DOMAIN row = DOMAIN as[2] /\ row.over = as[2].over
            /\ 3 \in DOMAIN as =>
                 LET row == [as[3] EXCEPT !.domain = as[4].domain]
                 IN  DOMAIN row = DOMAIN as[3] /\ row.over = as[3].over
        BY <4>3
      <4>5. /\ EsSources([as EXCEPT ![1] = [as[1] EXCEPT !.live = FALSE]], vouched)
            /\ EsSources([as EXCEPT ![2] = [as[2] EXCEPT !.observed = observed]], vouched)
            /\ EsSources([as EXCEPT ![3] = [as[3] EXCEPT !.domain = as[4].domain]], vouched)
        BY <4>2, <4>4, EsRow
      <4> QED  BY <4>1, <4>2, <4>5
    <3>2. CASE r = [request EXCEPT !.attestations = ES!ButLast(request.attestations)]
      BY <2>3, <3>2, EsFront
    <3> QED  BY <2>1, <2>3, <3>1, <3>2, EsEdits
  <2>6. DOMAIN r = {"at", "attestations"} \cup EsContent
    BY <2>1, <2>3, EsEdits
  <2>7. Listed(r.approvals, m) \/ Listed(r.approvals, m + 1)
    BY <2>1, <2>3, <2>4, EsApprovalEdits DEF EsContent
  <2> HIDE DEF as, bs
  <2>8. request'.attestations = bs /\ bs # <<>>
    BY <2>1 DEF bs
  <2>9. Dated(r)
    BY <2>1, <2>3, <2>6, EsEditDated DEF EsInvariant
  <2>10. EsFigures(r)
    BY <2>1, <2>3, EsEditFigures DEF EsInvariant
  <2>11. EsFigures(request')
    BY <2>1, <2>10
  <2>12. EsTenants(request'.authorization)
    BY <1>1 DEF ES!Edit, ES!Valid, ES!Distinct, EsTenants
  <2> QED  BY <2>1, <2>2, <2>3, <2>5, <2>6, <2>7, <2>8, <2>9, <2>11, <2>12 DEF EsInvariant
<1>2. CASE ES!Sign
  <2>1. PICK key : request' = ES!Signed(request, key)
    BY <1>2 DEF ES!Sign
  <2>2. /\ vouched' = [f \in DOMAIN request \ {"at", "attestations"} |-> request[f]]
        /\ report' = ES!DefaultReport /\ edits' = edits
        /\ {a.domain : a \in ES!Range(request.attestations)} = EsNames
    BY <1>2, EsDomains DEF ES!Sign
  <2>3. /\ DOMAIN request = {"at", "attestations"} \cup EsContent /\ edits \in 0..PackageEdits
        /\ \E m \in Nat : Listed(request.approvals, m)
    BY DEF EsInvariant
  <2>4. PICK n \in Nat : n > 0 /\ Listed(request.attestations, n) /\ Rows(request.attestations, n)
    BY ListedSeq DEF EsInvariant, EsSources
  <2> DEFINE as == request.attestations
             s == ES!Signed(request, key)
             bs == s.attestations
  <2>5. /\ DOMAIN s = DOMAIN request /\ s.approvals = request.approvals
        /\ bs = [i \in 1..n |-> [as[i] EXCEPT !.key = key[as[i].domain],
                                              !.over = <<as[i].domain, ES!Payload(request, as[i].domain)>>]]
    BY <2>3, <2>4 DEF ES!Signed, Rows, EsContent
  <2>14. Dated(s)
    <3>1. \A f \in DOMAIN request \ {"attestations"} : s[f] = request[f]
      BY DEF ES!Signed
    <3>2. DOMAIN s = DOMAIN request /\ s.at = request.at /\ s.policy = request.policy
      BY <2>5, <3>1 DEF EsInvariant, Dated
    <3> QED  BY <3>2 DEF EsInvariant, Dated
  <2>15. EsFigures(s) /\ EsTenants(s.authorization)
    <3>1. \A f \in DOMAIN request \ {"attestations"} : s[f] = request[f]
      BY DEF ES!Signed
    <3>2. {"authorization", "policy", "identity", "platform", "ha", "backup", "audit", "pki", "ot"} \subseteq DOMAIN request \ {"attestations"}
      BY <2>3 DEF EsContent
    <3> HIDE DEF s
    <3>3. s.authorization = request.authorization /\ s.policy = request.policy /\ s.identity = request.identity /\ s.platform = request.platform /\ s.ha = request.ha
          /\ s.backup = request.backup /\ s.audit = request.audit /\ s.pki = request.pki /\ s.ot = request.ot
      BY <3>1, <3>2
    <3> QED  BY <3>3 DEF EsInvariant, EsFigures
  <2>6. \A i \in 1..n : as[i].domain \in EsNames
    BY <2>2, <2>4 DEF ES!Range, Rows
  <2>7. \A i \in 1..n : {"domain", "key", "over"} \subseteq DOMAIN as[i]
    BY <2>4 DEF Rows
  <2> HIDE DEF s, bs, as
  <2>8. /\ DOMAIN bs = 1..n /\ Listed(bs, n)
        /\ \A i \in 1..n : /\ {"domain", "key", "over"} \subseteq DOMAIN bs[i]
                           /\ bs[i].over = <<as[i].domain, ES!Payload(request, as[i].domain)>>
    BY <2>5, <2>7 DEF Listed
  <2>9. DOMAIN vouched' = EsContent /\ \A f \in EsContent : vouched'[f] = request[f]
    BY <2>2, <2>3 DEF EsContent
  <2>10. PartsHold(bs, n, vouched', EsOwn, EsAt)
    <3>1. \A d \in EsNames : \A f \in EsOwn[d] : f \in EsContent /\ ES!Payload(request, d)[EsAt[f]] = request[f]
      BY EsParts DEF Placed, EsPay
    <3>2. ASSUME NEW i \in 1..n
          PROVE  /\ bs[i].over[1] \in DOMAIN EsOwn
                 /\ \A f \in EsOwn[bs[i].over[1]] :
                      f \in DOMAIN vouched' /\ bs[i].over[2][EsAt[f]] = vouched'[f]
      <4>1. bs[i].over[1] = as[i].domain /\ bs[i].over[2] = ES!Payload(request, as[i].domain)
        <5>1. bs[i].over = <<as[i].domain, ES!Payload(request, as[i].domain)>>
          BY <2>8
        <5> QED  BY <5>1
      <4>2. as[i].domain \in EsNames
        BY <2>6
      <4>3. \A f \in EsOwn[as[i].domain] :
                f \in DOMAIN vouched' /\ ES!Payload(request, as[i].domain)[EsAt[f]] = vouched'[f]
        BY <2>9, <3>1, <4>2
      <4> QED  BY <4>1, <4>2, <4>3, EsParts
    <3> QED  BY <3>2 DEF PartsHold
  <2>11. Rows(bs, n)
    BY <2>8 DEF Rows
  <2>12. request' = s /\ request'.attestations = bs
    BY <2>1 DEF s, bs
  <2>13. EsSources(bs, vouched') /\ bs # <<>>
    BY <2>4, <2>8, <2>10, <2>11, ListedSeq DEF EsSources
  <2> QED  BY <2>2, <2>3, <2>5, <2>9, <2>12, <2>13, <2>14, <2>15 DEF EsInvariant
<1>3. CASE ES!Evaluate
  BY <1>3 DEF ES!Evaluate, EsInvariant
<1>4. CASE UNCHANGED <<request, report, edits, vouched>>
  BY <1>4 DEF EsInvariant
<1> QED  BY <1>1, <1>2, <1>3, <1>4 DEF ES!Next

LEMMA EsAsSigned ==
    ASSUME EsInvariant, ES!SourcesSigned(request)
    PROVE  DOMAIN vouched = EsContent /\ \A f \in EsContent : vouched[f] = request[f]
<1>1. PICK n \in Nat : /\ Rows(request.attestations, n)
                       /\ PartsHold(request.attestations, n, vouched, EsOwn, EsAt)
  BY DEF EsInvariant, EsSources
<1>2. \A d \in EsNames : \E i \in 1..n : request.attestations[i].over = <<d, ES!Payload(request, d)>>
  BY <1>1, EsDomains DEF ES!SourcesSigned, ES!Covered, ES!SignatureValid, ES!Range, Rows
<1>3. \A d \in EsNames : ES!Payload(request, d) = EsPay(request)[d]
  BY DEF EsPay
<1>4. \A d \in DOMAIN EsOwn : \E i \in 1..n : request.attestations[i].over = <<d, EsPay(request)[d]>>
  BY <1>2, <1>3, EsParts
<1> DEFINE pay == EsPay(request)
<1>5. Placed(EsOwn, EsAt, DOMAIN EsOwn, pay, request)
  BY EsParts
<1> HIDE DEF pay
<1>6. \A d \in DOMAIN EsOwn : \A f \in EsOwn[d] : f \in DOMAIN vouched /\ vouched[f] = request[f]
  <2>2. Attested(request.attestations, n, EsOwn, pay)
    BY <1>4 DEF pay, Attested
  <2>3. PartsHold(request.attestations, n, vouched, EsOwn, EsAt)
    BY <1>1
  <2> QED  BY <1>5, <2>2, <2>3, SignedParts
<1>7. \A f \in EsContent : \E d \in EsNames : f \in EsOwn[d]
  BY EsParts
<1>8. \A f \in EsContent : f \in DOMAIN vouched /\ vouched[f] = request[f]
  BY <1>6, <1>7, EsParts
<1>9. EsContent # {}
  BY DEF EsContent
<1> QED  BY <1>8, <1>9 DEF EsInvariant

(* Three approvals that hold three offices hold one each.                  *)
LEMMA EsApprovers ==
    ASSUME NEW r, NEW m \in Nat, Listed(r.approvals, m), ES!Approved(r)
    PROVE  /\ \A o \in ES!Offices :
                Cardinality({i \in DOMAIN r.approvals :
                    r.approvals[i].role = o /\ r.approvals[i].architecture = r.policy.architecture}) = 1
           /\ Cardinality({r.approvals[i].by : i \in DOMAIN r.approvals}) = 3
           /\ \A i \in DOMAIN r.approvals : r.approvals[i].decision # "rejected"
<1> DEFINE s == r.approvals
<1>1. DOMAIN s = 1..3
  <2>1. Len(s) = m
    BY ListedSeq
  <2>2. Len(s) = 3
    BY DEF ES!Approved
  <2> QED  BY <2>1, <2>2 DEF Listed
<1>2. /\ {a.role : a \in {x \in ES!Range(s) : x.decision = "approved"}} = ES!Offices
      /\ \A i, j \in 1..3 : s[i].by = s[j].by => i = j
      /\ \A i \in 1..3 : s[i].architecture = r.policy.architecture
  BY <1>1 DEF ES!Approved, ES!Distinct, ES!Range
<1>3. \A o \in ES!Offices : \E i \in 1..3 : s[i].role = o /\ s[i].decision = "approved"
  BY <1>1, <1>2 DEF ES!Range
<1> HIDE DEF s
<1>4. PICK x \in 1..3, y \in 1..3, z \in 1..3 :
          /\ s[x].role = "enterprise_owner" /\ s[x].decision = "approved"
          /\ s[y].role = "chief_information_security_officer" /\ s[y].decision = "approved"
          /\ s[z].role = "ot_security_owner" /\ s[z].decision = "approved"
  BY <1>3 DEF ES!Offices
<1>5. x # y /\ y # z /\ x # z
  BY <1>4
<1>6. \A i \in 1..3 : i = x \/ i = y \/ i = z
  BY <1>5
<1>7. ASSUME NEW o \in ES!Offices
      PROVE  \E k \in 1..3 : {i \in 1..3 : s[i].role = o /\ s[i].architecture = r.policy.architecture} = {k}
  <2>1. PICK k \in 1..3 : s[k].role = o
    BY <1>3
  <2>2. \A i \in 1..3 : s[i].role = o => i = k
    BY <1>4, <1>6, <2>1
  <2>3. {i \in 1..3 : s[i].role = o /\ s[i].architecture = r.policy.architecture} = {k}
    BY <1>2, <2>1, <2>2 DEF s
  <2> QED  BY <2>3
<1>8. \A o \in ES!Offices :
          Cardinality({i \in 1..3 : s[i].role = o /\ s[i].architecture = r.policy.architecture}) = 1
  BY <1>7, FS_Singleton
<1>9. Cardinality({s[i].by : i \in 1..3}) = 3
  <2> DEFINE p == s[1].by
             q == s[2].by
             u == s[3].by
  <2>1. {s[i].by : i \in 1..3} = {p, q, u}
    <3>1. \A i \in 1..3 : i = 1 \/ i = 2 \/ i = 3
      OBVIOUS
    <3> QED  BY <3>1
  <2>2. q # p /\ u \notin {p, q}
    BY <1>2 DEF s
  <2> HIDE DEF p, q, u
  <2>3. Cardinality({p, q, u}) = 3
    BY <2>2, ThreeApart
  <2> QED  BY <2>1, <2>3
<1>10. \A i \in 1..3 : s[i].decision # "rejected"
  BY <1>4, <1>6
<1> QED  BY <1>1, <1>8, <1>9, <1>10 DEF s

LEMMA EsSound ==
    ASSUME EsInvariant
    PROVE  ES!TypeOK /\ ES!SecuredAsSigned /\ ES!ThreeOwnersApprove
<1>1. DOMAIN vouched \in {{}, DOMAIN request \ {"at", "attestations"}} /\ edits \in 0..PackageEdits
  <2>1. DOMAIN request \ {"at", "attestations"} = EsContent
    BY DEF EsInvariant, EsContent
  <2> QED  BY <2>1 DEF EsInvariant
<1>2. CASE report = ES!DefaultReport
  BY <1>1, <1>2 DEF ES!DefaultReport, ES!TypeOK, ES!SecuredAsSigned, ES!ThreeOwnersApprove, ES!Passed, ES!Reconciled
<1>3. CASE report = ES!Report(request)
  <2> DEFINE gates == ES!Gates(request)
             passed == {g \in DOMAIN gates : gates[g]}
             all == passed = DOMAIN gates
             others == DOMAIN gates \ ES!SourceGates \subseteq passed
  <2>1. /\ report.status = IF all THEN "evidence_package_passed"
                           ELSE IF others THEN "reconciled_pending_source_attestation" ELSE "blocked"
        /\ report.verified = IF all THEN ES!Verified(request) ELSE ES!None
    BY <1>3 DEF ES!Report
  <2>2. /\ {"source_signatures", "ot_safety_and_approvals"} \subseteq DOMAIN gates
        /\ "ot_safety_and_approvals" \notin ES!SourceGates
        /\ gates["source_signatures"] = ES!SourcesSigned(request)
        /\ gates["ot_safety_and_approvals"] = ES!OtSafe(request)
    BY DEF ES!Gates, ES!SourceGates
  <2> HIDE DEF gates
  <2>3. /\ all => ES!SourcesSigned(request)
        /\ all \/ others => ES!OtSafe(request)
    BY <2>2
  <2>4. ES!Verified(request) # ES!None
    <3>1. "users" \in DOMAIN ES!Verified(request) /\ "users" \notin DOMAIN ES!None
      BY DEF ES!Verified, ES!None
    <3> QED  BY <3>1
  <2> HIDE DEF all, others
  <2>5. ES!TypeOK
    BY <1>1, <2>1, <2>4 DEF ES!TypeOK, ES!Passed
  <2>6. ES!SecuredAsSigned
    <3>1. SUFFICES ASSUME ES!Passed PROVE DOMAIN vouched # {} /\ \A f \in DOMAIN vouched : vouched[f] = request[f]
      BY DEF ES!SecuredAsSigned
    <3>2. ES!SourcesSigned(request)
      BY <2>1, <2>3, <3>1 DEF ES!Passed
    <3>3. EsContent # {}
      BY DEF EsContent
    <3> QED  BY <3>2, <3>3, EsAsSigned
  <2>7. ES!ThreeOwnersApprove
    <3>1. SUFFICES ASSUME ES!Reconciled PROVE ES!ThreeOwnersApprove
      BY DEF ES!ThreeOwnersApprove
    <3>2. ES!Approved(request)
      BY <2>1, <2>3, <3>1 DEF ES!Reconciled, ES!Passed, ES!OtSafe
    <3>3. PICK m \in Nat : Listed(request.approvals, m)
      BY DEF EsInvariant
    <3>4. \A S : ES!Cardinality(S) = Cardinality(S)
      BY DEF ES!Cardinality, Cardinality
    <3> QED  BY <3>2, <3>3, <3>4, EsApprovers DEF ES!ThreeOwnersApprove
  <2> QED  BY <2>5, <2>6, <2>7
<1> QED  BY <1>2, <1>3 DEF EsInvariant

(* All that the safeguards are judged by is signed.                        *)
LEMMA EsUnmoved ==
    ASSUME NEW r, NEW b, b.at = r.at, \A f \in EsContent : b[f] = r[f]
    PROVE  /\ \A d \in EsNames : ES!Payload(b, d) = ES!Payload(r, d)
           /\ \A g \in DOMAIN ES!Gates(r) \ ES!SourceGates : ES!Gates(b)[g] = ES!Gates(r)[g]
<1>1. /\ b.policy = r.policy /\ b.identity = r.identity /\ b.authorization = r.authorization
      /\ b.platform = r.platform /\ b.ha = r.ha /\ b.backup = r.backup /\ b.audit = r.audit
      /\ b.pki = r.pki /\ b.ot = r.ot /\ b.approvals = r.approvals
  BY DEF EsContent
<1>2. ASSUME NEW d \in EsNames PROVE ES!Payload(b, d) = ES!Payload(r, d)
  <2>1. ES!Owned(d) \subseteq EsContent
    BY DEF EsNames, EsContent, ES!Owned
  <2> QED  BY <2>1 DEF ES!Payload
<1>3. ES!Approved(b) = ES!Approved(r)
  BY <1>1 DEF ES!Approved
<1>4. ES!Gates(b).governance_frameworks = ES!Gates(r).governance_frameworks
  <2>1. ES!Governed(b) = ES!Governed(r)
    BY <1>1 DEF ES!Governed
  <2> QED  BY <2>1 DEF ES!Gates
<1>5. ES!Gates(b).federated_identity = ES!Gates(r).federated_identity
  <2>1. ES!Federated(b) = ES!Federated(r)
    BY <1>1 DEF ES!Federated
  <2> QED  BY <2>1 DEF ES!Gates
<1>6. ES!Gates(b).mfa_and_identity_lifecycle = ES!Gates(r).mfa_and_identity_lifecycle
  <2>1. ES!LifecycleReady(b) = ES!LifecycleReady(r)
    BY <1>1 DEF ES!LifecycleReady
  <2> QED  BY <2>1 DEF ES!Gates
<1>7. ES!Gates(b).named_rbac_least_privilege = ES!Gates(r).named_rbac_least_privilege
  <2>1. ES!NamedReady(b) = ES!NamedReady(r)
    BY <1>1 DEF ES!NamedReady
  <2> QED  BY <2>1 DEF ES!Gates
<1>8. ES!Gates(b).segregation_and_privileged_review = ES!Gates(r).segregation_and_privileged_review
  <2>1. ES!Segregated(b) = ES!Segregated(r)
    BY <1>1 DEF ES!Segregated
  <2> QED  BY <2>1 DEF ES!Gates
<1>9. ES!Gates(b).tenant_isolation = ES!Gates(r).tenant_isolation
  <2>1. ES!TenantsReady(b) = ES!TenantsReady(r)
    BY <1>1 DEF ES!TenantsReady
  <2> QED  BY <2>1 DEF ES!Gates
<1>10. ES!Gates(b).durable_messaging = ES!Gates(r).durable_messaging
  <2>1. ES!MessagingReady(b) = ES!MessagingReady(r)
    BY <1>1 DEF ES!MessagingReady
  <2> QED  BY <2>1 DEF ES!Gates
<1>11. ES!Gates(b).timeseries_resilience = ES!Gates(r).timeseries_resilience
  <2>1. ES!SeriesReady(b) = ES!SeriesReady(r)
    BY <1>1 DEF ES!SeriesReady
  <2> QED  BY <2>1 DEF ES!Gates
<1>12. ES!Gates(b).ha_topology = ES!Gates(r).ha_topology
  <2>1. ES!TopologyReady(b) = ES!TopologyReady(r)
    BY <1>1 DEF ES!TopologyReady
  <2> QED  BY <2>1 DEF ES!Gates
<1>13. ES!Gates(b).failover_and_slo = ES!Gates(r).failover_and_slo
  <2>1. ES!FailoverReady(b) = ES!FailoverReady(r)
    BY <1>1 DEF ES!FailoverReady
  <2> QED  BY <2>1 DEF ES!Gates
<1>14. ES!Gates(b).immutable_backups = ES!Gates(r).immutable_backups
  <2>1. ES!BackupReady(b) = ES!BackupReady(r)
    BY <1>1 DEF ES!BackupReady
  <2> QED  BY <2>1 DEF ES!Gates
<1>15. ES!Gates(b).restore_rpo_rto = ES!Gates(r).restore_rpo_rto
  <2>1. ES!RecoveryReady(b) = ES!RecoveryReady(r)
    BY <1>1 DEF ES!RecoveryReady
  <2> QED  BY <2>1 DEF ES!Gates
<1>16. ES!Gates(b).worm_audit_retention = ES!Gates(r).worm_audit_retention
  <2>1. ES!WormReady(b) = ES!WormReady(r)
    BY <1>1 DEF ES!WormReady
  <2> QED  BY <2>1 DEF ES!Gates
<1>17. ES!Gates(b).siem_detection_response = ES!Gates(r).siem_detection_response
  <2>1. ES!SiemReady(b) = ES!SiemReady(r)
    BY <1>1 DEF ES!SiemReady
  <2> QED  BY <2>1 DEF ES!Gates
<1>18. ES!Gates(b).mtls_and_key_rotation = ES!Gates(r).mtls_and_key_rotation
  <2>1. ES!PkiReady(b) = ES!PkiReady(r)
    BY <1>1 DEF ES!PkiReady
  <2> QED  BY <2>1 DEF ES!Gates
<1>19. ES!Gates(b).ot_segmentation_remote_access = ES!Gates(r).ot_segmentation_remote_access
  <2>1. ES!Segmented(b) = ES!Segmented(r)
    BY <1>1 DEF ES!Segmented
  <2> QED  BY <2>1 DEF ES!Gates
<1>20. ES!Gates(b).ot_safety_and_approvals = ES!Gates(r).ot_safety_and_approvals
  <2>1. ES!OtSafe(b) = ES!OtSafe(r)
    BY <1>1, <1>3 DEF ES!OtSafe
  <2> QED  BY <2>1 DEF ES!Gates
<1>21. DOMAIN ES!Gates(r) \ ES!SourceGates
      = {"governance_frameworks", "federated_identity", "mfa_and_identity_lifecycle",
         "named_rbac_least_privilege", "segregation_and_privileged_review", "tenant_isolation",
         "durable_messaging", "timeseries_resilience", "ha_topology", "failover_and_slo",
         "immutable_backups", "restore_rpo_rto", "worm_audit_retention", "siem_detection_response",
         "mtls_and_key_rotation", "ot_segmentation_remote_access", "ot_safety_and_approvals"}
  BY DEF ES!Gates, ES!SourceGates
<1>22. \A g \in DOMAIN ES!Gates(r) \ ES!SourceGates : ES!Gates(b)[g] = ES!Gates(r)[g]
  BY <1>4, <1>5, <1>6, <1>7, <1>8, <1>9, <1>10, <1>11, <1>12, <1>13, <1>14, <1>15, <1>16, <1>17, <1>18, <1>19, <1>20, <1>21
<1> QED  BY <1>2, <1>22

LEMMA EsPending ==
    ASSUME EsInvariant, "k1" \in Trusted
    PROVE  ES!PendingNeedsOnlySources
<1> DEFINE r == request
           rows == [i \in DOMAIN ES!DomainSeq |-> [ES!Attestation(ES!DomainSeq[i]) EXCEPT !.observed = r.at]]
           fresh == [r EXCEPT !.attestations = rows]
           b == ES!Signed(fresh, [d \in ES!Domains |-> "k1"])
           bs == b.attestations
           others == \A g \in DOMAIN ES!Gates(r) \ ES!SourceGates : ES!Gates(r)[g]
<1> SUFFICES ASSUME others PROVE ES!Report(b).status = "evidence_package_passed"
  <2>1. ASSUME report = ES!DefaultReport PROVE report.status # "reconciled_pending_source_attestation"
    BY <2>1 DEF ES!DefaultReport
  <2>2. ASSUME report = ES!Report(r), report.status = "reconciled_pending_source_attestation"
        PROVE  others
    BY <2>2 DEF ES!Report
  <2> QED  BY <2>1, <2>2, Zenon DEF ES!PendingNeedsOnlySources, EsInvariant
<1> HIDE DEF others
<1>1. /\ DOMAIN fresh = DOMAIN r /\ fresh.attestations = rows
      /\ fresh.at = r.at /\ \A f \in EsContent : fresh[f] = r[f]
  BY DEF EsInvariant, EsContent
<1>2. /\ DOMAIN rows = 1..9
      /\ \A i \in 1..9 : /\ rows[i].domain = ES!DomainSeq[i] /\ rows[i].live /\ rows[i].observed = r.at
                          /\ {"domain", "key", "observed", "live", "over"} = DOMAIN rows[i]
  BY EsDomains DEF ES!Attestation
<1>3. \A i \in 1..9 : ES!DomainSeq[i] \in ES!Domains
  BY EsDomains DEF ES!Domains, ES!Range
<1>4. /\ b.at = r.at /\ \A f \in EsContent : b[f] = r[f]
      /\ bs = [i \in DOMAIN rows |-> [rows[i] EXCEPT !.key = "k1",
                                       !.over = <<rows[i].domain, ES!Payload(fresh, rows[i].domain)>>]]
  <2> DEFINE key == [d \in ES!Domains |-> "k1"]
  <2>1. b = [fresh EXCEPT !.attestations = [i \in DOMAIN rows |-> [rows[i] EXCEPT !.key = key[rows[i].domain],
                                              !.over = <<rows[i].domain, ES!Payload(fresh, rows[i].domain)>>]]]
    BY <1>1 DEF ES!Signed
  <2>2. {"at", "attestations"} \cup EsContent = DOMAIN fresh /\ "attestations" \notin EsContent
    BY <1>1 DEF EsInvariant, EsContent
  <2>3. \A i \in DOMAIN rows : key[rows[i].domain] = "k1"
    BY <1>2, <1>3
  <2> HIDE DEF rows, fresh, b, key
  <2> QED  BY <1>1, <2>1, <2>2, <2>3 DEF bs
<1> HIDE DEF rows, fresh, b
<1>5. \A d \in EsNames : ES!Payload(fresh, d) = ES!Payload(b, d)
  <2>1. b.at = fresh.at /\ \A f \in EsContent : b[f] = fresh[f]
    BY <1>1, <1>4
  <2> QED  BY <2>1, EsUnmoved
<1>7. FreshRows(bs, 9, ES!DomainSeq, r.at, EsPay(b))
  <2>1. DOMAIN bs = 1..9
    BY <1>2, <1>4
  <2>2. ASSUME NEW i \in 1..9
        PROVE  /\ bs[i].domain = ES!DomainSeq[i] /\ bs[i].key = "k1" /\ bs[i].live /\ bs[i].observed = r.at
               /\ bs[i].over = <<ES!DomainSeq[i], EsPay(b)[ES!DomainSeq[i]]>>
    <3>1. ES!DomainSeq[i] \in EsNames
      BY <1>3, EsDomains
    <3>2. bs[i] = [rows[i] EXCEPT !.key = "k1", !.over = <<rows[i].domain, ES!Payload(fresh, rows[i].domain)>>]
      BY <1>2, <1>3, <1>4
    <3>3. bs[i].over = <<ES!DomainSeq[i], ES!Payload(fresh, ES!DomainSeq[i])>>
      BY <1>2, <3>2
    <3>4. ES!Payload(fresh, ES!DomainSeq[i]) = EsPay(b)[ES!DomainSeq[i]]
      BY <1>5, <3>1 DEF EsPay
    <3> QED  BY <1>2, <3>2, <3>3, <3>4
  <2> QED  BY <2>1, <2>2 DEF FreshRows
<1>8. \A i, j \in 1..9 : ES!DomainSeq[i] = ES!DomainSeq[j] => i = j
  BY DEF ES!DomainSeq
<1>9. r.at \in Int /\ r.policy.age \in Nat /\ r.policy.alignment \in Nat /\ b.at = r.at /\ b.policy = r.policy
  BY <1>4 DEF EsInvariant, EsContent, Dated
<1> HIDE DEF bs
<1>10. /\ \A i, j \in DOMAIN bs : bs[i].domain = bs[j].domain => i = j
       /\ {a.domain : a \in {bs[i] : i \in DOMAIN bs}} = {ES!DomainSeq[i] : i \in 1..9}
       /\ \A a \in {bs[i] : i \in DOMAIN bs} : a.key \in Trusted /\ a.over = <<a.domain, EsPay(b)[a.domain]>>
       /\ \A a, c \in {bs[i] : i \in DOMAIN bs} :
            a.live /\ 0 <= r.at - a.observed /\ r.at - a.observed <= r.policy.age
            /\ a.observed - c.observed <= r.policy.alignment
  <2>1. "k1" \in Trusted /\ 9 \in Nat /\ r.at \in Int /\ r.policy.age \in Nat /\ r.policy.alignment \in Nat
    BY <1>9
  <2>2. TrustedRows(bs, 9, ES!DomainSeq, r.at, EsPay(b), r.policy.age, r.policy.alignment)
    BY <1>7, <1>8, <2>1, FreshTrusted
  <2> QED  BY <2>2 DEF TrustedRows
<1> DEFINE all == {bs[i] : i \in DOMAIN bs}
<1>11. ES!Range(b.attestations) = all
  BY DEF ES!Range, bs
<1>12. {a.domain : a \in all} = ES!Domains
  BY <1>10, EsDomains DEF ES!Domains, ES!Range
<1> HIDE DEF all
<1>13. ES!Covered(b)
  BY <1>10, <1>11, <1>12 DEF ES!Covered, ES!Distinct, bs
<1>14. \A a \in all : ES!SignatureValid(b, a)
  <2>1. ASSUME NEW a \in all PROVE ES!SignatureValid(b, a)
    <3>1. a.domain \in EsNames
      BY <1>12, EsDomains
    <3>2. a.key \in Trusted /\ a.over = <<a.domain, EsPay(b)[a.domain]>>
      BY <1>10 DEF all
    <3> QED  BY <3>1, <3>2 DEF ES!SignatureValid, EsPay
  <2> QED  BY <2>1
<1>15. ES!SourcesSigned(b)
  BY <1>11, <1>13, <1>14 DEF ES!SourcesSigned
<1>16. ES!FreshAndLive(b)
  BY <1>9, <1>10, <1>11 DEF ES!FreshAndLive, all
<1>17. /\ ES!Gates(b).source_domain_coverage = ES!Covered(b)
       /\ ES!Gates(b).source_signatures = ES!SourcesSigned(b)
       /\ ES!Gates(b).source_time_and_live = ES!FreshAndLive(b)
       /\ DOMAIN ES!Gates(b) = DOMAIN ES!Gates(r)
  BY DEF ES!Gates
<1>18. \A g \in ES!SourceGates : ES!Gates(b)[g]
  BY <1>13, <1>15, <1>16, <1>17 DEF ES!SourceGates
<1>19. \A g \in DOMAIN ES!Gates(r) \ ES!SourceGates : ES!Gates(b)[g]
  BY <1>4, EsUnmoved DEF others
<1>20. \A g \in DOMAIN ES!Gates(b) : ES!Gates(b)[g]
  BY <1>17, <1>18, <1>19
<1> QED  BY <1>20 DEF ES!Report

(* The parts of a package that are at least as good as those of another:   *)
(* they say the same, and their figures are no worse.                      *)
AsGoodIdentity(b, r) ==
    /\ EsIdentity(b) /\ EsIdentity(r)
    /\ b.keys = r.keys /\ b.missing = r.missing
    /\ b.deprovision <= r.deprovision
AsGoodPlatform(b, r) ==
    /\ EsPlatform(b) /\ EsPlatform(r)
    /\ b.published = r.published /\ b.duplicates = r.duplicates /\ b.store = r.store /\ b.replicas = r.replicas /\ b.days = r.days /\ b.missing = r.missing
    /\ b.nodes >= r.nodes /\ b.acked >= r.acked
AsGoodHa(b, r) ==
    /\ EsAvailability(b) /\ EsAvailability(r)
    /\ b.api = r.api /\ b.worker = r.worker /\ b.zones = r.zones /\ b.database = r.database /\ b.capacity = r.capacity /\ b.missing = r.missing
    /\ b.failover <= r.failover /\ b.available >= r.available
AsGoodBackup(b, r) ==
    /\ EsBackup(b) /\ EsBackup(r)
    /\ b.days = r.days /\ b.missing = r.missing
    /\ b.rpo <= r.rpo /\ b.rto <= r.rto
AsGoodAudit(b, r) ==
    /\ EsAuditLog(b) /\ EsAuditLog(r)
    /\ b.generated = r.generated /\ b.rules = r.rules /\ b.missing = r.missing
    /\ b.days >= r.days /\ b.delivered >= r.delivered /\ b.detection <= r.detection
AsGoodPki(b, r) ==
    /\ EsPki(b) /\ EsPki(r)
    /\ b.expired = r.expired /\ b.missing = r.missing
    /\ b.remaining <= r.remaining /\ b.keyAge <= r.keyAge
    /\ b.tls \in {r.tls, "TLS1.3"}
AsGoodOt(b, r) ==
    /\ EsOt(b) /\ EsOt(r)
    /\ b.zones = r.zones /\ b.inventory = r.inventory /\ b.missing = r.missing
    /\ b.remediation >= r.remediation
EsAsGood(b, r) ==
    /\ b.at = r.at /\ b.policy = r.policy /\ b.authorization = r.authorization /\ b.approvals = r.approvals
    /\ EsTerms(r.policy)
    /\ AsGoodIdentity(b.identity, r.identity)
    /\ AsGoodPlatform(b.platform, r.platform)
    /\ AsGoodHa(b.ha, r.ha)
    /\ AsGoodBackup(b.backup, r.backup)
    /\ AsGoodAudit(b.audit, r.audit)
    /\ AsGoodPki(b.pki, r.pki)
    /\ AsGoodOt(b.ot, r.ot)

LEMMA EsBetter ==
    ASSUME NEW r, DOMAIN r = {"at", "attestations"} \cup EsContent, EsFigures(r), NEW b \in ES!Better(r)
    PROVE  EsAsGood(b, r)
<1> DEFINE b1 == [r EXCEPT !.pki.tls = "TLS1.3"]
           b2 == [r EXCEPT !.pki.keyAge = @ - 1]
           b3 == [r EXCEPT !.pki.remaining = @ - 1]
           b4 == [r EXCEPT !.audit.days = @ + 1]
           b5 == [r EXCEPT !.audit.delivered = @ + 1]
           b6 == [r EXCEPT !.audit.detection = @ - 1]
           b7 == [r EXCEPT !.backup.rpo = @ - 1]
           b8 == [r EXCEPT !.backup.rto = @ - 1]
           b9 == [r EXCEPT !.ha.failover = @ - 1]
           b10 == [r EXCEPT !.ha.available = @ + 1]
           b11 == [r EXCEPT !.platform.acked = @ + 1]
           b12 == [r EXCEPT !.platform.nodes = @ + 1]
           b13 == [r EXCEPT !.identity.deprovision = @ - 1]
           b14 == [r EXCEPT !.ot.remediation = @ + 1]
           Good(x) ==
             /\ x.at = r.at /\ x.policy = r.policy /\ x.authorization = r.authorization /\ x.approvals = r.approvals
             /\ AsGoodIdentity(x.identity, r.identity)
             /\ AsGoodPlatform(x.platform, r.platform)
             /\ AsGoodHa(x.ha, r.ha)
             /\ AsGoodBackup(x.backup, r.backup)
             /\ AsGoodAudit(x.audit, r.audit)
             /\ AsGoodPki(x.pki, r.pki)
             /\ AsGoodOt(x.ot, r.ot)
<1>a. {"at", "authorization", "approvals", "policy", "identity", "platform", "ha", "backup", "audit", "pki", "ot"} \subseteq DOMAIN r
  BY DEF EsContent
<1>0. AsGoodIdentity(r.identity, r.identity) /\ AsGoodPlatform(r.platform, r.platform) /\ AsGoodHa(r.ha, r.ha) /\ AsGoodBackup(r.backup, r.backup)
      /\ AsGoodAudit(r.audit, r.audit) /\ AsGoodPki(r.pki, r.pki) /\ AsGoodOt(r.ot, r.ot)
  <2>1. AsGoodIdentity(r.identity, r.identity)
    BY DEF EsFigures, EsIdentity, AsGoodIdentity
  <2>2. AsGoodPlatform(r.platform, r.platform)
    BY DEF EsFigures, EsPlatform, AsGoodPlatform
  <2>3. AsGoodHa(r.ha, r.ha)
    BY DEF EsFigures, EsAvailability, AsGoodHa
  <2>4. AsGoodBackup(r.backup, r.backup)
    BY DEF EsFigures, EsBackup, AsGoodBackup
  <2>5. AsGoodAudit(r.audit, r.audit)
    BY DEF EsFigures, EsAuditLog, AsGoodAudit
  <2>6. AsGoodPki(r.pki, r.pki)
    BY DEF EsFigures, EsPki, AsGoodPki
  <2>7. AsGoodOt(r.ot, r.ot)
    BY DEF EsFigures, EsOt, AsGoodOt
  <2> QED  BY <2>1, <2>2, <2>3, <2>4, <2>5, <2>6, <2>7
<1>1. Good(b1)
  <2>1. b1.pki = [r.pki EXCEPT !.tls = "TLS1.3"]
    BY <1>a
  <2>2. EsPki(r.pki)
    BY DEF EsFigures
  <2>3. AsGoodPki(b1.pki, r.pki)
    BY <2>1, <2>2 DEF EsPki, AsGoodPki
  <2> QED  BY <1>a, <1>0, <2>3
<1>2. Good(b2)
  <2>1. b2.pki = [r.pki EXCEPT !.keyAge = @ - 1]
    BY <1>a
  <2>2. EsPki(r.pki)
    BY DEF EsFigures
  <2>3. AsGoodPki(b2.pki, r.pki)
    BY <2>1, <2>2 DEF EsPki, AsGoodPki
  <2> QED  BY <1>a, <1>0, <2>3
<1>3. Good(b3)
  <2>1. b3.pki = [r.pki EXCEPT !.remaining = @ - 1]
    BY <1>a
  <2>2. EsPki(r.pki)
    BY DEF EsFigures
  <2>3. AsGoodPki(b3.pki, r.pki)
    BY <2>1, <2>2 DEF EsPki, AsGoodPki
  <2> QED  BY <1>a, <1>0, <2>3
<1>4. Good(b4)
  <2>1. b4.audit = [r.audit EXCEPT !.days = @ + 1]
    BY <1>a
  <2>2. EsAuditLog(r.audit)
    BY DEF EsFigures
  <2>3. AsGoodAudit(b4.audit, r.audit)
    BY <2>1, <2>2 DEF EsAuditLog, AsGoodAudit
  <2> QED  BY <1>a, <1>0, <2>3
<1>5. Good(b5)
  <2>1. b5.audit = [r.audit EXCEPT !.delivered = @ + 1]
    BY <1>a
  <2>2. EsAuditLog(r.audit)
    BY DEF EsFigures
  <2>3. AsGoodAudit(b5.audit, r.audit)
    BY <2>1, <2>2 DEF EsAuditLog, AsGoodAudit
  <2> QED  BY <1>a, <1>0, <2>3
<1>6. Good(b6)
  <2>1. b6.audit = [r.audit EXCEPT !.detection = @ - 1]
    BY <1>a
  <2>2. EsAuditLog(r.audit)
    BY DEF EsFigures
  <2>3. AsGoodAudit(b6.audit, r.audit)
    BY <2>1, <2>2 DEF EsAuditLog, AsGoodAudit
  <2> QED  BY <1>a, <1>0, <2>3
<1>7. Good(b7)
  <2>1. b7.backup = [r.backup EXCEPT !.rpo = @ - 1]
    BY <1>a
  <2>2. EsBackup(r.backup)
    BY DEF EsFigures
  <2>3. AsGoodBackup(b7.backup, r.backup)
    BY <2>1, <2>2 DEF EsBackup, AsGoodBackup
  <2> QED  BY <1>a, <1>0, <2>3
<1>8. Good(b8)
  <2>1. b8.backup = [r.backup EXCEPT !.rto = @ - 1]
    BY <1>a
  <2>2. EsBackup(r.backup)
    BY DEF EsFigures
  <2>3. AsGoodBackup(b8.backup, r.backup)
    BY <2>1, <2>2 DEF EsBackup, AsGoodBackup
  <2> QED  BY <1>a, <1>0, <2>3
<1>9. Good(b9)
  <2>1. b9.ha = [r.ha EXCEPT !.failover = @ - 1]
    BY <1>a
  <2>2. EsAvailability(r.ha)
    BY DEF EsFigures
  <2>3. AsGoodHa(b9.ha, r.ha)
    BY <2>1, <2>2 DEF EsAvailability, AsGoodHa
  <2> QED  BY <1>a, <1>0, <2>3
<1>10. Good(b10)
  <2>1. b10.ha = [r.ha EXCEPT !.available = @ + 1]
    BY <1>a
  <2>2. EsAvailability(r.ha)
    BY DEF EsFigures
  <2>3. AsGoodHa(b10.ha, r.ha)
    BY <2>1, <2>2 DEF EsAvailability, AsGoodHa
  <2> QED  BY <1>a, <1>0, <2>3
<1>11. Good(b11)
  <2>1. b11.platform = [r.platform EXCEPT !.acked = @ + 1]
    BY <1>a
  <2>2. EsPlatform(r.platform)
    BY DEF EsFigures
  <2>3. AsGoodPlatform(b11.platform, r.platform)
    BY <2>1, <2>2 DEF EsPlatform, AsGoodPlatform
  <2> QED  BY <1>a, <1>0, <2>3
<1>12. Good(b12)
  <2>1. b12.platform = [r.platform EXCEPT !.nodes = @ + 1]
    BY <1>a
  <2>2. EsPlatform(r.platform)
    BY DEF EsFigures
  <2>3. AsGoodPlatform(b12.platform, r.platform)
    BY <2>1, <2>2 DEF EsPlatform, AsGoodPlatform
  <2> QED  BY <1>a, <1>0, <2>3
<1>13. Good(b13)
  <2>1. b13.identity = [r.identity EXCEPT !.deprovision = @ - 1]
    BY <1>a
  <2>2. EsIdentity(r.identity)
    BY DEF EsFigures
  <2>3. AsGoodIdentity(b13.identity, r.identity)
    BY <2>1, <2>2 DEF EsIdentity, AsGoodIdentity
  <2> QED  BY <1>a, <1>0, <2>3
<1>14. Good(b14)
  <2>1. b14.ot = [r.ot EXCEPT !.remediation = @ + 1]
    BY <1>a
  <2>2. EsOt(r.ot)
    BY DEF EsFigures
  <2>3. AsGoodOt(b14.ot, r.ot)
    BY <2>1, <2>2 DEF EsOt, AsGoodOt
  <2> QED  BY <1>a, <1>0, <2>3
<1>15. b \in {b1, b2, b3, b4, b5, b6, b7, b8, b9, b10, b11, b12, b13, b14}
  BY DEF ES!Better
<1> HIDE DEF Good, b1, b2, b3, b4, b5, b6, b7, b8, b9, b10, b11, b12, b13, b14
<1>16. Good(b)
  BY <1>1, <1>2, <1>3, <1>4, <1>5, <1>6, <1>7, <1>8, <1>9, <1>10, <1>11, <1>12, <1>13, <1>14, <1>15
<1> QED  BY <1>16 DEF Good, EsAsGood, EsFigures

(* What is as good passes every gate of the safeguards that the other does. *)
LEMMA EsMonotone ==
    ASSUME NEW r, NEW b, EsAsGood(b, r)
    PROVE  \A g \in DOMAIN ES!Gates(r) \ ES!SourceGates : ES!Gates(r)[g] => ES!Gates(b)[g]
<1>1. b.at = r.at /\ b.policy = r.policy /\ b.authorization = r.authorization /\ b.approvals = r.approvals
      /\ EsTerms(r.policy)
  BY DEF EsAsGood
<1>2. AsGoodIdentity(b.identity, r.identity) /\ AsGoodPlatform(b.platform, r.platform) /\ AsGoodHa(b.ha, r.ha) /\ AsGoodBackup(b.backup, r.backup)
      /\ AsGoodAudit(b.audit, r.audit) /\ AsGoodPki(b.pki, r.pki) /\ AsGoodOt(b.ot, r.ot)
  BY DEF EsAsGood
<1>3. ES!Approved(b) = ES!Approved(r)
  BY <1>1 DEF ES!Approved
<1>4. ES!Gates(r).governance_frameworks => ES!Gates(b).governance_frameworks
  <2>1. ES!Governed(r) => ES!Governed(b)
    BY <1>1, <1>2 DEF ES!Governed
  <2> QED  BY <2>1 DEF ES!Gates
<1>5. ES!Gates(r).federated_identity => ES!Gates(b).federated_identity
  <2>1. ES!Federated(r) => ES!Federated(b)
    BY <1>1, <1>2 DEF ES!Federated, AsGoodIdentity, EsIdentity
  <2> QED  BY <2>1 DEF ES!Gates
<1>6. ES!Gates(r).mfa_and_identity_lifecycle => ES!Gates(b).mfa_and_identity_lifecycle
  <2>1. ES!LifecycleReady(r) => ES!LifecycleReady(b)
    BY <1>1, <1>2 DEF ES!LifecycleReady, AsGoodIdentity, EsIdentity
  <2> QED  BY <2>1 DEF ES!Gates
<1>7. ES!Gates(r).named_rbac_least_privilege => ES!Gates(b).named_rbac_least_privilege
  <2>1. ES!NamedReady(r) => ES!NamedReady(b)
    BY <1>1, <1>2 DEF ES!NamedReady
  <2> QED  BY <2>1 DEF ES!Gates
<1>8. ES!Gates(r).segregation_and_privileged_review => ES!Gates(b).segregation_and_privileged_review
  <2>1. ES!Segregated(r) => ES!Segregated(b)
    BY <1>1, <1>2 DEF ES!Segregated
  <2> QED  BY <2>1 DEF ES!Gates
<1>9. ES!Gates(r).tenant_isolation => ES!Gates(b).tenant_isolation
  <2>1. ES!TenantsReady(r) => ES!TenantsReady(b)
    BY <1>1, <1>2 DEF ES!TenantsReady
  <2> QED  BY <2>1 DEF ES!Gates
<1>10. ES!Gates(r).durable_messaging => ES!Gates(b).durable_messaging
  <2>1. ES!MessagingReady(r) => ES!MessagingReady(b)
    BY <1>1, <1>2 DEF ES!MessagingReady, AsGoodPlatform, EsPlatform
  <2> QED  BY <2>1 DEF ES!Gates
<1>11. ES!Gates(r).timeseries_resilience => ES!Gates(b).timeseries_resilience
  <2>1. ES!SeriesReady(r) => ES!SeriesReady(b)
    BY <1>1, <1>2 DEF ES!SeriesReady, AsGoodPlatform, EsPlatform
  <2> QED  BY <2>1 DEF ES!Gates
<1>12. ES!Gates(r).ha_topology => ES!Gates(b).ha_topology
  <2>1. ES!TopologyReady(r) => ES!TopologyReady(b)
    BY <1>1, <1>2 DEF ES!TopologyReady, AsGoodHa, EsAvailability
  <2> QED  BY <2>1 DEF ES!Gates
<1>13. ES!Gates(r).failover_and_slo => ES!Gates(b).failover_and_slo
  <2>1. ES!FailoverReady(r) => ES!FailoverReady(b)
    BY <1>1, <1>2 DEF ES!FailoverReady, AsGoodHa, EsAvailability, EsTerms
  <2> QED  BY <2>1 DEF ES!Gates
<1>14. ES!Gates(r).immutable_backups => ES!Gates(b).immutable_backups
  <2>1. ES!BackupReady(r) => ES!BackupReady(b)
    BY <1>1, <1>2 DEF ES!BackupReady, AsGoodBackup, EsBackup
  <2> QED  BY <2>1 DEF ES!Gates
<1>15. ES!Gates(r).restore_rpo_rto => ES!Gates(b).restore_rpo_rto
  <2>1. ES!RecoveryReady(r) => ES!RecoveryReady(b)
    BY <1>1, <1>2 DEF ES!RecoveryReady, AsGoodBackup, EsBackup, EsTerms
  <2> QED  BY <2>1 DEF ES!Gates
<1>16. ES!Gates(r).worm_audit_retention => ES!Gates(b).worm_audit_retention
  <2>1. ES!WormReady(r) => ES!WormReady(b)
    BY <1>1, <1>2 DEF ES!WormReady, AsGoodAudit, EsAuditLog, EsTerms
  <2> QED  BY <2>1 DEF ES!Gates
<1>17. ES!Gates(r).siem_detection_response => ES!Gates(b).siem_detection_response
  <2>1. ES!SiemReady(r) => ES!SiemReady(b)
    BY <1>1, <1>2 DEF ES!SiemReady, AsGoodAudit, EsAuditLog
  <2> QED  BY <2>1 DEF ES!Gates
<1>18. ES!Gates(r).mtls_and_key_rotation => ES!Gates(b).mtls_and_key_rotation
  <2>1. ES!PkiReady(r) => ES!PkiReady(b)
    BY <1>1, <1>2 DEF ES!PkiReady, AsGoodPki, EsPki, EsTerms, ES!TlsRank
  <2> QED  BY <2>1 DEF ES!Gates
<1>19. ES!Gates(r).ot_segmentation_remote_access => ES!Gates(b).ot_segmentation_remote_access
  <2>1. ES!Segmented(r) => ES!Segmented(b)
    BY <1>1, <1>2 DEF ES!Segmented, AsGoodOt, EsOt
  <2> QED  BY <2>1 DEF ES!Gates
<1>20. ES!Gates(r).ot_safety_and_approvals => ES!Gates(b).ot_safety_and_approvals
  <2>1. ES!OtSafe(r) => ES!OtSafe(b)
    BY <1>1, <1>2, <1>3 DEF ES!OtSafe, AsGoodOt, EsOt
  <2> QED  BY <2>1 DEF ES!Gates
<1>21. DOMAIN ES!Gates(r) \ ES!SourceGates
      = {"governance_frameworks", "federated_identity", "mfa_and_identity_lifecycle", "named_rbac_least_privilege", "segregation_and_privileged_review", "tenant_isolation", "durable_messaging", "timeseries_resilience", "ha_topology", "failover_and_slo", "immutable_backups", "restore_rpo_rto", "worm_audit_retention", "siem_detection_response", "mtls_and_key_rotation", "ot_segmentation_remote_access", "ot_safety_and_approvals"}
  BY DEF ES!Gates, ES!SourceGates
<1> QED  BY <1>4, <1>5, <1>6, <1>7, <1>8, <1>9, <1>10, <1>11, <1>12, <1>13, <1>14, <1>15, <1>16, <1>17, <1>18, <1>19, <1>20, <1>21

LEMMA EsOrder ==
    ASSUME EsInvariant PROVE ES!BetterNeverBlocks
<1> SUFFICES ASSUME ES!Reconciled, NEW b \in ES!Better(request)
             PROVE  report.passed \ ES!SourceGates \subseteq ES!Report(b).passed
  BY DEF ES!BetterNeverBlocks
<1>1. report = ES!Report(request)
  <2>1. ES!DefaultReport.status = "blocked"
    BY DEF ES!DefaultReport
  <2> QED  BY <2>1 DEF EsInvariant, ES!Reconciled, ES!Passed
<1>2. EsAsGood(b, request)
  BY EsBetter DEF EsInvariant
<1>3. \A g \in DOMAIN ES!Gates(request) \ ES!SourceGates : ES!Gates(request)[g] => ES!Gates(b)[g]
  BY <1>2, EsMonotone
<1>4. \A x : ES!Report(x).passed = {g \in DOMAIN ES!Gates(x) : ES!Gates(x)[g]}
  BY DEF ES!Report
<1>5. DOMAIN ES!Gates(b) = DOMAIN ES!Gates(request)
  BY DEF ES!Gates
<1> QED  BY <1>1, <1>3, <1>4, <1>5

(* Every organization has a key of its own, so that as many keys are in use  *)
(* as organizations are counted.                                             *)
LEMMA EsKeyed ==
    ASSUME EsInvariant PROVE ES!TenantsApart
<1> DEFINE z == request.authorization
           S == {z.keys[t] : t \in DOMAIN z.keys}
<1> SUFFICES ASSUME ES!Reconciled
             PROVE  ES!Cardinality(S) = Len(z.tenants) /\ \A i \in DOMAIN z.tenants : z.tenants[i] \in DOMAIN z.keys
  BY DEF ES!TenantsApart
<1>1. report = ES!Report(request)
  <2>1. ES!DefaultReport.status = "blocked"
    BY DEF ES!DefaultReport
  <2> QED  BY <2>1 DEF EsInvariant, ES!Reconciled, ES!Passed
<1>2. ES!TenantsReady(request)
  <2> DEFINE gates == ES!Gates(request)
             passed == {g \in DOMAIN gates : gates[g]}
  <2>1. "tenant_isolation" \in DOMAIN gates \ ES!SourceGates /\ gates["tenant_isolation"] = ES!TenantsReady(request)
    BY DEF ES!Gates, ES!SourceGates
  <2> HIDE DEF gates
  <2>2. passed = DOMAIN gates \/ DOMAIN gates \ ES!SourceGates \subseteq passed
    <3>1. report.status = IF passed = DOMAIN gates THEN "evidence_package_passed"
                          ELSE IF DOMAIN gates \ ES!SourceGates \subseteq passed THEN "reconciled_pending_source_attestation"
                          ELSE "blocked"
      BY <1>1 DEF ES!Report, gates
    <3> HIDE DEF passed
    <3> QED  BY <3>1 DEF ES!Reconciled, ES!Passed
  <2> QED  BY <2>1, <2>2
<1>3. PICK n \in Nat : Listed(z.tenants, n)
  BY DEF EsInvariant, EsFigures, EsAuthorization
<1> DEFINE s == z.tenants
           f == [i \in 1..n |-> z.keys[s[i]]]
<1>4. DOMAIN s = 1..n /\ Len(s) = n
  BY <1>3, ListedSeq DEF Listed
<1>5. {s[i] : i \in 1..n} = DOMAIN z.keys
  BY <1>2, <1>4 DEF ES!TenantsReady, ES!Range
<1>6. \A i, j \in 1..n : z.keys[s[i]] = z.keys[s[j]] => i = j
  <2>1. \A t, u \in DOMAIN z.keys : z.keys[t] = z.keys[u] => t = u
    BY <1>2 DEF ES!TenantsReady
  <2>2. \A i, j \in 1..n : s[i] = s[j] => i = j
    BY <1>4 DEF EsInvariant, EsTenants
  <2>3. \A i \in 1..n : s[i] \in DOMAIN z.keys
    BY <1>5
  <2> QED  BY <2>1, <2>2, <2>3
<1>7. S = {f[i] : i \in 1..n}
  <2>1. \A i \in 1..n : f[i] = z.keys[s[i]]
    OBVIOUS
  <2> HIDE DEF f
  <2>2. ASSUME NEW k \in S PROVE k \in {f[i] : i \in 1..n}
    <3>1. PICK t \in DOMAIN z.keys : k = z.keys[t]
      OBVIOUS
    <3>2. PICK i \in 1..n : t = s[i]
      BY <1>5
    <3> QED  BY <2>1, <3>1, <3>2
  <2>3. ASSUME NEW i \in 1..n PROVE f[i] \in S
    BY <1>5, <2>1
  <2> QED  BY <2>2, <2>3
<1>8. Cardinality(S) = n
  <2>1. f = [i \in 1..n |-> f[i]] /\ \A i, j \in 1..n : f[i] = f[j] => i = j
    BY <1>6
  <2> HIDE DEF f, S
  <2>2. Cardinality({f[i] : i \in 1..n}) = n
    BY <2>1, CountedOnce
  <2> QED  BY <1>7, <2>2
<1>9. ES!Cardinality(S) = Cardinality(S)
  BY DEF ES!Cardinality, Cardinality
<1> QED  BY <1>4, <1>5, <1>8, <1>9

-----------------------------------------------------------------------------
(* Collaboration: rows come and go, and each is signed under its name.     *)

PcContent == {"policy", "calls", "milestones", "berths", "shore", "fuel", "fees", "claims", "sharing", "approvals"}
PcFields == {"at", "attestations"} \cup PcContent

(* What a row was signed over is what its domain vouched for.              *)
PcHeld(a, content) ==
    a.over # Unsigned =>
        /\ content # Unsigned
        /\ a.over[1] \in PC!Domains /\ a.over[2] = PC!Payload(content, a.over[1])

PcSources(as, content) ==
    \E n \in Nat :
        /\ Listed(as, n)
        /\ \A i \in 1..n : {"domain", "key", "over"} \subseteq DOMAIN as[i] /\ PcHeld(as[i], content)

(* Scores are per cent.                                                    *)
PcScore(b) == "score" \in DOMAIN b /\ b.score \in 0..100
PcScored(s) == \E n \in Nat : Listed(s, n) /\ \A i \in 1..n : PcScore(s[i])

PcInvariant ==
    /\ DOMAIN request = PcFields /\ Dated(request) /\ PcScored(request.berths)
    /\ PcSources(request.attestations, vouched) /\ request.attestations # <<>>
    /\ vouched # Unsigned =>
        /\ vouched = [f \in PcFields |-> vouched[f]]
        /\ vouched.at = 0 /\ vouched.attestations = <<>>
    /\ edits \in 0..MaxEdits
    /\ report = PC!DefaultReport \/ report = PC!Report(request)

LEMMA PcDomains ==
    /\ PC!Domains = {"vessel_operator_plan", "port_call_platform", "terminal_berth_operations",
                     "shore_power_operator", "alternative_fuel_facility", "port_tariff_authority",
                     "corridor_governance_ledger"}
    /\ DOMAIN PC!DomainSeq = 1..7
<1>1. DOMAIN PC!DomainSeq = 1..7
  BY DEF PC!DomainSeq
<1>2. PC!Domains = {PC!DomainSeq[i] : i \in 1..7}
  BY <1>1 DEF PC!Domains, PC!Range
<1>3. {PC!DomainSeq[i] : i \in 1..7}
      = {PC!DomainSeq[1], PC!DomainSeq[2], PC!DomainSeq[3], PC!DomainSeq[4], PC!DomainSeq[5],
         PC!DomainSeq[6], PC!DomainSeq[7]}
  OBVIOUS
<1>4. /\ PC!DomainSeq[1] = "vessel_operator_plan"
      /\ PC!DomainSeq[2] = "port_call_platform"
      /\ PC!DomainSeq[3] = "terminal_berth_operations"
      /\ PC!DomainSeq[4] = "shore_power_operator"
      /\ PC!DomainSeq[5] = "alternative_fuel_facility"
      /\ PC!DomainSeq[6] = "port_tariff_authority"
      /\ PC!DomainSeq[7] = "corridor_governance_ledger"
  BY DEF PC!DomainSeq
<1> QED  BY <1>1, <1>2, <1>3, <1>4

LEMMA PcPayloads ==
    ASSUME NEW r
    PROVE  /\ PC!Payload(r, "vessel_operator_plan") = r.calls
           /\ PC!Payload(r, "port_call_platform") = r.milestones
           /\ PC!Payload(r, "terminal_berth_operations") = r.berths
           /\ PC!Payload(r, "shore_power_operator") = r.shore
           /\ PC!Payload(r, "alternative_fuel_facility") = r.fuel
           /\ PC!Payload(r, "port_tariff_authority") = r.fees
           /\ PC!Payload(r, "corridor_governance_ledger") = <<r.policy, r.claims, r.sharing, r.approvals>>
BY DEF PC!Payload

(* Packages with the same content have the same payloads, and the other    *)
(* way round.                                                              *)
LEMMA PcSamePayloads ==
    ASSUME NEW r, NEW s
    PROVE  (\A d \in PC!Domains : PC!Payload(r, d) = PC!Payload(s, d)) <=> (\A f \in PcContent : r[f] = s[f])
<1>1. (\A d \in PC!Domains : PC!Payload(r, d) = PC!Payload(s, d)) <=>
        /\ r.calls = s.calls /\ r.milestones = s.milestones /\ r.berths = s.berths /\ r.shore = s.shore
        /\ r.fuel = s.fuel /\ r.fees = s.fees
        /\ <<r.policy, r.claims, r.sharing, r.approvals>> = <<s.policy, s.claims, s.sharing, s.approvals>>
  BY PcDomains, PcPayloads
<1>2. <<r.policy, r.claims, r.sharing, r.approvals>> = <<s.policy, s.claims, s.sharing, s.approvals>>
      <=> r.policy = s.policy /\ r.claims = s.claims /\ r.sharing = s.sharing /\ r.approvals = s.approvals
  OBVIOUS
<1> QED  BY <1>1, <1>2 DEF PcContent

LEMMA PcEdits ==
    ASSUME NEW r, "attestations" \in DOMAIN r, NEW e \in PC!Edited(r)
    PROVE  /\ DOMAIN e = DOMAIN r
           /\ \/ e.attestations = r.attestations
              \/ e.attestations = [r.attestations EXCEPT ![1] = [r.attestations[1] EXCEPT !.live = FALSE]]
              \/ e.attestations = [r.attestations EXCEPT ![1] = [r.attestations[1] EXCEPT !.observed = 45]]
              \/ e.attestations = Tail(r.attestations)
              \/ e.attestations = Append(r.attestations, r.attestations[1])
<1>1. CASE e \in PC!EditedShip(r)
  <2>1. DOMAIN e = DOMAIN r
    BY <1>1, ZenonT(60) DEF PC!EditedShip
  <2>2. e.attestations = r.attestations
    BY <1>1, ZenonT(60) DEF PC!EditedShip
  <2> QED  BY <2>1, <2>2
<1>2. CASE e \in PC!EditedPort(r)
  <2>1. DOMAIN e = DOMAIN r
    BY <1>2, ZenonT(60) DEF PC!EditedPort
  <2>2. e.attestations = r.attestations
    BY <1>2, ZenonT(60) DEF PC!EditedPort
  <2> QED  BY <2>1, <2>2
<1>3. CASE e \in PC!EditedLedger(r)
  <2>1. DOMAIN e = DOMAIN r
    BY <1>3, ZenonT(60) DEF PC!EditedLedger
  <2>2. e.attestations = r.attestations
    BY <1>3, ZenonT(60) DEF PC!EditedLedger
  <2> QED  BY <2>1, <2>2
<1>4. CASE e \in PC!EditedSources(r)
  <2>1. \/ e = [r EXCEPT !.attestations[1].live = FALSE]
        \/ e = [r EXCEPT !.attestations[1].observed = 45]
        \/ e = [r EXCEPT !.attestations = Tail(r.attestations)]
        \/ e = [r EXCEPT !.attestations = Append(r.attestations, r.attestations[1])]
    BY <1>4, Zenon DEF PC!EditedSources
  <2> QED  BY <2>1
<1> QED  BY <1>1, <1>2, <1>3, <1>4 DEF PC!Edited

(* A list of signed rows stays one when a row changes what nobody signed,  *)
(* the first goes or comes a second time.                                  *)
LEMMA PcRowEdited ==
    ASSUME NEW as, NEW content, PcSources(as, content), as # <<>>,
           NEW row, {"domain", "key", "over"} \subseteq DOMAIN row, PcHeld(row, content)
    PROVE  PcSources([as EXCEPT ![1] = row], content)
<1>1. PICK n \in Nat :
          /\ Listed(as, n)
          /\ \A i \in 1..n : {"domain", "key", "over"} \subseteq DOMAIN as[i] /\ PcHeld(as[i], content)
  BY DEF PcSources
<1> DEFINE bs == [as EXCEPT ![1] = row]
<1>2. bs = [i \in 1..n |-> IF i = 1 THEN row ELSE as[i]]
  BY <1>1 DEF Listed
<1> HIDE DEF bs
<1>3. Listed(bs, n)
  BY <1>2 DEF Listed
<1>4. \A i \in 1..n : {"domain", "key", "over"} \subseteq DOMAIN bs[i] /\ PcHeld(bs[i], content)
  BY <1>1, <1>2
<1> QED  BY <1>3, <1>4 DEF PcSources, bs

LEMMA PcRowGone ==
    ASSUME NEW as, NEW content, PcSources(as, content), as # <<>>
    PROVE  PcSources(Tail(as), content)
<1>1. PICK n \in Nat :
          /\ Listed(as, n)
          /\ \A i \in 1..n : {"domain", "key", "over"} \subseteq DOMAIN as[i] /\ PcHeld(as[i], content)
  BY DEF PcSources
<1> DEFINE S == {as[i] : i \in 1..n}
<1>2. as \in Seq(S) /\ Len(as) = n
  BY <1>1, ListedSeq
<1>3. n > 0
  BY <1>1, ListedSeq
<1> HIDE DEF S
<1>4. /\ Tail(as) \in Seq(S) /\ Len(Tail(as)) = n - 1
      /\ \A i \in 1..(n - 1) : Tail(as)[i] = as[i + 1]
  BY <1>2, HeadTailProperties
<1> DEFINE bs == Tail(as)
<1> HIDE DEF bs
<1>5. Listed(bs, n - 1)
  BY <1>4, LenProperties DEF Listed, bs
<1>6. \A i \in 1..(n - 1) : bs[i] = as[i + 1] /\ i + 1 \in 1..n
  <2>1. \A i \in 1..(n - 1) : bs[i] = as[i + 1]
    BY <1>4 DEF bs
  <2>2. \A i \in 1..(n - 1) : i + 1 \in 1..n
    BY <1>1, <1>3
  <2> QED  BY <2>1, <2>2
<1>7. \A i \in 1..(n - 1) : {"domain", "key", "over"} \subseteq DOMAIN bs[i] /\ PcHeld(bs[i], content)
  BY <1>1, <1>6
<1>8. n - 1 \in Nat
  BY <1>3
<1> QED  BY <1>5, <1>7, <1>8 DEF PcSources, bs

LEMMA PcRowAgain ==
    ASSUME NEW as, NEW content, PcSources(as, content), as # <<>>
    PROVE  PcSources(Append(as, as[1]), content)
<1>1. PICK n \in Nat :
          /\ Listed(as, n)
          /\ \A i \in 1..n : {"domain", "key", "over"} \subseteq DOMAIN as[i] /\ PcHeld(as[i], content)
  BY DEF PcSources
<1> DEFINE S == {as[i] : i \in 1..n}
<1>2. as \in Seq(S) /\ Len(as) = n
  BY <1>1, ListedSeq
<1>3. n > 0 /\ 1 \in 1..n
  BY <1>1, ListedSeq
<1>4. as[1] \in S
  BY <1>3
<1> HIDE DEF S
<1> DEFINE row == as[1]
           bs == Append(as, row)
<1> HIDE DEF row
<1>5. row \in S
  BY <1>4 DEF row
<1>6. /\ bs \in Seq(S) /\ Len(bs) = Len(as) + 1
      /\ \A i \in 1..Len(as) : bs[i] = as[i]
      /\ bs[Len(as) + 1] = row
  <2>1. as \in Seq(S)
    BY <1>2
  <2>2. bs \in Seq(S) /\ Len(bs) = Len(as) + 1
    BY <2>1, <1>5, AppendProperties, Zenon
  <2>3. \A i \in 1..Len(as) : bs[i] = as[i]
    BY <2>1, <1>5, AppendProperties, SMT
  <2>4. bs[Len(as) + 1] = row
    BY <2>1, <1>5, AppendProperties, Zenon
  <2> QED  BY <2>2, <2>3, <2>4, Zenon
<1> HIDE DEF bs
<1>7. Listed(bs, n + 1)
  BY <1>2, <1>6, LenProperties DEF Listed
<1>8. \A i \in 1..(n + 1) : \E j \in 1..n : bs[i] = as[j]
  <2>1. \A i \in 1..n : bs[i] = as[i]
    BY <1>2, <1>6
  <2>2. bs[n + 1] = as[1]
    BY <1>2, <1>6 DEF row
  <2>3. \A i \in 1..(n + 1) : i \in 1..n \/ i = n + 1
    OBVIOUS
  <2> QED  BY <1>3, <2>1, <2>2, <2>3
<1>9. \A i \in 1..(n + 1) : {"domain", "key", "over"} \subseteq DOMAIN bs[i] /\ PcHeld(bs[i], content)
  BY <1>1, <1>8
<1>10. n + 1 \in Nat
  OBVIOUS
<1> QED  BY <1>7, <1>9, <1>10 DEF PcSources, bs, row

(* The dates and terms stay dates and terms.                               *)
LEMMA PcEditDated ==
    ASSUME NEW r, Dated(r), NEW e \in PC!Edited(r), DOMAIN e = DOMAIN r
    PROVE  Dated(e)
<1>a. "at" \in DOMAIN r
  BY DEF Dated
<1>p. "policy" \in DOMAIN r
  BY DEF Dated
<1>0. r.at \in Int /\ Terms(r.policy)
  BY DEF Dated, Terms
<1>1. CASE e \in PC!EditedShip(r)
  <2>1. e.at = r.at
    BY <1>a, <1>1, ZenonT(60) DEF PC!EditedShip
  <2>2. e.policy = r.policy
    BY <1>p, <1>1, ZenonT(60) DEF PC!EditedShip
  <2> QED  BY <1>0, <2>1, <2>2 DEF Dated, Terms
<1>2. CASE e \in PC!EditedLedger(r)
  <2>1. e.at = r.at
    BY <1>a, <1>2, ZenonT(60) DEF PC!EditedLedger
  <2>2. e.policy = r.policy
    BY <1>p, <1>2, ZenonT(60) DEF PC!EditedLedger
  <2> QED  BY <1>0, <2>1, <2>2 DEF Dated, Terms
<1>3. CASE e \in PC!EditedSources(r)
  <2>1. e.at = r.at
    BY <1>a, <1>3, ZenonT(60) DEF PC!EditedSources
  <2>2. e.policy = r.policy
    BY <1>p, <1>3, ZenonT(60) DEF PC!EditedSources
  <2> QED  BY <1>0, <2>1, <2>2 DEF Dated, Terms
<1>4. CASE e \in PC!EditedPort(r)
  <2> DEFINE Kept(x) == Terms(x.policy) /\ x.at \in Int
             e1 == [r EXCEPT !.berths[1].rank = 2]
             e2 == [r EXCEPT !.berths[2].rank = 2]
             e3 == [r EXCEPT !.berths[1].score = 70]
             e4 == [r EXCEPT !.shore[1].end = 24]
             e5 == [r EXCEPT !.shore[1].energy = 90, !.shore[1].amount = 185]
             e6 == [r EXCEPT !.shore[1].reserved = 13]
             e7 == [r EXCEPT !.shore[1] = [@ EXCEPT !.reserved = 20, !.energy = 160, !.amount = 325]]
             e8 == [r EXCEPT !.shore[1].amount = 160]
             e9 == [r EXCEPT !.shore[1].start = 11]
             e10 == [r EXCEPT !.fees[1].payable = 90]
             e11 == [r EXCEPT !.fees[1].discount = 5]
             e12 == [r EXCEPT !.policy.maxDiscount = 6]
             e13 == [r EXCEPT !.policy.alignment = 0]
             e14 == [r EXCEPT !.at = 54]
  <2>1. Kept(e1)
    BY <1>0, <1>a, <1>p
  <2>2. Kept(e2)
    BY <1>0, <1>a, <1>p
  <2>3. Kept(e3)
    BY <1>0, <1>a, <1>p
  <2>4. Kept(e4)
    BY <1>0, <1>a, <1>p
  <2>5. Kept(e5)
    BY <1>0, <1>a, <1>p
  <2>6. Kept(e6)
    BY <1>0, <1>a, <1>p
  <2>7. Kept(e7)
    BY <1>0, <1>a, <1>p
  <2>8. Kept(e8)
    BY <1>0, <1>a, <1>p
  <2>9. Kept(e9)
    BY <1>0, <1>a, <1>p
  <2>10. Kept(e10)
    BY <1>0, <1>a, <1>p
  <2>11. Kept(e11)
    BY <1>0, <1>a, <1>p
  <2>12. Kept(e12)
    BY <1>0, <1>a, <1>p DEF Terms
  <2>13. Kept(e13)
    BY <1>0, <1>a, <1>p DEF Terms
  <2>14. Kept(e14)
    BY <1>0, <1>a, <1>p
  <2>15. e \in {e1, e2, e3, e4, e5, e6, e7, e8, e9, e10, e11, e12, e13, e14}
    BY <1>4 DEF PC!EditedPort
  <2> HIDE DEF Kept, e1, e2, e3, e4, e5, e6, e7, e8, e9, e10, e11, e12, e13, e14
  <2>16. Kept(e)
    BY <2>1, <2>2, <2>3, <2>4, <2>5, <2>6, <2>7, <2>8, <2>9, <2>10, <2>11, <2>12, <2>13, <2>14, <2>15
  <2> QED  BY <2>16 DEF Kept, Dated, Terms
<1> QED  BY <1>1, <1>2, <1>3, <1>4 DEF PC!Edited

LEMMA PcPlaced ==
    ASSUME NEW s, PcScored(s), NEW i, NEW row, i \in DOMAIN s => PcScore(row)
    PROVE  PcScored([s EXCEPT ![i] = row])
<1>1. PICK n \in Nat : Listed(s, n) /\ \A j \in 1..n : PcScore(s[j])
  BY DEF PcScored
<1> DEFINE t == [s EXCEPT ![i] = row]
<1>2. DOMAIN s = 1..n
  BY <1>1 DEF Listed
<1>3. DOMAIN t = 1..n /\ t = [j \in 1..n |-> t[j]] /\ \A j \in 1..n : t[j] = IF j = i THEN row ELSE s[j]
  BY <1>2
<1> HIDE DEF t
<1>4. Listed(t, n) /\ \A j \in 1..n : PcScore(t[j])
  BY <1>1, <1>2, <1>3 DEF Listed
<1>5. PcScored(t)
  BY <1>4 DEF PcScored
<1> QED  BY <1>5 DEF t

(* The edits keep the scores per cent.                                     *)
LEMMA PcEditScores ==
    ASSUME NEW r, "berths" \in DOMAIN r, PcScored(r.berths), NEW e \in PC!Edited(r)
    PROVE  PcScored(e.berths)
<1> DEFINE s == r.berths
<1>0. \A i \in DOMAIN s : PcScore(s[i])
  BY DEF PcScored, Listed
<1>1. CASE e \in PC!EditedShip(r)
  <2>1. \/ e.berths = s
        \/ e.berths = [[s EXCEPT ![2].jit = FALSE] EXCEPT ![2].score = 70]
    BY <1>1, ZenonT(60) DEF PC!EditedShip
  <2> DEFINE t == [s EXCEPT ![2].jit = FALSE]
  <2>2. t = [s EXCEPT ![2] = [s[2] EXCEPT !.jit = FALSE]]
    OBVIOUS
  <2>3. 2 \in DOMAIN s => PcScore([s[2] EXCEPT !.jit = FALSE])
    BY <1>0 DEF PcScore
  <2> HIDE DEF s
  <2>4. PcScored(t)
    BY <2>2, <2>3, PcPlaced DEF s
  <2> HIDE DEF t
  <2>5. 2 \in DOMAIN t => PcScore(t[2])
    BY <2>4 DEF PcScored, Listed
  <2>6. 2 \in DOMAIN t => PcScore([t[2] EXCEPT !.score = 70])
    BY <2>5 DEF PcScore
  <2>7. PcScored([t EXCEPT ![2] = [t[2] EXCEPT !.score = 70]])
    BY <2>4, <2>6, PcPlaced
  <2> QED  BY <2>1, <2>7 DEF s, t
<1>2. CASE e \in PC!EditedPort(r)
  <2>1. \/ e.berths = s
        \/ e.berths = [s EXCEPT ![1] = [s[1] EXCEPT !.rank = 2]]
        \/ e.berths = [s EXCEPT ![2] = [s[2] EXCEPT !.rank = 2]]
        \/ e.berths = [s EXCEPT ![1] = [s[1] EXCEPT !.score = 70]]
    BY <1>2, ZenonT(60) DEF PC!EditedPort
  <2>2. \A i \in DOMAIN s : PcScore([s[i] EXCEPT !.rank = 2]) /\ PcScore([s[i] EXCEPT !.score = 70])
    BY <1>0 DEF PcScore
  <2> HIDE DEF s
  <2>3. /\ PcScored([s EXCEPT ![1] = [s[1] EXCEPT !.rank = 2]])
        /\ PcScored([s EXCEPT ![2] = [s[2] EXCEPT !.rank = 2]])
        /\ PcScored([s EXCEPT ![1] = [s[1] EXCEPT !.score = 70]])
    BY <2>2, PcPlaced DEF s
  <2> QED  BY <2>1, <2>3 DEF s
<1>3. CASE e \in PC!EditedLedger(r)
  <2>1. e.berths = r.berths
    BY <1>3, ZenonT(60) DEF PC!EditedLedger
  <2> QED  BY <2>1
<1>4. CASE e \in PC!EditedSources(r)
  <2>1. e.berths = r.berths
    BY <1>4, ZenonT(60) DEF PC!EditedSources
  <2> QED  BY <2>1
<1> QED  BY <1>1, <1>2, <1>3, <1>4 DEF PC!Edited

LEMMA PcInitially ==
    ASSUME MaxEdits \in Nat, PC!Init PROVE PcInvariant
<1>1. /\ DOMAIN request = PcFields
      /\ request.attestations = [i \in 1..7 |-> PC!Attestation(PC!DomainSeq[i])]
  BY PcDomains DEF PC!Init, PC!Package, PcFields, PcContent
<1>2. \A d : {"domain", "key", "over"} \subseteq DOMAIN PC!Attestation(d) /\ PC!Attestation(d).over = Unsigned
  BY DEF PC!Attestation, PC!None, Unsigned
<1>3. /\ Listed(request.attestations, 7)
      /\ \A i \in 1..7 : /\ {"domain", "key", "over"} \subseteq DOMAIN request.attestations[i]
                         /\ PcHeld(request.attestations[i], vouched)
  BY <1>1, <1>2 DEF Listed, PcHeld
<1>4. PcSources(request.attestations, vouched) /\ request.attestations # <<>>
  <2>1. 7 \in Nat /\ 7 > 0
    OBVIOUS
  <2>2. request.attestations # <<>>
    BY <1>3, <2>1, ListedSeq
  <2> QED  BY <1>3, <2>1, <2>2 DEF PcSources
<1>5. vouched = Unsigned /\ edits = 0 /\ report = PC!DefaultReport
  BY DEF PC!Init, PC!None, Unsigned
<1>6. Dated(request)
  BY DEF PC!Init, PC!Package, PC!Policy, Dated
<1>7. PcScored(request.berths)
  <2>1. Listed(request.berths, 2) /\ \A i \in 1..2 : request.berths[i].score = 100 /\ "score" \in DOMAIN request.berths[i]
    BY DEF PC!Init, PC!Package, PC!Assignment, Listed
  <2> QED  BY <2>1 DEF PcScored, PcScore
<1> QED  BY <1>1, <1>4, <1>5, <1>6, <1>7 DEF PcInvariant

LEMMA PcNext ==
    ASSUME MaxEdits \in Nat, PcInvariant, PC!Next \/ UNCHANGED <<request, report, edits, vouched>>
    PROVE  PcInvariant'
<1>1. CASE PC!Edit
  <2>0. PICK r \in PC!Edited(request) : request' = r /\ r.attestations # <<>>
    BY <1>1 DEF PC!Edit
  <2>1. request' = r /\ r.attestations # <<>>
    BY <2>0
  <2>2. /\ edits' \in 0..MaxEdits /\ report' = PC!DefaultReport /\ vouched' = vouched
    BY <1>1 DEF PC!Edit, PcInvariant
  <2> DEFINE as == request.attestations
  <2>3. DOMAIN request = PcFields /\ PcSources(as, vouched) /\ as # <<>>
    BY DEF PcInvariant
  <2>4. /\ DOMAIN r = PcFields
        /\ \/ r.attestations = as
           \/ r.attestations = [as EXCEPT ![1] = [as[1] EXCEPT !.live = FALSE]]
           \/ r.attestations = [as EXCEPT ![1] = [as[1] EXCEPT !.observed = 45]]
           \/ r.attestations = Tail(as)
           \/ r.attestations = Append(as, as[1])
    BY <2>0, <2>3, PcEdits DEF PcFields
  <2> HIDE DEF as
  <2>5. {"domain", "key", "over"} \subseteq DOMAIN as[1] /\ PcHeld(as[1], vouched)
    <3>1. PICK n \in Nat :
              /\ Listed(as, n)
              /\ \A i \in 1..n : {"domain", "key", "over"} \subseteq DOMAIN as[i] /\ PcHeld(as[i], vouched)
      BY <2>3 DEF PcSources
    <3>2. 1 \in 1..n
      BY <2>3, <3>1, ListedSeq
    <3> QED  BY <3>1, <3>2
  <2>6. ASSUME r.attestations = [as EXCEPT ![1] = [as[1] EXCEPT !.live = FALSE]]
       PROVE  PcSources(r.attestations, vouched)
    <3> DEFINE row == [as[1] EXCEPT !.live = FALSE]
    <3>1. DOMAIN row = DOMAIN as[1] /\ row.over = as[1].over
      BY <2>5, <2>6
    <3> HIDE DEF row
    <3>2. {"domain", "key", "over"} \subseteq DOMAIN row /\ PcHeld(row, vouched)
      BY <2>5, <2>6, <3>1 DEF PcHeld
    <3>3. PcSources([as EXCEPT ![1] = row], vouched)
      BY <2>3, <2>6, <3>2, PcRowEdited
    <3>4. r.attestations = [as EXCEPT ![1] = row]
      BY <2>6 DEF row
    <3> QED  BY <3>3, <3>4
  <2>7. ASSUME r.attestations = [as EXCEPT ![1] = [as[1] EXCEPT !.observed = 45]]
       PROVE  PcSources(r.attestations, vouched)
    <3> DEFINE row == [as[1] EXCEPT !.observed = 45]
    <3>1. DOMAIN row = DOMAIN as[1] /\ row.over = as[1].over
      BY <2>5, <2>7
    <3> HIDE DEF row
    <3>2. {"domain", "key", "over"} \subseteq DOMAIN row /\ PcHeld(row, vouched)
      BY <2>5, <2>7, <3>1 DEF PcHeld
    <3>3. PcSources([as EXCEPT ![1] = row], vouched)
      BY <2>3, <2>7, <3>2, PcRowEdited
    <3>4. r.attestations = [as EXCEPT ![1] = row]
      BY <2>7 DEF row
    <3> QED  BY <3>3, <3>4
  <2>8. PcSources(r.attestations, vouched)
    BY <2>3, <2>4, <2>6, <2>7, PcRowGone, PcRowAgain
  <2>9. Dated(r)
    BY <2>0, <2>3, <2>4, PcEditDated DEF PcInvariant
  <2>10. PcScored(r.berths)
    BY <2>0, PcEditScores DEF PcInvariant, PcFields, PcContent
  <2> QED  BY <2>1, <2>2, <2>4, <2>8, <2>9, <2>10 DEF PcInvariant
<1>2. CASE PC!Sign
  <2>1. PICK odd : request' = PC!Signed(request, odd)
    BY <1>2 DEF PC!Sign
  <2>2. /\ vouched' = PC!Content(request) /\ report' = PC!DefaultReport /\ edits' = edits
        /\ {a.domain : a \in PC!Range(request.attestations)} = PC!Domains
    BY <1>2 DEF PC!Sign, PC!Covered
  <2> DEFINE as == request.attestations
             s == PC!Signed(request, odd)
             bs == s.attestations
             content == PC!Content(request)
  <2>3. PICK n \in Nat :
            /\ Listed(as, n)
            /\ \A i \in 1..n : {"domain", "key", "over"} \subseteq DOMAIN as[i]
    BY DEF PcInvariant, PcSources
  <2>4. DOMAIN as = 1..n
    BY <2>3 DEF Listed
  <2>5. /\ DOMAIN s = PcFields
        /\ bs = [i \in 1..n |-> [as[i] EXCEPT !.key = IF as[i].domain = odd THEN "k2" ELSE "k1",
                                              !.over = <<as[i].domain, PC!Payload(request, as[i].domain)>>]]
    BY <2>4 DEF PC!Signed, PcInvariant, PcFields
  <2>16. Dated(s)
    <3>1. \A f \in DOMAIN request \ {"attestations"} : s[f] = request[f]
      BY DEF PC!Signed
    <3>2. DOMAIN s = DOMAIN request /\ s.at = request.at /\ s.policy = request.policy
      BY <2>5, <3>1 DEF PcInvariant, Dated
    <3> QED  BY <3>2 DEF PcInvariant, Dated
  <2>17. s.berths = request.berths
    <3>1. \A f \in DOMAIN request \ {"attestations"} : s[f] = request[f]
      BY DEF PC!Signed
    <3> QED  BY <3>1 DEF PcInvariant, PcFields, PcContent
  <2>6. /\ content = [f \in PcFields |-> content[f]] /\ content.at = 0 /\ content.attestations = <<>>
        /\ \A f \in PcContent : content[f] = request[f]
    BY DEF PC!Content, PcInvariant, PcFields, PcContent
  <2>7. content # Unsigned
    <3>1. DOMAIN content = PcFields /\ DOMAIN Unsigned = {"none"} /\ "at" \in PcFields
      BY <2>6 DEF PcFields, Unsigned
    <3> QED  BY <3>1
  <2> HIDE DEF content
  <2>8. \A d \in PC!Domains : PC!Payload(request, d) = PC!Payload(content, d)
    BY <2>6, PcSamePayloads
  <2>9. \A i \in 1..n : as[i].domain \in PC!Domains
    BY <2>2, <2>4 DEF PC!Range
  <2> HIDE DEF s, bs, as
  <2>10. Listed(bs, n) /\ bs # <<>>
    <3>1. Listed(bs, n)
      BY <2>5 DEF Listed
    <3>2. as # <<>>
      BY DEF PcInvariant, as
    <3>3. n > 0
      BY <2>3, <3>2, ListedSeq
    <3> QED  BY <2>3, <3>1, <3>3, ListedSeq
  <2>11. \A i \in 1..n : /\ {"domain", "key", "over"} \subseteq DOMAIN bs[i]
                         /\ bs[i].over = <<as[i].domain, PC!Payload(request, as[i].domain)>>
    BY <2>3, <2>5
  <2>12. ASSUME NEW i \in 1..n PROVE PcHeld(bs[i], content)
    <3>1. bs[i].over[1] = as[i].domain /\ bs[i].over[2] = PC!Payload(request, as[i].domain)
      <4>1. bs[i].over = <<as[i].domain, PC!Payload(request, as[i].domain)>>
        BY <2>11
      <4> QED  BY <4>1
    <3>2. as[i].domain \in PC!Domains
      BY <2>9
    <3> QED  BY <2>7, <2>8, <3>1, <3>2 DEF PcHeld
  <2>13. PcSources(bs, content)
    BY <2>10, <2>11, <2>12 DEF PcSources
  <2>14. request' = s /\ request'.attestations = bs /\ vouched' = content
    BY <2>1, <2>2 DEF s, bs, content
  <2>15. edits \in 0..MaxEdits
    BY DEF PcInvariant
  <2> QED  BY <2>2, <2>5, <2>6, <2>10, <2>13, <2>14, <2>15, <2>16, <2>17 DEF PcInvariant
<1>3. CASE PC!Evaluate
  BY <1>3 DEF PC!Evaluate, PcInvariant
<1>4. CASE UNCHANGED <<request, report, edits, vouched>>
  BY <1>4 DEF PcInvariant
<1> QED  BY <1>1, <1>2, <1>3, <1>4 DEF PC!Next

LEMMA PcAsSigned ==
    ASSUME PcInvariant, PC!SourcesSigned(request)
    PROVE  vouched = PC!Content(request)
<1>1. \A d \in PC!Domains : \E a \in PC!Range(request.attestations) : a.over = <<d, PC!Payload(request, d)>>
  BY DEF PC!SourcesSigned, PC!Covered, PC!SignatureHolds
<1>2. \A a \in PC!Range(request.attestations) : PcHeld(a, vouched)
  BY DEF PcInvariant, PcSources, PC!Range, Listed
<1>3. ASSUME NEW d \in PC!Domains PROVE vouched # Unsigned /\ PC!Payload(vouched, d) = PC!Payload(request, d)
  <2>1. PICK a \in PC!Range(request.attestations) : a.over = <<d, PC!Payload(request, d)>>
    BY <1>1
  <2>2. a.over # Unsigned /\ a.over[1] = d /\ a.over[2] = PC!Payload(request, d)
    BY <2>1, SignedNotUnsigned
  <2> QED  BY <1>2, <2>2 DEF PcHeld
<1>4. vouched # Unsigned
  BY <1>3, PcDomains
<1>5. \A f \in PcContent : vouched[f] = request[f]
  BY <1>3, PcSamePayloads
<1> DEFINE content == PC!Content(request)
<1>6. /\ content = [f \in PcFields |-> content[f]] /\ content.at = 0 /\ content.attestations = <<>>
      /\ \A f \in PcContent : content[f] = request[f]
  BY DEF PC!Content, PcInvariant, PcFields, PcContent
<1> HIDE DEF content
<1>7. vouched = [f \in PcFields |-> vouched[f]] /\ vouched.at = 0 /\ vouched.attestations = <<>>
  BY <1>4 DEF PcInvariant
<1>8. \A f \in PcFields : vouched[f] = content[f]
  BY <1>5, <1>6, <1>7 DEF PcFields
<1>9. [f \in PcFields |-> vouched[f]] = [f \in PcFields |-> content[f]]
  BY <1>8
<1> QED  BY <1>6, <1>7, <1>9 DEF content

LEMMA PcSound ==
    ASSUME PcInvariant
    PROVE  PC!TypeOK /\ PC!CollaborationAsSigned
<1>1. CASE report = PC!DefaultReport
  BY <1>1 DEF PC!DefaultReport, PC!TypeOK, PC!CollaborationAsSigned, PcInvariant
<1>2. CASE report = PC!Report(request)
  <2> DEFINE gates == PC!Gates(request)
             blockers == {g \in DOMAIN gates : ~gates[g]}
             paid == [energy |-> PC!SumOf(request.shore, LAMBDA s : s.energy),
                      benefit |-> PC!SumOf(request.sharing, LAMBDA s : s.total),
                      port |-> PC!SumOf(request.sharing, LAMBDA s : s.port),
                      operator |-> PC!SumOf(request.sharing, LAMBDA s : s.operator)]
  <2>1. /\ report.status = IF blockers = {} THEN "evidence_package_passed"
                           ELSE IF PC!Pending(blockers) THEN "reconciled_pending_source_attestation" ELSE "blocked"
        /\ report.verified = IF blockers # {} THEN PC!None ELSE paid
    BY <1>2 DEF PC!Report
  <2>2. paid # PC!None
    <3>1. "energy" \in DOMAIN paid /\ "energy" \notin DOMAIN PC!None
      BY DEF PC!None
    <3> QED  BY <3>1
  <2>3. "source_signatures" \in DOMAIN gates /\ gates["source_signatures"] = PC!SourcesSigned(request)
    BY DEF PC!Gates
  <2> HIDE DEF gates, paid
  <2>4. blockers = {} => PC!SourcesSigned(request)
    BY <2>3
  <2>5. report.status = "evidence_package_passed" <=> blockers = {}
    BY <2>1
  <2> HIDE DEF blockers
  <2>6. PC!TypeOK
    BY <2>1, <2>2, <2>5 DEF PC!TypeOK, PcInvariant
  <2>7. PC!CollaborationAsSigned
    BY <2>4, <2>5, PcAsSigned DEF PC!CollaborationAsSigned
  <2> QED  BY <2>6, <2>7
<1> QED  BY <1>1, <1>2 DEF PcInvariant

(* As many rows as names.                                                  *)
LEMMA NamesApart ==
    ASSUME NEW names, NEW n \in Nat, \A i, j \in 1..n : names[i] = names[j] => i = j
    PROVE  Cardinality({names[i] : i \in 1..n}) = n
<1> DEFINE T == {names[i] : i \in 1..n}
           f == [i \in 1..n |-> names[i]]
<1>1. f \in Bijection(1..n, T)
  BY DEF Bijection, Injection, Surjection, IsInjective
<1>2. ExistsBijection(1..n, T)
  BY <1>1 DEF ExistsBijection
<1>3. IsFiniteSet(1..n) /\ Cardinality(1..n) = n
  BY FS_Interval
<1> HIDE DEF T
<1>4. Cardinality(T) = n
  BY <1>2, <1>3, FS_Bijection
<1> QED  BY <1>4 DEF T

PcPay(r) == [d \in PC!Domains |-> PC!Payload(r, d)]

(* All that the collaboration is judged by is signed.                      *)
LEMMA PcUnmoved ==
    ASSUME NEW r, NEW b, b.at = r.at, \A f \in PcContent : b[f] = r[f]
    PROVE  \A g \in DOMAIN PC!Gates(r) \ PC!SourceGates : PC!Gates(b)[g] = PC!Gates(r)[g]
<1>1. /\ b.policy = r.policy /\ b.calls = r.calls /\ b.milestones = r.milestones /\ b.berths = r.berths
      /\ b.shore = r.shore /\ b.fuel = r.fuel /\ b.fees = r.fees /\ b.claims = r.claims
      /\ b.sharing = r.sharing /\ b.approvals = r.approvals
  BY DEF PcContent
<1>2. \A x : PC!Score(b, x) = PC!Score(r, x)
  BY <1>1 DEF PC!Score
<1>3. \A x : PC!Rank(b, x) = PC!Rank(r, x)
  BY <1>1, <1>2 DEF PC!Rank
<1>4. \A x : PC!Discount(b, x) = PC!Discount(r, x)
  BY <1>1 DEF PC!Discount
<1>5. \A x : PC!Claims(b, x) = PC!Claims(r, x)
  BY <1>1 DEF PC!Claims
<1>6. \A x : PC!Claimed(b, x) = PC!Claimed(r, x)
  BY <1>5 DEF PC!Claimed
<1>7. \A x : PC!Reduction(b, x) = PC!Reduction(r, x)
  BY <1>1 DEF PC!Reduction
<1>8. PC!Linked(b) = PC!Linked(r)
  BY <1>1 DEF PC!Linked
<1>9. PC!Gates(b).corridor_charter = PC!Gates(r).corridor_charter
  <2>1. PC!Chartered(b) = PC!Chartered(r)
    BY <1>1 DEF PC!Chartered
  <2> QED  BY <2>1 DEF PC!Gates
<1>10. PC!Gates(b).call_identity_and_linkage = PC!Gates(r).call_identity_and_linkage
  BY <1>8 DEF PC!Gates
<1>11. PC!Gates(b).jit_consent_and_notice = PC!Gates(r).jit_consent_and_notice
  <2>1. PC!ConsentGiven(b) = PC!ConsentGiven(r)
    BY <1>1 DEF PC!ConsentGiven
  <2> QED  BY <2>1 DEF PC!Gates
<1>12. PC!Gates(b).jit_arrival_and_fuel = PC!Gates(r).jit_arrival_and_fuel
  <2>1. PC!ArrivedInTime(b) = PC!ArrivedInTime(r)
    BY <1>1 DEF PC!ArrivedInTime
  <2> QED  BY <2>1 DEF PC!Gates
<1>13. PC!Gates(b).berth_milestones = PC!Gates(r).berth_milestones
  <2>1. PC!MilestonesHold(b) = PC!MilestonesHold(r)
    BY <1>1, <1>8 DEF PC!MilestonesHold
  <2> QED  BY <2>1 DEF PC!Gates
<1>14. PC!Gates(b).green_berth_priority = PC!Gates(r).green_berth_priority
  <2>1. PC!GreenBerths(b) = PC!GreenBerths(r)
    BY <1>1, <1>2, <1>3, <1>8 DEF PC!GreenBerths
  <2> QED  BY <2>1 DEF PC!Gates
<1>15. PC!Gates(b).shore_power_reservation = PC!Gates(r).shore_power_reservation
  <2>1. PC!ShoreReserved(b) = PC!ShoreReserved(r)
    BY <1>1, <1>8 DEF PC!ShoreReserved
  <2> QED  BY <2>1 DEF PC!Gates
<1>16. PC!Gates(b).shore_power_meter_billing = PC!Gates(r).shore_power_meter_billing
  <2>1. PC!ShoreBilled(b) = PC!ShoreBilled(r)
    BY <1>1, <1>8 DEF PC!ShoreBilled
  <2> QED  BY <2>1 DEF PC!Gates
<1>17. PC!Gates(b).alternative_fuel_readiness = PC!Gates(r).alternative_fuel_readiness
  <2>1. PC!FuelServed(b) = PC!FuelServed(r)
    BY <1>1, <1>8 DEF PC!FuelServed
  <2> QED  BY <2>1 DEF PC!Gates
<1>18. PC!Gates(b).port_fee_incentive = PC!Gates(r).port_fee_incentive
  <2>1. PC!FeesPaid(b) = PC!FeesPaid(r)
    BY <1>1, <1>4, <1>8 DEF PC!FeesPaid
  <2> QED  BY <2>1 DEF PC!Gates
<1>19. PC!Gates(b).benefit_sharing = PC!Gates(r).benefit_sharing
  <2>1. PC!BenefitsShared(b) = PC!BenefitsShared(r)
    <3> DEFINE Body(q, c) ==
              LET own == PC!Claims(q, c.call)
                  s == PC!FirstWith(q.sharing, LAMBDA x : x.call = c.call)
                  jit == PC!FirstWith(own, LAMBDA x : x.category = "jit_arrival")
                  v == q.policy.variance
                  value == PC!Claimed(q, c.call) * s.value
              IN  /\ s # PC!None /\ jit # PC!None
                  /\ {x.category : x \in PC!Range(own)} = {"jit_arrival", "shore_power", "alternative_fuel"}
                  /\ PC!Distinct(own, LAMBDA x : x.category)
                  /\ PC!Close(jit.tonnes, PC!Reduction(q, c), v) /\ PC!Close(s.tonnes, PC!Claimed(q, c.call), v)
                  /\ PC!Close(s.total, value, v)
                  /\ PC!Close(100 * s.port, value * q.policy.portShare, v)
                  /\ PC!Close(100 * s.operator, value * q.policy.operatorShare, v)
                  /\ PC!Close(s.total, s.port + s.operator, v) /\ s.status = "settled"
    <3>1. \A q : PC!BenefitsShared(q) <=>
            /\ PC!Distinct(q.claims, LAMBDA x : x.id)
            /\ \A x \in PC!Range(q.claims) : x.call \in PC!Ids(q.calls) /\ x.status = "independently_verified"
            /\ \A c \in PC!Range(q.calls) : Body(q, c)
      BY DEF PC!BenefitsShared
    <3>2. ASSUME NEW c PROVE Body(b, c) <=> Body(r, c)
      <4>1. /\ PC!Claims(b, c.call) = PC!Claims(r, c.call) /\ PC!Claimed(b, c.call) = PC!Claimed(r, c.call)
            /\ PC!Reduction(b, c) = PC!Reduction(r, c) /\ b.sharing = r.sharing /\ b.policy = r.policy
        BY <1>1, <1>5, <1>6, <1>7
      <4> QED  BY <4>1
    <3> HIDE DEF Body
    <3> QED  BY <1>1, <3>1, <3>2
  <2> QED  BY <2>1 DEF PC!Gates
<1>20. PC!Gates(b).dual_approval_audit = PC!Gates(r).dual_approval_audit
  <2>1. PC!DualApproval(b) = PC!DualApproval(r)
    BY <1>1 DEF PC!DualApproval
  <2> QED  BY <2>1 DEF PC!Gates
<1>21. DOMAIN PC!Gates(r) \ PC!SourceGates
      = {"corridor_charter", "call_identity_and_linkage", "jit_consent_and_notice",
         "jit_arrival_and_fuel", "berth_milestones", "green_berth_priority",
         "shore_power_reservation", "shore_power_meter_billing", "alternative_fuel_readiness",
         "port_fee_incentive", "benefit_sharing", "dual_approval_audit"}
  BY DEF PC!Gates, PC!SourceGates
<1> QED  BY <1>9, <1>10, <1>11, <1>12, <1>13, <1>14, <1>15, <1>16, <1>17, <1>18, <1>19, <1>20, <1>21

LEMMA PcPending ==
    ASSUME PcInvariant, "k1" \in Trusted
    PROVE  PC!PendingNeedsOnlySources
<1> DEFINE r == request
           rows == [i \in DOMAIN PC!DomainSeq |-> [PC!Attestation(PC!DomainSeq[i]) EXCEPT !.observed = r.at]]
           fresh == [r EXCEPT !.attestations = rows]
           b == PC!Signed(fresh, "none")
           bs == b.attestations
           others == \A g \in DOMAIN PC!Gates(r) \ PC!SourceGates : PC!Gates(r)[g]
<1> SUFFICES ASSUME others PROVE PC!Report(b).status = "evidence_package_passed"
  <2>1. ASSUME report = PC!DefaultReport PROVE report.status # "reconciled_pending_source_attestation"
    BY <2>1 DEF PC!DefaultReport
  <2>2. ASSUME report = PC!Report(r), report.status = "reconciled_pending_source_attestation"
        PROVE  others
    BY <2>2 DEF PC!Report, PC!Pending
  <2> QED  BY <2>1, <2>2, Zenon DEF PC!PendingNeedsOnlySources, PcInvariant
<1> HIDE DEF others
<1>1. /\ DOMAIN fresh = DOMAIN r /\ fresh.attestations = rows
      /\ fresh.at = r.at /\ \A f \in PcContent : fresh[f] = r[f]
  BY DEF PcInvariant, PcFields, PcContent
<1>2. /\ DOMAIN rows = 1..7
      /\ \A i \in 1..7 : /\ rows[i].domain = PC!DomainSeq[i] /\ rows[i].live /\ rows[i].observed = r.at
                          /\ {"domain", "key", "observed", "live", "over"} = DOMAIN rows[i]
  BY PcDomains DEF PC!Attestation
<1>3. \A i \in 1..7 : PC!DomainSeq[i] \in PC!Domains
  BY PcDomains DEF PC!Domains, PC!Range
<1>4. /\ b.at = r.at /\ \A f \in PcContent : b[f] = r[f]
      /\ bs = [i \in DOMAIN rows |-> [rows[i] EXCEPT !.key = "k1",
                                       !.over = <<rows[i].domain, PC!Payload(fresh, rows[i].domain)>>]]
  <2>1. b = [fresh EXCEPT !.attestations =
                [i \in DOMAIN rows |-> [rows[i] EXCEPT !.key = IF rows[i].domain = "none" THEN "k2" ELSE "k1",
                                             !.over = <<rows[i].domain, PC!Payload(fresh, rows[i].domain)>>]]]
    BY <1>1 DEF PC!Signed
  <2>2. PcFields = DOMAIN fresh /\ "attestations" \in PcFields
    BY <1>1 DEF PcInvariant, PcFields
  <2>3. \A i \in DOMAIN rows : rows[i].domain # "none"
    BY <1>2, <1>3, PcDomains
  <2>4. bs = [i \in DOMAIN rows |-> [rows[i] EXCEPT !.key = IF rows[i].domain = "none" THEN "k2" ELSE "k1",
                                             !.over = <<rows[i].domain, PC!Payload(fresh, rows[i].domain)>>]]
    BY <2>1, <2>2 DEF bs
  <2>5. b.at = r.at /\ \A f \in PcContent : b[f] = r[f]
    BY <1>1, <2>1, <2>2 DEF PcFields, PcContent
  <2> HIDE DEF rows, fresh, b, bs
  <2> QED  BY <2>3, <2>4, <2>5
<1> HIDE DEF rows, fresh, b
<1>5. \A d \in PC!Domains : PC!Payload(fresh, d) = PC!Payload(b, d)
  <2>1. b.at = fresh.at /\ \A f \in PcContent : b[f] = fresh[f]
    BY <1>1, <1>4
  <2> QED  BY <2>1, PcSamePayloads
<1>7. FreshRows(bs, 7, PC!DomainSeq, r.at, PcPay(b))
  <2>1. DOMAIN bs = 1..7
    BY <1>2, <1>4
  <2>2. ASSUME NEW i \in 1..7
        PROVE  /\ bs[i].domain = PC!DomainSeq[i] /\ bs[i].key = "k1" /\ bs[i].live /\ bs[i].observed = r.at
               /\ bs[i].over = <<PC!DomainSeq[i], PcPay(b)[PC!DomainSeq[i]]>>
    <3>1. PC!DomainSeq[i] \in PC!Domains
      BY <1>3, PcDomains
    <3>2. bs[i] = [rows[i] EXCEPT !.key = "k1", !.over = <<rows[i].domain, PC!Payload(fresh, rows[i].domain)>>]
      BY <1>2, <1>3, <1>4
    <3>3. bs[i].over = <<PC!DomainSeq[i], PC!Payload(fresh, PC!DomainSeq[i])>>
      BY <1>2, <3>2
    <3>4. PC!Payload(fresh, PC!DomainSeq[i]) = PcPay(b)[PC!DomainSeq[i]]
      BY <1>5, <3>1 DEF PcPay
    <3> QED  BY <1>2, <3>2, <3>3, <3>4
  <2> QED  BY <2>1, <2>2 DEF FreshRows
<1>8. \A i, j \in 1..7 : PC!DomainSeq[i] = PC!DomainSeq[j] => i = j
  BY DEF PC!DomainSeq
<1>9. r.at \in Int /\ r.policy.age \in Nat /\ r.policy.alignment \in Nat /\ b.at = r.at /\ b.policy = r.policy
  BY <1>4 DEF PcInvariant, PcContent, Dated
<1> HIDE DEF bs
<1>10. /\ \A i, j \in DOMAIN bs : bs[i].domain = bs[j].domain => i = j
       /\ {a.domain : a \in {bs[i] : i \in DOMAIN bs}} = {PC!DomainSeq[i] : i \in 1..7}
       /\ \A a \in {bs[i] : i \in DOMAIN bs} : a.key \in Trusted /\ a.over = <<a.domain, PcPay(b)[a.domain]>>
       /\ \A a, c \in {bs[i] : i \in DOMAIN bs} :
            a.live /\ 0 <= r.at - a.observed /\ r.at - a.observed <= r.policy.age
            /\ a.observed - c.observed <= r.policy.alignment
  <2>1. "k1" \in Trusted /\ 7 \in Nat /\ r.at \in Int /\ r.policy.age \in Nat /\ r.policy.alignment \in Nat
    BY <1>9
  <2>2. TrustedRows(bs, 7, PC!DomainSeq, r.at, PcPay(b), r.policy.age, r.policy.alignment)
    BY <1>7, <1>8, <2>1, FreshTrusted
  <2> QED  BY <2>2 DEF TrustedRows
<1> DEFINE all == {bs[i] : i \in DOMAIN bs}
<1>11. PC!Range(b.attestations) = all
  BY DEF PC!Range, bs
<1>12. {a.domain : a \in all} = PC!Domains
  BY <1>10, PcDomains DEF PC!Domains, PC!Range
<1> HIDE DEF all
<1>13. PC!Covered(b)
  <2>1. Len(bs) = 7
    BY <1>7, ListedSeq DEF FreshRows, Listed
  <2>2. PC!Cardinality(PC!Domains) = 7
    <3>1. PC!Domains = {PC!DomainSeq[i] : i \in 1..7}
      BY PcDomains DEF PC!Domains, PC!Range
    <3>2. Cardinality(PC!Domains) = 7
      BY <1>8, <3>1, NamesApart
    <3> QED  BY <3>2 DEF PC!Cardinality, Cardinality
  <2> QED  BY <1>11, <1>12, <2>1, <2>2 DEF PC!Covered, bs
<1>14. \A a \in all : PC!SignatureHolds(b, a)
  <2>1. ASSUME NEW a \in all PROVE PC!SignatureHolds(b, a)
    <3>1. a.domain \in PC!Domains
      BY <1>12, PcDomains
    <3>2. a.key \in Trusted /\ a.over = <<a.domain, PcPay(b)[a.domain]>>
      BY <1>10 DEF all
    <3> QED  BY <3>1, <3>2 DEF PC!SignatureHolds, PcPay
  <2> QED  BY <2>1
<1>15. PC!SourcesSigned(b)
  BY <1>11, <1>13, <1>14 DEF PC!SourcesSigned
<1>16. PC!TimeLive(b)
  BY <1>9, <1>10, <1>11 DEF PC!TimeLive, all
<1>17. /\ PC!Gates(b).source_domain_coverage = PC!Covered(b)
       /\ PC!Gates(b).source_signatures = PC!SourcesSigned(b)
       /\ PC!Gates(b).source_time_and_live = PC!TimeLive(b)
       /\ DOMAIN PC!Gates(b) = DOMAIN PC!Gates(r)
  BY DEF PC!Gates
<1>18. \A g \in PC!SourceGates : PC!Gates(b)[g]
  BY <1>13, <1>15, <1>16, <1>17 DEF PC!SourceGates
<1>19. \A g \in DOMAIN PC!Gates(r) \ PC!SourceGates : PC!Gates(b)[g]
  BY <1>4, PcUnmoved DEF others
<1>20. \A g \in DOMAIN PC!Gates(b) : PC!Gates(b)[g]
  BY <1>17, <1>18, <1>19
<1> QED  BY <1>20 DEF PC!Report

(* A rank counts the better scores of the cohort, so a better score has a  *)
(* better rank.                                                            *)
LEMMA PcOrder ==
    ASSUME PcInvariant PROVE PC!RanksAreFair
<1> DEFINE s == request.berths
           rivals(x) == {i \in DOMAIN s : s[i].cohort = x.cohort /\ s[i].score > x.score}
<1>1. PICK n \in Nat : Listed(s, n) /\ \A i \in 1..n : PcScore(s[i])
  BY DEF PcInvariant, PcScored
<1>2. DOMAIN s = 1..n /\ PC!Range(s) = {s[i] : i \in 1..n}
  BY <1>1 DEF Listed, PC!Range
<1> SUFFICES ASSUME "green_berth_priority" \in report.passed,
                    NEW b \in PC!Range(s), NEW c \in PC!Range(s), b.cohort = c.cohort
             PROVE  (b.score > c.score) = (b.rank < c.rank) /\ (b.score = 100 => b.rank = 1)
  BY DEF PC!RanksAreFair
<1>3. PC!GreenBerths(request)
  <2>1. report = PC!Report(request)
    BY DEF PcInvariant, PC!DefaultReport
  <2> DEFINE gates == PC!Gates(request)
  <2>2. report.passed = DOMAIN gates \ {g \in DOMAIN gates : ~gates[g]}
    BY <2>1, Zenon DEF PC!Report
  <2>3. gates["green_berth_priority"]
    BY <2>2
  <2> QED  BY <2>3 DEF PC!Gates
<1>4. \A x \in PC!Range(s) : x.score = PC!Score(request, x) /\ x.rank = PC!Rank(request, x)
  BY <1>3 DEF PC!GreenBerths
<1>5. \A S : PC!Cardinality(S) = Cardinality(S)
  BY DEF PC!Cardinality, Cardinality
<1>6. ASSUME NEW x \in PC!Range(s)
      PROVE  x.rank = 1 + Cardinality(rivals(x))
  <2>1. \A i \in DOMAIN s : PC!Score(request, s[i]) = s[i].score
    BY <1>2, <1>4
  <2>2. {i \in DOMAIN s : s[i].cohort = x.cohort /\ PC!Score(request, s[i]) > PC!Score(request, x)} = rivals(x)
    BY <1>4, <2>1
  <2>3. PC!Rank(request, x) =
          1 + PC!Cardinality({i \in DOMAIN s : s[i].cohort = x.cohort /\ PC!Score(request, s[i]) > PC!Score(request, x)})
    BY DEF PC!Rank
  <2> QED  BY <1>4, <1>5, <2>2, <2>3
<1>7. \A x \in PC!Range(s) : x.score \in 0..100
  BY <1>1, <1>2 DEF PcScore
<1>8. IsFiniteSet(1..n)
  BY FS_Interval
<1>a. \A x : \A i : i \in rivals(x) <=> i \in 1..n /\ s[i].cohort = x.cohort /\ s[i].score > x.score
  BY <1>2
<1>b. b.score \in Int /\ c.score \in Int /\ \A i \in 1..n : s[i].score \in Int /\ s[i].score <= 100
  BY <1>1, <1>7 DEF PcScore
<1>9. /\ IsFiniteSet(rivals(b)) /\ IsFiniteSet(rivals(c))
      /\ Cardinality(rivals(b)) \in Nat /\ Cardinality(rivals(c)) \in Nat
  <2>1. rivals(b) \subseteq 1..n /\ rivals(c) \subseteq 1..n
    BY <1>2
  <2> HIDE DEF rivals
  <2>2. IsFiniteSet(rivals(b)) /\ IsFiniteSet(rivals(c))
    BY <1>8, <2>1, FS_Subset
  <2> QED  BY <2>2, FS_CardinalityType
<1>10. ASSUME b.score > c.score PROVE Cardinality(rivals(b)) < Cardinality(rivals(c))
  <2>1. PICK i \in 1..n : b = s[i]
    BY <1>2
  <2>2. i \in rivals(c) /\ i \notin rivals(b)
    <3>1. b.score > c.score /\ ~(b.score > b.score) /\ s[i].cohort = c.cohort /\ s[i].score = b.score
      BY <1>b, <1>10, <2>1
    <3> HIDE DEF rivals
    <3> QED  BY <1>a, <2>1, <3>1
  <2>3. rivals(b) \subseteq rivals(c)
    <3>1. \A j \in 1..n : s[j].score > b.score => s[j].score > c.score
      BY <1>b, <1>10
    <3> HIDE DEF rivals
    <3> QED  BY <1>a, <3>1
  <2> HIDE DEF rivals
  <2>4. Cardinality(rivals(b)) <= Cardinality(rivals(c)) /\ Cardinality(rivals(b)) # Cardinality(rivals(c))
    BY <1>9, <2>2, <2>3, FS_Subset
  <2> QED  BY <1>9, <2>4
<1>11. ASSUME ~(b.score > c.score) PROVE Cardinality(rivals(c)) <= Cardinality(rivals(b))
  <2>1. rivals(c) \subseteq rivals(b)
    <3>1. \A i \in 1..n : s[i].score > c.score => s[i].score > b.score
      BY <1>b, <1>11
    <3> HIDE DEF rivals
    <3> QED  BY <1>a, <3>1
  <2> HIDE DEF rivals
  <2> QED  BY <1>9, <2>1, FS_Subset
<1>12. ASSUME b.score = 100 PROVE Cardinality(rivals(b)) = 0
  <2>1. rivals(b) = {}
    <3>1. \A i \in 1..n : ~(s[i].score > b.score)
      BY <1>b, <1>12
    <3> HIDE DEF rivals
    <3> QED  BY <1>a, <3>1
  <2> HIDE DEF rivals
  <2> QED  BY <2>1, FS_EmptySet
<1> HIDE DEF rivals
<1>13. b.rank = 1 + Cardinality(rivals(b)) /\ c.rank = 1 + Cardinality(rivals(c))
  BY <1>6
<1>14. (b.score > c.score) = (b.rank < c.rank)
  <2>1. b.score > c.score => b.rank < c.rank
    BY <1>9, <1>10, <1>13
  <2>2. ~(b.score > c.score) => ~(b.rank < c.rank)
    BY <1>9, <1>11, <1>13
  <2>3. (b.score > c.score) \in BOOLEAN /\ (b.rank < c.rank) \in BOOLEAN
    OBVIOUS
  <2> QED  BY <2>1, <2>2, <2>3
<1> QED  BY <1>9, <1>12, <1>13, <1>14

-----------------------------------------------------------------------------
(* Carbon assets: one attester signs the whole package.                    *)

CaFields == {"start", "end", "deadline", "ratio", "approvedBy", "account", "emissions", "lots", "trades",
             "noTrade", "retirements", "book", "approvals", "attestation"}

(* The attester has no other office, and no book is of a later day than 11. *)
CaOfficers(r) ==
    /\ r.approvedBy # "attester"
    /\ "approvedBy" \in DOMAIN r.account /\ r.account.approvedBy # "attester"
    /\ "verifier" \in DOMAIN r.emissions /\ r.emissions.verifier # "attester"
    /\ "asOf" \in DOMAIN r.book /\ r.book.asOf \in {8, 9, 11}
CaApprover(row) == "by" \in DOMAIN row /\ row.by # "attester"
CaPeople(r) == CaOfficers(r) /\ \A i \in DOMAIN r.approvals : CaApprover(r.approvals[i])

CaInvariant ==
    /\ DOMAIN request = CaFields /\ CaPeople(request)
    /\ {"attestation", "approvals"} \subseteq DOMAIN request
    /\ {"key", "signature"} \subseteq DOMAIN request.attestation
    /\ request.attestation.signature # CA!None => request.attestation.signature.over = vouched
    /\ \E n \in Nat : Listed(request.approvals, n)
    /\ edits \in 0..MaxEdits
    /\ report = CA!DefaultReport \/ report = CA!Report(request)

(* Nobody who edits a package touches its signature.                       *)
LEMMA CaEdits ==
    ASSUME NEW r, {"attestation", "approvals"} \subseteq DOMAIN r,
           {"key", "signature"} \subseteq DOMAIN r.attestation, NEW e \in CA!Edited(r)
    PROVE  /\ DOMAIN e = DOMAIN r /\ DOMAIN e.attestation = DOMAIN r.attestation
           /\ e.attestation.signature = r.attestation.signature
<1>1. CASE e \in CA!EditedPeople(r)
  BY <1>1, ZenonT(60) DEF CA!EditedPeople
<1>2. CASE e \in CA!EditedFacts(r)
  BY <1>2, SMTT(60) DEF CA!EditedFacts
<1>3. CASE e \in CA!EditedTrades(r)
  BY <1>3, SMTT(60) DEF CA!EditedTrades
<1>4. CASE e \in CA!Booked(r)
  BY <1>4, ZenonT(60) DEF CA!Booked
<1> QED  BY <1>1, <1>2, <1>3, <1>4 DEF CA!Edited

(* An edit gives no office to the attester.                                *)
LEMMA CaOfficerEdits ==
    ASSUME NEW r, DOMAIN r = CaFields, CaOfficers(r), NEW e \in CA!Edited(r)
    PROVE  CaOfficers(e)
<1>0. /\ "approvedBy" \in DOMAIN r /\ "account" \in DOMAIN r /\ "emissions" \in DOMAIN r /\ "book" \in DOMAIN r
      /\ "asOf" \in DOMAIN r.book /\ "verifier" \in DOMAIN r.emissions /\ "approvedBy" \in DOMAIN r.account
  BY DEF CaFields, CaOfficers
<1>1. CASE e \in CA!EditedPeople(r)
  <2>1. \A p \in {"owner", "registrar", "carol"} : CaOfficers([r EXCEPT !.emissions.verifier = p])
    BY <1>0 DEF CaOfficers
  <2>2. \A p : CaOfficers([r EXCEPT !.approvals[1].by = p])
    BY <1>0 DEF CaOfficers
  <2>3. \A p : CaOfficers([r EXCEPT !.attestation.by = p])
    BY <1>0 DEF CaOfficers
  <2>4. CaOfficers([r EXCEPT !.approvals[2].decision = "rejected"])
    BY <1>0 DEF CaOfficers
  <2>5. CaOfficers([r EXCEPT !.approvals[2].at = 8])
    BY <1>0 DEF CaOfficers
  <2>6. CaOfficers([r EXCEPT !.approvals = Append(@, CA!Approval("finance", "fay"))])
    BY <1>0 DEF CaOfficers
  <2>7. CaOfficers([r EXCEPT !.approvals[1].role = "finance"])
    BY <1>0 DEF CaOfficers
  <2> QED  BY <1>1, <2>1, <2>2, <2>3, <2>4, <2>5, <2>6, <2>7 DEF CA!EditedPeople
<1>2. CASE e \in CA!EditedFacts(r)
  <2>1. /\ CaOfficers([r EXCEPT !.account.status = "suspended"])
        /\ CaOfficers([r EXCEPT !.account.holder = "other"])
        /\ CaOfficers([r EXCEPT !.ratio = 2])
        /\ CaOfficers([r EXCEPT !.emissions.tonnes = 1])
        /\ CaOfficers([r EXCEPT !.emissions.start = 1])
        /\ CaOfficers([r EXCEPT !.emissions.conclusion = "qualified"])
    BY <1>0 DEF CaOfficers
  <2>2. /\ CaOfficers([r EXCEPT !.lots[1].qty = @ + 1])
        /\ CaOfficers([r EXCEPT !.lots[1].vintage = "old"])
        /\ CaOfficers([r EXCEPT !.lots[1].status = "retired"])
        /\ CaOfficers([r EXCEPT !.lots = Append(@, r.lots[1])])
        /\ CaOfficers([r EXCEPT !.noTrade = ~@])
        /\ CaOfficers([r EXCEPT !.retirements[1].qty = 1])
    BY <1>0 DEF CaOfficers
  <2>3. /\ CaOfficers([r EXCEPT !.retirements[1].status = "pending"])
        /\ CaOfficers([r EXCEPT !.retirements[1].at = 3])
        /\ CaOfficers([r EXCEPT !.retirements = Append(@, r.retirements[1])])
        /\ CaOfficers([r EXCEPT !.book.opening = @ + 1])
        /\ CaOfficers([r EXCEPT !.book.internal = @ + 1])
        /\ CaOfficers([r EXCEPT !.book.asOf = 11])
    BY <1>0 DEF CaOfficers
  <2>4. /\ CaOfficers([r EXCEPT !.book.asOf = 9])
        /\ CaOfficers([r EXCEPT !.book.status = "review"])
        /\ CaOfficers([r EXCEPT !.attestation.conclusion = "qualified"])
        /\ CaOfficers([r EXCEPT !.attestation.at = 7])
    BY <1>0 DEF CaOfficers
  <2> QED  BY <1>2, <2>1, <2>2, <2>3, <2>4 DEF CA!EditedFacts
<1>3. CASE e \in CA!EditedTrades(r)
  <2>1. \A i \in DOMAIN r.trades : CaOfficers([r EXCEPT !.trades[i].qty = @ + 1])
    BY <1>0 DEF CaOfficers
  <2>2. \A i \in DOMAIN r.trades : CaOfficers([r EXCEPT !.trades[i].status = "pending"])
    BY <1>0 DEF CaOfficers
  <2>3. \A i \in DOMAIN r.trades : CaOfficers([r EXCEPT !.trades[i].side = "sell"])
    BY <1>0 DEF CaOfficers
  <2>4. \A i \in DOMAIN r.trades : CaOfficers([r EXCEPT !.trades[i].lot = "b"])
    BY <1>0 DEF CaOfficers
  <2>5. \A i \in DOMAIN r.trades : CaOfficers([r EXCEPT !.trades[i].currency = "USD"])
    BY <1>0 DEF CaOfficers
  <2>6. \A i \in DOMAIN r.trades : CaOfficers([r EXCEPT !.trades[i].settled = 2])
    BY <1>0 DEF CaOfficers
  <2> QED  BY <1>3, <2>1, <2>2, <2>3, <2>4, <2>5, <2>6 DEF CA!EditedTrades
<1>4. CASE e \in CA!Booked(r)
  <2>1. ASSUME NEW at
        PROVE  CaOfficers([r EXCEPT !.trades = Append(@, CA!Trade("u", "buy", "a", 1, at)), !.noTrade = FALSE,
                                    !.book.bought = @ + 1, !.book.registry = @ + 1, !.book.internal = @ + 1,
                                    !.lots[1].qty = @ + 1])
    <3> DEFINE x == [r EXCEPT !.trades = Append(@, CA!Trade("u", "buy", "a", 1, at)), !.noTrade = FALSE,
                              !.book.bought = @ + 1, !.book.registry = @ + 1, !.book.internal = @ + 1,
                              !.lots[1].qty = @ + 1]
    <3>1. x.approvedBy = r.approvedBy /\ x.account = r.account /\ x.emissions = r.emissions
      BY <1>0
    <3>2. "asOf" \in DOMAIN x.book /\ x.book.asOf = r.book.asOf
      BY <1>0
    <3> HIDE DEF x
    <3>3. CaOfficers(x)
      BY <3>1, <3>2 DEF CaOfficers
    <3> QED  BY <3>3 DEF x
  <2>2. CaOfficers([r EXCEPT !.retirements = Append(@, CA!Retirement("q", 1, 8)), !.book.retired = @ + 1,
                !.book.registry = @ - 1, !.book.internal = @ - 1, !.lots[1].qty = @ - 1])
    BY <1>0 DEF CaOfficers
  <2> QED  BY <1>4, <2>1, <2>2 DEF CA!Booked
<1> QED  BY <1>1, <1>2, <1>3, <1>4 DEF CA!Edited

LEMMA CaApprovalEdits ==
    ASSUME NEW r, "approvals" \in DOMAIN r, \A i \in DOMAIN r.approvals : CaApprover(r.approvals[i]),
           NEW e \in CA!Edited(r), NEW n \in Nat, Listed(r.approvals, n)
    PROVE  (\E m \in Nat : Listed(e.approvals, m)) /\ \A i \in DOMAIN e.approvals : CaApprover(e.approvals[i])
<1>1. \/ e.approvals = r.approvals
      \/ \E i, row : (i \in DOMAIN r.approvals => CaApprover(row)) /\ e.approvals = [r.approvals EXCEPT ![i] = row]
      \/ \E row : CaApprover(row) /\ e.approvals = Append(r.approvals, row)
  <2>1. CASE e \in CA!EditedPeople(r)
    <3>1. \/ e.approvals = r.approvals
          \/ \E p \in {"frank", "owner", "verifier"} : e = [r EXCEPT !.approvals[1].by = p]
          \/ e = [r EXCEPT !.approvals[2].decision = "rejected"]
          \/ e = [r EXCEPT !.approvals[2].at = 8]
          \/ e = [r EXCEPT !.approvals = Append(@, CA!Approval("finance", "fay"))]
          \/ e = [r EXCEPT !.approvals[1].role = "finance"]
      BY <2>1, ZenonT(60) DEF CA!EditedPeople
    <3>2. \/ e.approvals = r.approvals
          \/ \E p \in {"frank", "owner", "verifier"} : e.approvals = [r.approvals EXCEPT ![1] = [r.approvals[1] EXCEPT !.by = p]]
          \/ e.approvals = [r.approvals EXCEPT ![2] = [r.approvals[2] EXCEPT !.decision = "rejected"]]
          \/ e.approvals = [r.approvals EXCEPT ![2] = [r.approvals[2] EXCEPT !.at = 8]]
          \/ e.approvals = Append(r.approvals, CA!Approval("finance", "fay"))
          \/ e.approvals = [r.approvals EXCEPT ![1] = [r.approvals[1] EXCEPT !.role = "finance"]]
      BY <3>1
    <3>3. /\ \A p \in {"frank", "owner", "verifier"} :
                1 \in DOMAIN r.approvals => CaApprover([r.approvals[1] EXCEPT !.by = p])
          /\ 2 \in DOMAIN r.approvals => CaApprover([r.approvals[2] EXCEPT !.decision = "rejected"])
          /\ 2 \in DOMAIN r.approvals => CaApprover([r.approvals[2] EXCEPT !.at = 8])
          /\ 1 \in DOMAIN r.approvals => CaApprover([r.approvals[1] EXCEPT !.role = "finance"])
          /\ CaApprover(CA!Approval("finance", "fay"))
      BY DEF CaApprover, CA!Approval
    <3> QED  BY <3>2, <3>3, Zenon
  <2>2. CASE e \in CA!EditedFacts(r)
    BY <2>2, ZenonT(60) DEF CA!EditedFacts
  <2>3. CASE e \in CA!EditedTrades(r)
    <3>1. PICK i \in DOMAIN r.trades :
              e \in { [r EXCEPT !.trades[i].qty = @ + 1], [r EXCEPT !.trades[i].status = "pending"],
                     [r EXCEPT !.trades[i].side = "sell"], [r EXCEPT !.trades[i].lot = "b"],
                     [r EXCEPT !.trades[i].currency = "USD"], [r EXCEPT !.trades[i].settled = 2] }
      BY <2>3 DEF CA!EditedTrades
    <3>2. e.approvals = r.approvals
      BY <3>1, ZenonT(60)
    <3> QED  BY <3>2
  <2>4. CASE e \in CA!Booked(r)
    BY <2>4, ZenonT(60) DEF CA!Booked
  <2> QED  BY <2>1, <2>2, <2>3, <2>4 DEF CA!Edited
<1>2. ASSUME NEW i, NEW row, i \in DOMAIN r.approvals => CaApprover(row), e.approvals = [r.approvals EXCEPT ![i] = row]
      PROVE  Listed(e.approvals, n) /\ \A j \in DOMAIN e.approvals : CaApprover(e.approvals[j])
  BY <1>2 DEF Listed
<1>3. ASSUME NEW row, CaApprover(row), e.approvals = Append(r.approvals, row)
      PROVE  Listed(e.approvals, n + 1) /\ \A j \in DOMAIN e.approvals : CaApprover(e.approvals[j])
  <2> DEFINE as == r.approvals
             S == {as[i] : i \in 1..n} \cup {row}
  <2>1. as \in Seq({as[i] : i \in 1..n}) /\ Len(as) = n
    BY ListedSeq
  <2>2. as \in Seq(S) /\ row \in S
    BY <2>1
  <2>3. DOMAIN as = 1..n
    BY DEF Listed
  <2>4. \A x \in S : CaApprover(x)
    BY <1>3, <2>3
  <2> HIDE DEF S, as
  <2>5. Append(as, row) \in Seq(S)
    BY <2>2, AppendProperties, Zenon
  <2>6. \A s \in Seq(S) : \A j \in DOMAIN s : s[j] \in S
    OBVIOUS
  <2>7. Listed(e.approvals, n + 1)
    BY <1>3, ListedAppend
  <2>8. e.approvals = Append(as, row)
    BY <1>3 DEF as
  <2> QED  BY <2>4, <2>5, <2>6, <2>7, <2>8
<1>4. n + 1 \in Nat
  OBVIOUS
<1> QED  BY <1>1, <1>2, <1>3, <1>4

LEMMA CaInitially ==
    ASSUME MaxEdits \in Nat, CA!Init PROVE CaInvariant
<1>1. PICK open, trades, close : request = CA!Package(open, trades, close)
  BY DEF CA!Init, CA!Packages
<1>2. /\ {"attestation", "approvals"} \subseteq DOMAIN request
      /\ {"key", "signature"} \subseteq DOMAIN request.attestation
      /\ request.attestation.signature = CA!None
      /\ Listed(request.approvals, 2)
  BY <1>1 DEF CA!Package, Listed
<1>3. edits = 0 /\ report = CA!DefaultReport
  BY DEF CA!Init
<1>4. DOMAIN request = CaFields
  BY <1>1 DEF CA!Package, CaFields
<1>5. CaPeople(request)
  BY <1>1 DEF CA!Package, CA!Approval, CaPeople, CaOfficers, CaApprover
<1> QED  BY <1>2, <1>3, <1>4, <1>5 DEF CaInvariant

LEMMA CaNext ==
    ASSUME MaxEdits \in Nat, CaInvariant, CA!Next \/ UNCHANGED <<request, report, edits, vouched>>
    PROVE  CaInvariant'
<1>1. CASE CA!Edit
  <2>1. PICK r \in CA!Edited(request) : request' = r
    BY <1>1 DEF CA!Edit
  <2>2. edits' \in 0..MaxEdits /\ report' = CA!DefaultReport /\ vouched' = vouched
    BY <1>1 DEF CA!Edit, CaInvariant
  <2>3. /\ DOMAIN r = DOMAIN request /\ DOMAIN r.attestation = DOMAIN request.attestation
        /\ r.attestation.signature = request.attestation.signature
    BY <2>1, CaEdits DEF CaInvariant
  <2>4. (\E m \in Nat : Listed(r.approvals, m)) /\ \A i \in DOMAIN r.approvals : CaApprover(r.approvals[i])
    BY <2>1, CaApprovalEdits DEF CaInvariant, CaPeople
  <2>5. DOMAIN request = CaFields /\ CaOfficers(request)
    BY DEF CaInvariant, CaPeople
  <2>6. CaOfficers(r)
    BY <2>1, <2>5, CaOfficerEdits
  <2> QED  BY <2>1, <2>2, <2>3, <2>4, <2>5, <2>6 DEF CaInvariant, CaPeople
<1>2. CASE CA!Sign
  <2>1. PICK k \in Keys :
            LET r == [request EXCEPT !.attestation.key = k]
            IN  /\ request' = [r EXCEPT !.attestation.signature = [by |-> k, over |-> CA!Unsigned(r)]]
                /\ vouched' = CA!Content(r)
    BY <1>2 DEF CA!Sign
  <2> DEFINE r == [request EXCEPT !.attestation.key = k]
             s == [r EXCEPT !.attestation.signature = [by |-> k, over |-> CA!Unsigned(r)]]
  <2>2. CA!Unsigned(r) = CA!Content(r)
    BY DEF CA!Unsigned, CA!Content
  <2>3. /\ DOMAIN r = DOMAIN request /\ DOMAIN r.attestation = DOMAIN request.attestation
        /\ \A f \in CaFields \ {"attestation"} : r[f] = request[f]
    BY DEF CaInvariant
  <2>4. request' = s /\ vouched' = CA!Content(r) /\ report' = CA!DefaultReport /\ edits' = edits
    BY <1>2, <2>1 DEF CA!Sign
  <2> HIDE DEF r
  <2>5. /\ DOMAIN s = DOMAIN r /\ DOMAIN s.attestation = DOMAIN r.attestation
        /\ s.attestation.signature.over = CA!Unsigned(r)
        /\ \A f \in CaFields \ {"attestation"} : s[f] = r[f]
    BY <2>3 DEF CaInvariant
  <2> HIDE DEF s
  <2>6. \A f \in CaFields \ {"attestation"} : s[f] = request[f]
    BY <2>3, <2>5
  <2>7. /\ s.approvals = request.approvals /\ s.approvedBy = request.approvedBy /\ s.account = request.account
        /\ s.emissions = request.emissions /\ s.book = request.book
    BY <2>6 DEF CaFields
  <2>8. DOMAIN s = CaFields /\ CaPeople(s)
    BY <2>3, <2>5, <2>7 DEF CaInvariant, CaPeople, CaOfficers
  <2> QED  BY <2>2, <2>3, <2>4, <2>5, <2>7, <2>8 DEF CaInvariant
<1>3. CASE CA!Evaluate
  BY <1>3 DEF CA!Evaluate, CaInvariant
<1>4. CASE UNCHANGED <<request, report, edits, vouched>>
  BY <1>4 DEF CaInvariant
<1> QED  BY <1>1, <1>2, <1>3, <1>4 DEF CA!Next

(* The two approvals that count are the two there are, of two people.      *)
LEMMA CaApprovers ==
    ASSUME NEW r, NEW n \in Nat, Listed(r.approvals, n), CA!DualApproval(r)
    PROVE  /\ DOMAIN r.approvals = 1..2 /\ r.approvals[1].by # r.approvals[2].by
           /\ \A i \in 1..2 : r.approvals[i].by \notin {r.approvedBy, r.emissions.verifier}
<1> DEFINE s == r.approvals
           Of(role) == {i \in DOMAIN s : s[i].role = role}
           c == CA!ByRole(r, "compliance")
           f == CA!ByRole(r, "finance")
<1>1. /\ Len(s) = 2 /\ c # CA!None /\ f # CA!None /\ c.by # f.by
      /\ {c.by, f.by} \cap {r.approvedBy, r.emissions.verifier} = {}
  BY DEF CA!DualApproval
<1>2. DOMAIN s = 1..2
  <2>1. Len(s) = n
    BY ListedSeq
  <2> QED  BY <1>1, <2>1 DEF Listed
<1>3. \A S \in SUBSET (1..2) : S # {} => CA!Max(S) \in S
  <2> TAKE S \in SUBSET (1..2)
  <2>1. S # {} => \E x \in S : \A y \in S : x >= y
    <3>1. CASE 2 \in S
      BY <3>1
    <3>2. CASE 2 \notin S
      <4>1. \A y \in S : y = 1
        BY <3>2
      <4>2. S # {} => 1 \in S
        BY <4>1
      <4>3. 1 \in S => \A y \in S : 1 >= y
        BY <4>1
      <4> QED  BY <4>2, <4>3
    <3> QED  BY <3>1, <3>2
  <2> QED  BY <2>1 DEF CA!Max
<1>4. ASSUME NEW role, CA!ByRole(r, role) # CA!None
      PROVE  \E i \in 1..2 : CA!ByRole(r, role) = s[i] /\ s[i].role = role
  <2>1. Of(role) # {} /\ CA!ByRole(r, role) = s[CA!Max(Of(role))]
    BY <1>4 DEF CA!ByRole
  <2>2. CA!Max(Of(role)) \in Of(role)
    BY <1>2, <1>3, <2>1
  <2> QED  BY <1>2, <2>1, <2>2
<1> HIDE DEF s, c, f
<1>5. PICK i \in 1..2, j \in 1..2 : c = s[i] /\ s[i].role = "compliance" /\ f = s[j] /\ s[j].role = "finance"
  BY <1>1, <1>4 DEF c, f
<1>6. i # j
  BY <1>5
<1>7. \A k \in 1..2 : k = i \/ k = j
  BY <1>6
<1>8. s[i].by # s[j].by /\ {s[i].by, s[j].by} \cap {r.approvedBy, r.emissions.verifier} = {}
  BY <1>1, <1>5
<1>9. s[1].by # s[2].by
  BY <1>6, <1>8
<1>10. \A k \in 1..2 : s[k].by \notin {r.approvedBy, r.emissions.verifier}
  BY <1>7, <1>8
<1> QED  BY <1>2, <1>9, <1>10 DEF s

LEMMA CaSound ==
    ASSUME CaInvariant
    PROVE  CA!TypeOK /\ CA!PassedAsSigned /\ CA!FiveOffices
<1>1. CASE report = CA!DefaultReport
  BY <1>1 DEF CA!DefaultReport, CA!TypeOK, CA!PassedAsSigned, CA!FiveOffices, CaInvariant
<1>2. CASE report = CA!Report(request)
  <2> DEFINE gates == CA!Gates(request)
             blockers == CA!Blockers(request)
  <2>1. /\ report.status = CA!Status(blockers)
        /\ report.verified = IF blockers = {} THEN CA!Verified(request) ELSE CA!None
    BY <1>2 DEF CA!Report
  <2>2. blockers = {g \in DOMAIN gates : ~gates[g]}
    BY DEF CA!Blockers
  <2>3. /\ {"verified_emissions", "dual_approval", "registry_attestation"} \subseteq DOMAIN gates
        /\ gates["verified_emissions"] = CA!EmissionsReady(request)
        /\ gates["dual_approval"] = CA!DualApproval(request)
        /\ gates["registry_attestation"] = CA!Attested(request)
    BY DEF CA!Gates
  <2> HIDE DEF gates, blockers
  <2>4. blockers = {} => CA!EmissionsReady(request) /\ CA!DualApproval(request) /\ CA!Attested(request)
    BY <2>2, <2>3
  <2>5. CA!Verified(request) # CA!None
    <3>1. "balance" \in DOMAIN CA!Verified(request) /\ "balance" \notin DOMAIN CA!None
      BY DEF CA!Verified, CA!None
    <3> QED  BY <3>1
  <2>6. /\ report.status = "evidence_package_passed" <=> blockers = {}
        /\ report.status \in {"blocked", "reconciled_pending_registry_attestation", "evidence_package_passed"}
    BY <2>1 DEF CA!Status
  <2>7. CA!TypeOK
    BY <2>1, <2>5, <2>6 DEF CA!TypeOK, CaInvariant
  <2>8. CA!PassedAsSigned
    <3>1. CA!Attested(request) => vouched = CA!Unsigned(request)
      BY DEF CA!Attested, CA!SignatureValid, CaInvariant
    <3>2. CA!Unsigned(request) = CA!Content(request)
      BY DEF CA!Unsigned, CA!Content
    <3> QED  BY <2>4, <2>6, <3>1, <3>2 DEF CA!PassedAsSigned
  <2>9. CA!FiveOffices
    <3>1. SUFFICES ASSUME blockers = {} PROVE CA!FiveOffices
      BY <2>6 DEF CA!FiveOffices
    <3> DEFINE s == request.approvals
               v == request.emissions.verifier
               o == request.approvedBy
               w == request.attestation.by
    <3>2. PICK n \in Nat : Listed(request.approvals, n)
      BY DEF CaInvariant
    <3>3. /\ DOMAIN s = 1..2 /\ s[1].by # s[2].by /\ s[1].by \notin {o, v} /\ s[2].by \notin {o, v}
      <4>1. 1 \in 1..2 /\ 2 \in 1..2
        OBVIOUS
      <4> QED  BY <2>4, <3>1, <3>2, <4>1, CaApprovers
    <3>4. v # o /\ w \notin {o, v} \cup {a.by : a \in CA!Range(s)}
      BY <2>4, <3>1 DEF CA!EmissionsReady, CA!Attested
    <3>5. {a.by : a \in CA!Range(s)} = {s[1].by, s[2].by}
      BY <3>3 DEF CA!Range
    <3>6. {o, v, w} \cup {a.by : a \in CA!Range(s)} = {o, v, w, s[1].by, s[2].by}
      BY <3>5
    <3> DEFINE x == s[1].by
               y == s[2].by
    <3>7. v # o /\ w \notin {o, v} /\ x \notin {o, v, w} /\ y \notin {o, v, w, x}
      BY <3>3, <3>4, <3>5
    <3> HIDE DEF v, o, w, x, y
    <3>8. Cardinality({o, v, w, x, y}) = 5
      BY <3>7, FiveApart
    <3>9. \A S : CA!Cardinality(S) = Cardinality(S)
      BY DEF CA!Cardinality, Cardinality
    <3> QED  BY <3>6, <3>8, <3>9 DEF CA!FiveOffices, o, v, w, x, y
  <2> QED  BY <2>7, <2>8, <2>9
<1> QED  BY <1>1, <1>2 DEF CaInvariant

(* The attestation is judged by the registry's gate only.                  *)
LEMMA CaUnmoved ==
    ASSUME NEW r, NEW b, \A f \in CaFields \ {"attestation"} : b[f] = r[f]
    PROVE  \A g \in DOMAIN CA!Gates(r) \ {"registry_attestation"} : CA!Gates(b)[g] = CA!Gates(r)[g]
<1>1. /\ b.start = r.start /\ b.end = r.end /\ b.deadline = r.deadline /\ b.ratio = r.ratio
      /\ b.approvedBy = r.approvedBy /\ b.account = r.account /\ b.emissions = r.emissions
      /\ b.lots = r.lots /\ b.trades = r.trades /\ b.noTrade = r.noTrade
      /\ b.retirements = r.retirements /\ b.book = r.book /\ b.approvals = r.approvals
  BY DEF CaFields
<1>2. CA!Bought(b) = CA!Bought(r)
  BY <1>1 DEF CA!Bought
<1>3. CA!Sold(b) = CA!Sold(r)
  BY <1>1 DEF CA!Sold
<1>4. CA!Retired(b) = CA!Retired(r)
  BY <1>1 DEF CA!Retired
<1>5. CA!Active(b) = CA!Active(r)
  BY <1>1 DEF CA!Active
<1>6. CA!NoTrade(b) = CA!NoTrade(r)
  BY <1>1 DEF CA!NoTrade
<1>7. \A role : CA!ByRole(b, role) = CA!ByRole(r, role)
  BY <1>1 DEF CA!ByRole
<1>8. CA!EmissionsReady(b) = CA!EmissionsReady(r)
  BY <1>1 DEF CA!EmissionsReady
<1>9. CA!TradesConfirmed(b) = CA!TradesConfirmed(r)
  BY <1>1, <1>6 DEF CA!TradesConfirmed
<1>10. CA!RetirementsConfirmed(b) = CA!RetirementsConfirmed(r)
  BY <1>1 DEF CA!RetirementsConfirmed
<1>11. CA!Obligation(b) = CA!Obligation(r)
  BY <1>1 DEF CA!Obligation
<1>12. CA!Gates(b).registry_account = CA!Gates(r).registry_account
  <2>1. CA!AccountReady(b) = CA!AccountReady(r)
    BY <1>1 DEF CA!AccountReady
  <2> QED  BY <2>1 DEF CA!Gates
<1>13. CA!Gates(b).verified_emissions = CA!Gates(r).verified_emissions
  BY <1>8 DEF CA!Gates
<1>14. CA!Gates(b).eligible_allowance_lots = CA!Gates(r).eligible_allowance_lots
  <2>1. CA!LotsEligible(b) = CA!LotsEligible(r)
    BY <1>1 DEF CA!LotsEligible
  <2> QED  BY <2>1 DEF CA!Gates
<1>15. CA!Gates(b).serial_integrity = CA!Gates(r).serial_integrity
  <2>1. CA!SerialsUnique(b) = CA!SerialsUnique(r)
    BY <1>1 DEF CA!SerialsUnique
  <2> QED  BY <2>1 DEF CA!Gates
<1>16. CA!Gates(b).trade_confirmation = CA!Gates(r).trade_confirmation
  BY <1>9 DEF CA!Gates
<1>17. CA!Gates(b).cash_settlement = CA!Gates(r).cash_settlement
  <2>1. CA!CashSettled(b) = CA!CashSettled(r)
    BY <1>1, <1>6, <1>9 DEF CA!CashSettled
  <2> QED  BY <2>1 DEF CA!Gates
<1>18. CA!Gates(b).registry_reconciliation = CA!Gates(r).registry_reconciliation
  <2>1. CA!Reconciled(b) = CA!Reconciled(r)
    BY <1>1, <1>2, <1>3, <1>4, <1>5 DEF CA!Reconciled
  <2> QED  BY <2>1 DEF CA!Gates
<1>19. CA!Gates(b).dual_approval = CA!Gates(r).dual_approval
  <2>1. CA!DualApproval(b) = CA!DualApproval(r)
    BY <1>1, <1>7 DEF CA!DualApproval
  <2> QED  BY <2>1 DEF CA!Gates
<1>20. CA!Gates(b).surrender_quantity = CA!Gates(r).surrender_quantity
  <2>1. CA!Surrendered(b) = CA!Surrendered(r)
    BY <1>1, <1>4, <1>8, <1>10, <1>11 DEF CA!Surrendered
  <2> QED  BY <2>1 DEF CA!Gates
<1>21. CA!Gates(b).retirement_confirmation = CA!Gates(r).retirement_confirmation
  BY <1>10 DEF CA!Gates
<1>22. DOMAIN CA!Gates(r) \ {"registry_attestation"}
      = {"registry_account", "verified_emissions", "eligible_allowance_lots", "serial_integrity",
         "trade_confirmation", "cash_settlement", "registry_reconciliation", "dual_approval",
         "surrender_quantity", "retirement_confirmation"}
  BY DEF CA!Gates
<1> QED  BY <1>12, <1>13, <1>14, <1>15, <1>16, <1>17, <1>18, <1>19, <1>20, <1>21, <1>22

LEMMA CaPending ==
    ASSUME CaInvariant, "k1" \in Trusted
    PROVE  CA!PendingNeedsOnlyAttester
<1> DEFINE r == request
           att == [by |-> "attester", at |-> 11, conclusion |-> "confirmed", key |-> "k1", signature |-> CA!None]
           a == [r EXCEPT !.attestation = att]
           b == [a EXCEPT !.attestation.signature = [by |-> "k1", over |-> CA!Unsigned(a)]]
           signed == [att EXCEPT !.signature = [by |-> "k1", over |-> CA!Unsigned(a)]]
           others == \A g \in DOMAIN CA!Gates(r) \ {"registry_attestation"} : CA!Gates(r)[g]
<1> SUFFICES ASSUME others PROVE CA!Report(b).status = "evidence_package_passed"
  <2>1. ASSUME report = CA!DefaultReport PROVE report.status # "reconciled_pending_registry_attestation"
    BY <2>1 DEF CA!DefaultReport
  <2>2. ASSUME report = CA!Report(r), report.status = "reconciled_pending_registry_attestation"
        PROVE  others
    BY <2>2 DEF CA!Report, CA!Status, CA!CalculationReady, CA!Blockers
  <2> QED  BY <2>1, <2>2, Zenon DEF CA!PendingNeedsOnlyAttester, CaInvariant
<1> HIDE DEF others
<1>1. DOMAIN r = CaFields /\ "attestation" \in CaFields
  BY DEF CaInvariant, CaFields
<1>2. DOMAIN a = CaFields /\ a.attestation = att /\ \A f \in CaFields \ {"attestation"} : a[f] = r[f]
  BY <1>1
<1>3. CA!Unsigned(a) = a
  <2>1. [att EXCEPT !.signature = CA!None] = att
    OBVIOUS
  <2>2. CA!Unsigned(a) = [a EXCEPT !.attestation = [a.attestation EXCEPT !.signature = CA!None]]
    BY DEF CA!Unsigned
  <2> HIDE DEF att
  <2>3. [a EXCEPT !.attestation = att] = a
    BY <1>1
  <2> QED  BY <1>2, <2>1, <2>2, <2>3
<1>4. b = [a EXCEPT !.attestation = signed]
  BY <1>2
<1>5. /\ signed.by = "attester" /\ signed.at = 11 /\ signed.conclusion = "confirmed" /\ signed.key = "k1"
      /\ signed.signature = [by |-> "k1", over |-> CA!Unsigned(a)]
      /\ [signed EXCEPT !.signature = CA!None] = att
  <2> DEFINE x == [by |-> "k1", over |-> CA!Unsigned(a)]
  <2>1. /\ signed = [att EXCEPT !.signature = x]
        /\ x = [by |-> "k1", over |-> CA!Unsigned(a)]
    OBVIOUS
  <2> HIDE DEF x, a, signed
  <2>2. /\ signed.by = "attester" /\ signed.at = 11 /\ signed.conclusion = "confirmed" /\ signed.key = "k1"
        /\ signed.signature = x
    BY <2>1
  <2>3. [signed EXCEPT !.signature = CA!None] = att
    <3>1. signed = [by |-> "attester", at |-> 11, conclusion |-> "confirmed", key |-> "k1", signature |-> x]
      BY <2>1
    <3> QED  BY <3>1
  <2> QED  BY <2>1, <2>2, <2>3
<1> HIDE DEF a, b, att, signed
<1>6. DOMAIN b = CaFields /\ b.attestation = signed /\ \A f \in CaFields \ {"attestation"} : b[f] = r[f]
  BY <1>1, <1>2, <1>4
<1>7. CA!Unsigned(b) = a
  <2>1. CA!Unsigned(b) = [b EXCEPT !.attestation = att]
    BY <1>5, <1>6 DEF CA!Unsigned
  <2>2. [b EXCEPT !.attestation = att] = [f \in CaFields |-> IF f = "attestation" THEN att ELSE b[f]]
    BY <1>6
  <2>3. a = [f \in CaFields |-> IF f = "attestation" THEN att ELSE r[f]]
    BY <1>1 DEF a
  <2> QED  BY <1>6, <2>1, <2>2, <2>3
<1>8. CA!SignatureValid(b)
  <2>1. signed.signature # CA!None
    <3>1. "by" \in DOMAIN signed.signature /\ "by" \notin DOMAIN CA!None
      BY <1>5 DEF CA!None
    <3> QED  BY <3>1
  <2>2. signed.signature.by = "k1" /\ signed.signature.over = a
    BY <1>3, <1>5
  <2> QED  BY <1>5, <1>6, <1>7, <2>1, <2>2 DEF CA!SignatureValid
<1>9. CA!Attested(b)
  <2>1. /\ b.book = r.book /\ b.approvedBy = r.approvedBy /\ b.account = r.account
        /\ b.emissions = r.emissions /\ b.approvals = r.approvals
    BY <1>6 DEF CaFields
  <2>2. CaPeople(r)
    BY DEF CaInvariant
  <2>3. "attester" \notin {r.approvedBy, r.account.approvedBy, r.emissions.verifier} /\ 11 >= r.book.asOf
    BY <2>2 DEF CaPeople, CaOfficers
  <2>4. "attester" \notin {x.by : x \in CA!Range(r.approvals)}
    BY <2>2 DEF CaPeople, CaApprover, CA!Range
  <2> QED  BY <1>5, <1>6, <1>8, <2>1, <2>3, <2>4 DEF CA!Attested
<1>10. CA!Gates(b).registry_attestation = CA!Attested(b) /\ DOMAIN CA!Gates(b) = DOMAIN CA!Gates(r)
  BY DEF CA!Gates
<1>11. \A g \in DOMAIN CA!Gates(r) \ {"registry_attestation"} : CA!Gates(b)[g]
  BY <1>6, CaUnmoved DEF others
<1>12. \A g \in DOMAIN CA!Gates(b) : CA!Gates(b)[g]
  BY <1>9, <1>10, <1>11
<1>13. CA!Blockers(b) = {}
  BY <1>12 DEF CA!Blockers
<1> QED  BY <1>13 DEF CA!Report, CA!Status

-----------------------------------------------------------------------------
(* The cycle of energy and carbon management.                              *)

(* A list of appointments, the reviewer that a pending package waits for   *)
(* in none of them.                                                        *)
EcRow(x) == {"role", "person"} \subseteq DOMAIN x /\ x.person # "stranger"
EcRoles(s) == \E n \in Nat : Listed(s, n) /\ \A i \in 1..n : EcRow(s[i])
EcDated(m) == "at" \in DOMAIN m /\ m.at \in Int
EcFields ==
    {"start", "end", "context", "policy", "roles", "review", "baseline", "enpis", "objectives", "plans", "monitoring",
     "controls", "competence", "inventory", "audit", "correctives", "declared", "management", "assurance"}
EcShape(r) ==
    /\ {"assurance", "start", "roles", "enpis", "management"} \subseteq DOMAIN r
    /\ EcRoles(r.roles) /\ \E n \in Nat : Listed(r.enpis, n)
    /\ r.assurance # EC!None => "over" \in DOMAIN r.assurance
    /\ EcDated(r.management)

(* What a signature is over was vouched for.                               *)
EcOver(r, content) ==
    r.assurance # EC!None /\ r.assurance.over # EC!None =>
        \A f \in DOMAIN r.assurance.over \ {"assurance"} :
            content # EC!None /\ f \in DOMAIN content /\ content[f] = r.assurance.over[f]

(* The dates of a cycle.                                                   *)
EcHas(x, F) == F \subseteq DOMAIN x /\ \A f \in F : x[f] \in Int
EcTimed(s, F) == \E n \in Nat : Listed(s, n) /\ \A i \in 1..n : EcHas(s[i], F)
EcTimes(r) ==
    /\ r.start \in Int /\ r.end \in Int
    /\ EcHas(r.policy, {"approved", "effective", "communicated"}) /\ EcHas(r.review, {"at"})
    /\ EcHas(r.baseline, {"frozen"}) /\ EcHas(r.audit, {"at"})
    /\ EcTimed(r.roles, {"at"}) /\ EcTimed(r.competence, {"at"})
    /\ EcTimed(r.enpis, {"at"}) /\ EcTimed(r.plans, {"start", "due"}) /\ EcTimed(r.objectives, {})

EcInvariant ==
    /\ EcTimes(request)
    /\ EcShape(request) /\ DOMAIN request = EcFields
    /\ EcOver(request, vouched)
    /\ vouched # EC!None => DOMAIN vouched = DOMAIN request \ {"assurance"}
    /\ edits \in 0..PackageEdits
    /\ report = EC!DefaultReport \/ report = EC!Report(request)

LEMMA EcPlaced ==
    ASSUME NEW s, EcRoles(s), NEW i, NEW row, i \in DOMAIN s => EcRow(row)
    PROVE  EcRoles([s EXCEPT ![i] = row])
<1>1. PICK n \in Nat : Listed(s, n) /\ \A j \in 1..n : EcRow(s[j])
  BY DEF EcRoles
<1> DEFINE t == [s EXCEPT ![i] = row]
<1>2. DOMAIN s = 1..n
  BY <1>1 DEF Listed
<1>3. DOMAIN t = 1..n /\ \A j \in 1..n : t[j] = IF j = i THEN row ELSE s[j]
  BY <1>2
<1>4. t = [j \in 1..n |-> t[j]]
  BY <1>2
<1> HIDE DEF t
<1>5. Listed(t, n) /\ \A j \in 1..n : EcRow(t[j])
  BY <1>1, <1>3, <1>4 DEF Listed
<1>6. EcRoles(t)
  BY <1>5 DEF EcRoles
<1> QED  BY <1>6 DEF t

LEMMA EcAppended ==
    ASSUME NEW s, EcRoles(s), NEW row, EcRow(row)
    PROVE  EcRoles(Append(s, row))
<1>1. PICK n \in Nat : Listed(s, n) /\ \A j \in 1..n : EcRow(s[j])
  BY DEF EcRoles
<1> DEFINE t == Append(s, row)
<1>2. Listed(t, n + 1)
  BY <1>1, ListedAppend
<1>3. \A j \in 1..(n + 1) : t[j] = IF j = n + 1 THEN row ELSE s[j]
  <2> DEFINE S == {s[j] : j \in 1..n} \cup {row}
  <2>1. s \in Seq({s[j] : j \in 1..n}) /\ Len(s) = n
    BY <1>1, ListedSeq
  <2>2. s \in Seq(S) /\ row \in S
    BY <2>1
  <2> HIDE DEF S
  <2> HIDE DEF t
  <2>3. Len(s) + 1 = n + 1
    BY <2>1
  <2>4. \A j \in 1..Len(s) : Append(s, row)[j] = s[j]
    BY <2>2, AppendProperties, SMT
  <2>5. Append(s, row)[Len(s) + 1] = row
    BY <2>2, AppendProperties, Zenon
  <2> QED  BY <2>1, <2>4, <2>5 DEF t
<1> HIDE DEF t
<1>4. \A j \in 1..(n + 1) : EcRow(t[j])
  BY <1>1, <1>3
<1>5. EcRoles(t)
  <2>1. n + 1 \in Nat
    OBVIOUS
  <2> QED  BY <1>2, <1>4, <2>1, Zenon DEF EcRoles
<1> QED  BY <1>5 DEF t

LEMMA EcRebuilt ==
    ASSUME NEW s, NEW n \in Nat, Listed(s, n), NEW t, DOMAIN t = DOMAIN s, t = [i \in DOMAIN t |-> t[i]]
    PROVE  Listed(t, n)
BY DEF Listed

(* What the edits do to the offices and to the indicators.                 *)
LEMMA EcOffices ==
    ASSUME NEW r, EcShape(r), NEW e \in EC!EditedOffices(r)
    PROVE  DOMAIN e = DOMAIN r /\ EcShape(e) /\ e.assurance = r.assurance
<1> DEFINE s == r.roles
           deputy == EC!Role("energy_manager", "deputy")
<1> DEFINE Kept(x) ==
      /\ DOMAIN x = DOMAIN r /\ x.assurance = r.assurance /\ x.management = r.management
      /\ x.enpis = r.enpis \/ x.enpis = [i \in DOMAIN r.enpis |-> [r.enpis[i] EXCEPT !.owner = "deputy"]]
      /\ \/ x.roles = r.roles
         \/ x.roles = [r.roles EXCEPT ![1] = [r.roles[1] EXCEPT !.person = "chief"]]
         \/ x.roles = [r.roles EXCEPT ![2] = [r.roles[2] EXCEPT !.at = 150]]
         \/ x.roles = [r.roles EXCEPT ![2] = [r.roles[2] EXCEPT !.person = "deputy"]]
         \/ x.roles = [r.roles EXCEPT ![3] = [r.roles[3] EXCEPT !.person = "reviewer"]]
         \/ x.roles = [r.roles EXCEPT ![4] = [r.roles[4] EXCEPT !.person = "energy"]]
         \/ x.roles = [r.roles EXCEPT ![5] = [r.roles[5] EXCEPT !.person = "operations"]]
         \/ x.roles = [r.roles EXCEPT ![5] = [r.roles[5] EXCEPT !.person = "carbon"]]
         \/ x.roles = Append(r.roles, EC!Role("energy_manager", "deputy"))
<1> DEFINE o1 == [r EXCEPT !.context.standards = {"ISO 50001:2018", "ISO 14064-1:2018"}]
           o2 == [r EXCEPT !.context.climate = FALSE]
           o3 == [r EXCEPT !.context.standards = {"ISO 50001:2018", "ISO 9001:2015"}]
           o4 == [r EXCEPT !.policy.effective = 101]
           o5 == [r EXCEPT !.policy.by = "energy"]
           o6 == [r EXCEPT !.roles[1].person = "chief"]
           o7 == [r EXCEPT !.roles[2].at = 150]
           o8 == [r EXCEPT !.roles[5].person = "operations"]
           o9 == [r EXCEPT !.roles[5].person = "carbon", !.audit.by = "carbon", !.competence[5].person = "carbon"]
           o10 == [r EXCEPT !.roles[4].person = "energy"]
           o11 == [r EXCEPT !.roles[3].person = "reviewer", !.inventory.by = "reviewer", !.competence[3].person = "reviewer"]
           o12 == [r EXCEPT !.roles = Append(@, EC!Role("energy_manager", "deputy"))]
           o13 == [EC!HandedOver(r, "deputy") EXCEPT !.roles = Append(@, EC!Role("energy_manager", "deputy"))]
           o14 == [EC!HandedOver(r, "deputy") EXCEPT !.roles[2].person = "deputy"]
           o15 == [r EXCEPT !.competence[2].person = "deputy"]
           o16 == [r EXCEPT !.competence[4].through = 199]
           o17 == [r EXCEPT !.competence = Append(@, EC!Competence("energy_manager", "energy"))]
<1>0. {"assurance", "start", "roles", "enpis", "management"} \subseteq DOMAIN r
  BY DEF EcShape
<1>o1. Kept(o1) /\ Kept(o2) /\ Kept(o3) /\ Kept(o4) /\ Kept(o5) /\ Kept(o6)
  BY <1>0
<1>o7. Kept(o7) /\ Kept(o8) /\ Kept(o9) /\ Kept(o10) /\ Kept(o11) /\ Kept(o12)
  BY <1>0
<1>o13. Kept(o13) /\ Kept(o14)
  BY <1>0 DEF EC!HandedOver
<1>o15. Kept(o15) /\ Kept(o16) /\ Kept(o17)
  BY <1>0
<1>e. e \in {o1, o2, o3, o4, o5, o6, o7, o8, o9, o10, o11, o12, o13, o14, o15, o16, o17}
  BY DEF EC!EditedOffices
<1> HIDE DEF Kept, o1, o2, o3, o4, o5, o6, o7, o8, o9, o10, o11, o12, o13, o14, o15, o16, o17
<1>k. Kept(e)
  BY <1>e, <1>o1, <1>o7, <1>o13, <1>o15
<1>1. DOMAIN e = DOMAIN r /\ e.assurance = r.assurance
  BY <1>k DEF Kept
<1>2. \/ e.roles = r.roles
      \/ e.roles = [s EXCEPT ![1] = [s[1] EXCEPT !.person = "chief"]]
      \/ e.roles = [s EXCEPT ![2] = [s[2] EXCEPT !.at = 150]]
      \/ e.roles = [s EXCEPT ![2] = [s[2] EXCEPT !.person = "deputy"]]
      \/ e.roles = [s EXCEPT ![3] = [s[3] EXCEPT !.person = "reviewer"]]
      \/ e.roles = [s EXCEPT ![4] = [s[4] EXCEPT !.person = "energy"]]
      \/ e.roles = [s EXCEPT ![5] = [s[5] EXCEPT !.person = "operations"]]
      \/ e.roles = [s EXCEPT ![5] = [s[5] EXCEPT !.person = "carbon"]]
      \/ e.roles = Append(s, deputy)
  BY <1>k, Zenon DEF Kept
<1>3. e.enpis = r.enpis \/ e.enpis = [i \in DOMAIN r.enpis |-> [r.enpis[i] EXCEPT !.owner = "deputy"]]
  BY <1>k, Zenon DEF Kept
<1>6. e.management = r.management
  BY <1>k DEF Kept
<1>4. EcRoles(e.roles)
  <2> HIDE DEF deputy
  <2>1. EcRoles(s)
    BY DEF EcShape
  <2> HIDE DEF s
  <2>2. \A i, row : (i \in DOMAIN s => EcRow(row)) => EcRoles([s EXCEPT ![i] = row])
    BY <2>1, EcPlaced
  <2>0. \A i \in DOMAIN s : EcRow(s[i])
    BY <2>1 DEF EcRoles, Listed
  <2>5. \A i \in DOMAIN s : \A p : p # "stranger" => EcRow([s[i] EXCEPT !.person = p])
    BY <2>0 DEF EcRow
  <2>6. \A i \in DOMAIN s : \A x : EcRow([s[i] EXCEPT !.at = x])
    BY <2>0 DEF EcRow
  <2>7. \A i, p : p # "stranger" => EcRoles([s EXCEPT ![i] = [s[i] EXCEPT !.person = p]])
    BY <2>2, <2>5
  <2>8. \A i, x : EcRoles([s EXCEPT ![i] = [s[i] EXCEPT !.at = x]])
    BY <2>2, <2>6
  <2>3. /\ EcRoles([s EXCEPT ![1] = [s[1] EXCEPT !.person = "chief"]])
        /\ EcRoles([s EXCEPT ![2] = [s[2] EXCEPT !.at = 150]])
        /\ EcRoles([s EXCEPT ![2] = [s[2] EXCEPT !.person = "deputy"]])
        /\ EcRoles([s EXCEPT ![3] = [s[3] EXCEPT !.person = "reviewer"]])
        /\ EcRoles([s EXCEPT ![4] = [s[4] EXCEPT !.person = "energy"]])
        /\ EcRoles([s EXCEPT ![5] = [s[5] EXCEPT !.person = "operations"]])
        /\ EcRoles([s EXCEPT ![5] = [s[5] EXCEPT !.person = "carbon"]])
    BY <2>7, <2>8
  <2>4. EcRoles(Append(s, deputy))
    <3>1. EcRow(deputy)
      BY DEF deputy, EC!Role, EcRow
    <3> QED  BY <2>1, <3>1, EcAppended
  <2> QED  BY <1>2, <2>1, <2>3, <2>4 DEF s
<1>5. \E n \in Nat : Listed(e.enpis, n)
  <2>1. PICK n \in Nat : Listed(r.enpis, n)
    BY DEF EcShape
  <2>2. DOMAIN e.enpis = 1..n /\ e.enpis = [i \in 1..n |-> e.enpis[i]]
    BY <1>3, <2>1 DEF Listed
  <2> QED  BY <2>1, <2>2 DEF Listed
<1> QED  BY <1>1, <1>4, <1>5, <1>6 DEF EcShape

LEMMA EcPlanning ==
    ASSUME NEW r, EcShape(r), NEW e \in EC!EditedPlanning(r)
    PROVE  DOMAIN e = DOMAIN r /\ EcShape(e) /\ e.assurance = r.assurance
<1> DEFINE s == r.enpis
<1>1. DOMAIN e = DOMAIN r /\ e.assurance = r.assurance /\ e.roles = r.roles
  BY ZenonT(60) DEF EC!EditedPlanning, EcShape
<1>5. e.management = r.management
  BY ZenonT(60) DEF EC!EditedPlanning, EcShape
<1>2. \/ e.enpis = s
      \/ e.enpis = [s EXCEPT ![1] = [s[1] EXCEPT !.current = 12]]
      \/ e.enpis = [s EXCEPT ![1] = [s[1] EXCEPT !.at = 90]]
      \/ e.enpis = [s EXCEPT ![1] = [s[1] EXCEPT !.target = 9]]
      \/ e.enpis = Append(s, EC!Enpi("share", "increase", 5, 6))
      \/ e.enpis = Append(s, EC!Enpi("teu", "increase", 11, 12))
      \/ e.enpis = Append(s, EC!Enpi("share", "increase", 5, 4))
  BY ZenonT(60) DEF EC!EditedPlanning, EcShape
<1>3. PICK n \in Nat : Listed(s, n)
  BY DEF EcShape
<1>4. Listed(e.enpis, n) \/ Listed(e.enpis, n + 1)
  <2> HIDE DEF s
  <2>1. \A x : Listed(Append(s, x), n + 1)
    BY <1>3, ListedAppend
  <2>2. \A x : Listed([s EXCEPT ![1] = x], n)
    BY <1>3 DEF Listed
  <2> QED  BY <1>2, <1>3, <2>1, <2>2
<1> QED  BY <1>1, <1>4, <1>5 DEF EcShape

LEMMA EcEdits ==
    ASSUME NEW r, EcShape(r), NEW e \in EC!Edited(r), NEW content, EcOver(r, content)
    PROVE  DOMAIN e = DOMAIN r /\ EcShape(e) /\ EcOver(e, content)
<1>1. CASE e \in EC!EditedOffices(r)
  BY <1>1, EcOffices DEF EcOver
<1>2. CASE e \in EC!EditedPlanning(r)
  BY <1>2, EcPlanning DEF EcOver
<1>3. CASE e \in EC!EditedDoing(r)
  <2>1. DOMAIN e = DOMAIN r /\ e.assurance = r.assurance /\ e.roles = r.roles /\ e.enpis = r.enpis
        /\ e.management = r.management
    BY <1>3, ZenonT(60) DEF EC!EditedDoing, EcShape
  <2> QED  BY <2>1 DEF EcShape, EcOver
<1>4. CASE e \in EC!EditedChecking(r)
  <2> DEFINE Kept(x) ==
        /\ DOMAIN x = DOMAIN r /\ x.assurance = r.assurance /\ x.roles = r.roles /\ x.enpis = r.enpis
        /\ \/ x.management = r.management
           \/ x.management = [r.management EXCEPT !.at = 215]
           \/ x.management = [r.management EXCEPT !.at = 233]
           \/ x.management = [r.management EXCEPT !.chair = "energy"]
           \/ x.management = [r.management EXCEPT !.topics = @ \ {"resources"}]
  <2> DEFINE o1 == [r EXCEPT !.inventory.end = 190]
             o2 == [r EXCEPT !.inventory.reported = 6]
             o3 == [r EXCEPT !.inventory.expected = 6, !.inventory.reported = 6]
             o4 == [r EXCEPT !.audit.at = 190]
             o5 == [r EXCEPT !.audit.at = 226]
             o6 == [r EXCEPT !.audit.findings = <<>>]
             o7 == [r EXCEPT !.audit.findings = <<>>, !.audit.conclusion = "conforming", !.correctives = <<>>, !.declared = TRUE]
             o8 == [r EXCEPT !.audit.findings = <<"f1", "f2">>]
             o9 == [r EXCEPT !.audit.scope = {"ISO 50001:2018", "ISO 9001:2015"}]
             o10 == [r EXCEPT !.correctives[1].closed = <<>>]
             o11 == [r EXCEPT !.correctives[1].status = "open", !.correctives[1].closed = <<>>]
             o12 == [r EXCEPT !.correctives[1].effective = FALSE]
             o13 == [r EXCEPT !.correctives[1].closed = <<230>>]
             o14 == [r EXCEPT !.correctives = Append(@, [EC!Corrective("a2", "f1") EXCEPT !.status = "open"])]
             o15 == [r EXCEPT !.audit.findings = <<"f1", "f2">>, !.correctives = Append(@, EC!Corrective("a2", "f2"))]
             o16 == [r EXCEPT !.management.at = 215]
             o17 == [r EXCEPT !.management.at = 233]
             o18 == [r EXCEPT !.management.chair = "energy"]
             o19 == [r EXCEPT !.management.topics = @ \ {"resources"}]
  <2>0. {"assurance", "start", "roles", "enpis", "management"} \subseteq DOMAIN r
    BY DEF EcShape
  <2>o1. Kept(o1) /\ Kept(o2) /\ Kept(o3) /\ Kept(o4) /\ Kept(o5) /\ Kept(o6)
    BY <2>0
  <2>o7. Kept(o7) /\ Kept(o8) /\ Kept(o9) /\ Kept(o10) /\ Kept(o11) /\ Kept(o12)
    BY <2>0
  <2>o13. Kept(o13) /\ Kept(o14) /\ Kept(o15) /\ Kept(o16) /\ Kept(o17) /\ Kept(o18)
    BY <2>0
  <2>o19. Kept(o19)
    BY <2>0
  <2>e. e \in {o1, o2, o3, o4, o5, o6, o7, o8, o9, o10, o11, o12, o13, o14, o15, o16, o17, o18, o19}
    BY <1>4 DEF EC!EditedChecking
  <2> HIDE DEF Kept, o1, o2, o3, o4, o5, o6, o7, o8, o9, o10, o11, o12, o13, o14, o15, o16, o17, o18, o19
  <2>k. Kept(e)
    BY <2>e, <2>o1, <2>o7, <2>o13, <2>o19
  <2>1. DOMAIN e = DOMAIN r /\ e.assurance = r.assurance /\ e.roles = r.roles /\ e.enpis = r.enpis
    BY <2>k DEF Kept
  <2>2. \/ e.management = r.management
        \/ e.management = [r.management EXCEPT !.at = 215]
        \/ e.management = [r.management EXCEPT !.at = 233]
        \/ \E x : e.management = [r.management EXCEPT !.chair = x]
        \/ \E x : e.management = [r.management EXCEPT !.topics = x]
    BY <2>k, Zenon DEF Kept
  <2>3. EcDated(e.management)
    <3> DEFINE m == r.management
    <3>1. "at" \in DOMAIN m /\ m.at \in Int
      BY DEF EcShape, EcDated
    <3> HIDE DEF m
    <3>2. /\ EcDated([m EXCEPT !.at = 215]) /\ EcDated([m EXCEPT !.at = 233])
          /\ \A x : EcDated([m EXCEPT !.chair = x]) /\ EcDated([m EXCEPT !.topics = x])
      BY <3>1 DEF EcDated
    <3> QED  BY <2>2, <3>1, <3>2 DEF m, EcDated
  <2> QED  BY <2>1, <2>3 DEF EcShape, EcOver
<1>5. CASE e \in EC!EditedAssurance(r)
  <2>1. DOMAIN e = DOMAIN r /\ e.roles = r.roles /\ e.enpis = r.enpis /\ e.management = r.management
    BY <1>5, ZenonT(60) DEF EC!EditedAssurance, EcShape
  <2>2. CASE r.assurance = EC!None
    <3>1. e.assurance = EC!Assurance
      BY <1>5, <2>2 DEF EC!EditedAssurance, EcShape
    <3>2. EC!Assurance.over = EC!None /\ "over" \in DOMAIN EC!Assurance
      BY DEF EC!Assurance
    <3> QED  BY <2>1, <3>1, <3>2 DEF EcShape, EcOver
  <2>3. CASE r.assurance # EC!None
    <3>1. \/ e.assurance = EC!None
          \/ DOMAIN e.assurance = DOMAIN r.assurance /\ e.assurance.over = r.assurance.over
      BY <1>5, <2>3 DEF EC!EditedAssurance, EcShape
    <3> QED  BY <2>1, <2>3, <3>1 DEF EcShape, EcOver
  <2> QED  BY <2>2, <2>3
<1> QED  BY <1>1, <1>2, <1>3, <1>4, <1>5 DEF EC!Edited

LEMMA EcTimedPlaced ==
    ASSUME NEW s, NEW F, EcTimed(s, F), NEW i, NEW row, i \in DOMAIN s => EcHas(row, F)
    PROVE  EcTimed([s EXCEPT ![i] = row], F)
<1>1. PICK n \in Nat : Listed(s, n) /\ \A j \in 1..n : EcHas(s[j], F)
  BY DEF EcTimed
<1> DEFINE t == [s EXCEPT ![i] = row]
<1>2. DOMAIN s = 1..n
  BY <1>1 DEF Listed
<1>3. DOMAIN t = 1..n /\ t = [j \in 1..n |-> t[j]] /\ \A j \in 1..n : t[j] = IF j = i THEN row ELSE s[j]
  BY <1>2
<1> HIDE DEF t
<1>4. Listed(t, n) /\ \A j \in 1..n : EcHas(t[j], F)
  BY <1>1, <1>2, <1>3 DEF Listed
<1>5. EcTimed(t, F)
  BY <1>4 DEF EcTimed
<1> QED  BY <1>5 DEF t

LEMMA EcTimedAppended ==
    ASSUME NEW s, NEW F, EcTimed(s, F), NEW row, EcHas(row, F)
    PROVE  EcTimed(Append(s, row), F)
<1>1. PICK n \in Nat : Listed(s, n) /\ \A j \in 1..n : EcHas(s[j], F)
  BY DEF EcTimed
<1> DEFINE t == Append(s, row)
<1>2. Listed(t, n + 1)
  BY <1>1, ListedAppend
<1>3. \A j \in 1..(n + 1) : t[j] = IF j = n + 1 THEN row ELSE s[j]
  <2> DEFINE S == {s[j] : j \in 1..n} \cup {row}
  <2>1. s \in Seq({s[j] : j \in 1..n}) /\ Len(s) = n
    BY <1>1, ListedSeq
  <2>2. s \in Seq(S) /\ row \in S
    BY <2>1
  <2> HIDE DEF S
  <2> HIDE DEF t
  <2>3. Len(s) + 1 = n + 1
    BY <2>1
  <2>4. \A j \in 1..Len(s) : Append(s, row)[j] = s[j]
    BY <2>2, AppendProperties, SMT
  <2>5. Append(s, row)[Len(s) + 1] = row
    BY <2>2, AppendProperties, Zenon
  <2> QED  BY <2>1, <2>4, <2>5 DEF t
<1> HIDE DEF t
<1>4. \A j \in 1..(n + 1) : EcHas(t[j], F)
  BY <1>1, <1>3
<1>5. EcTimed(t, F)
  <2>1. n + 1 \in Nat
    OBVIOUS
  <2> QED  BY <1>2, <1>4, <2>1, Zenon DEF EcTimed
<1> QED  BY <1>5 DEF t

LEMMA EcOfficeTimes ==
    ASSUME NEW r, DOMAIN r = EcFields, EcTimes(r), NEW e \in EC!EditedOffices(r)
    PROVE  EcTimes(e)
<1>0. {"start", "end", "policy", "review", "baseline", "audit", "roles", "competence", "enpis", "plans", "monitoring",
       "controls", "context", "inventory", "correctives", "declared", "management", "objectives"} \subseteq DOMAIN r
  BY DEF EcFields
<1> DEFINE o1 == [r EXCEPT !.context.standards = {"ISO 50001:2018", "ISO 14064-1:2018"}]
           o2 == [r EXCEPT !.context.climate = FALSE]
           o3 == [r EXCEPT !.context.standards = {"ISO 50001:2018", "ISO 9001:2015"}]
           o4 == [r EXCEPT !.policy.effective = 101]
           o5 == [r EXCEPT !.policy.by = "energy"]
           o6 == [r EXCEPT !.roles[1].person = "chief"]
           o7 == [r EXCEPT !.roles[2].at = 150]
           o8 == [r EXCEPT !.roles[5].person = "operations"]
           o9 == [r EXCEPT !.roles[5].person = "carbon", !.audit.by = "carbon", !.competence[5].person = "carbon"]
           o10 == [r EXCEPT !.roles[4].person = "energy"]
           o11 == [r EXCEPT !.roles[3].person = "reviewer", !.inventory.by = "reviewer", !.competence[3].person = "reviewer"]
           o12 == [r EXCEPT !.roles = Append(@, EC!Role("energy_manager", "deputy"))]
           o13 == [EC!HandedOver(r, "deputy") EXCEPT !.roles = Append(@, EC!Role("energy_manager", "deputy"))]
           o14 == [EC!HandedOver(r, "deputy") EXCEPT !.roles[2].person = "deputy"]
           o15 == [r EXCEPT !.competence[2].person = "deputy"]
           o16 == [r EXCEPT !.competence[4].through = 199]
           o17 == [r EXCEPT !.competence = Append(@, EC!Competence("energy_manager", "energy"))]
<1> DEFINE s == r.roles
           c == r.competence
           ns == r.enpis
           owned == [i \in DOMAIN ns |-> [ns[i] EXCEPT !.owner = "deputy"]]
           aims == [i \in DOMAIN r.objectives |-> [r.objectives[i] EXCEPT !.owner = "deputy"]]
<1>1. /\ \A i \in DOMAIN s : EcHas(s[i], {"at"})
      /\ \A i \in DOMAIN c : EcHas(c[i], {"at"})
      /\ \A i \in DOMAIN ns : EcHas(ns[i], {"at"})
  BY DEF EcTimed, Listed, EcTimes
<1>2. /\ \A x, p : EcHas(x, {"at"}) => EcHas([x EXCEPT !.person = p], {"at"})
      /\ \A x : EcHas(x, {"at"}) => /\ EcHas([x EXCEPT !.at = 150], {"at"}) /\ EcHas([x EXCEPT !.by = "deputy"], {"at"})
                                    /\ EcHas([x EXCEPT !.by = "carbon"], {"at"})
                                    /\ EcHas([x EXCEPT !.through = 199], {"at"}) /\ EcHas([x EXCEPT !.owner = "deputy"], {"at"})
      /\ \A x, y : EcHas(EC!Role(x, y), {"at"}) /\ EcHas(EC!Competence(x, y), {"at"})
  BY DEF EcHas, EC!Role, EC!Competence
<1>3. /\ EcHas([r.policy EXCEPT !.effective = 101], {"approved", "effective", "communicated"})
      /\ EcHas([r.policy EXCEPT !.by = "energy"], {"approved", "effective", "communicated"})
      /\ EcHas([r.baseline EXCEPT !.by = "deputy"], {"frozen"})
      /\ EcHas([r.review EXCEPT !.by = "deputy"], {"at"}) /\ EcHas([r.audit EXCEPT !.by = "carbon"], {"at"})
  BY DEF EcHas, EcTimes
<1> HIDE DEF s, c, ns
<1>4. EcTimed(s, {"at"}) /\ EcTimed(c, {"at"}) /\ EcTimed(ns, {"at"})
  BY DEF s, c, ns, EcTimes
<1>5. /\ EcTimed([s EXCEPT ![1] = [s[1] EXCEPT !.person = "chief"]], {"at"})
      /\ EcTimed([s EXCEPT ![2] = [s[2] EXCEPT !.at = 150]], {"at"})
      /\ EcTimed([s EXCEPT ![2] = [s[2] EXCEPT !.person = "deputy"]], {"at"})
      /\ EcTimed([s EXCEPT ![3] = [s[3] EXCEPT !.person = "reviewer"]], {"at"})
      /\ EcTimed([s EXCEPT ![4] = [s[4] EXCEPT !.person = "energy"]], {"at"})
      /\ EcTimed([s EXCEPT ![5] = [s[5] EXCEPT !.person = "operations"]], {"at"})
      /\ EcTimed([s EXCEPT ![5] = [s[5] EXCEPT !.person = "carbon"]], {"at"})
  BY <1>1, <1>2, <1>4, EcTimedPlaced
<1>6. /\ EcTimed([c EXCEPT ![2] = [c[2] EXCEPT !.person = "deputy"]], {"at"})
      /\ EcTimed([c EXCEPT ![3] = [c[3] EXCEPT !.person = "reviewer"]], {"at"})
      /\ EcTimed([c EXCEPT ![5] = [c[5] EXCEPT !.person = "carbon"]], {"at"})
      /\ EcTimed([c EXCEPT ![4] = [c[4] EXCEPT !.through = 199]], {"at"})
  BY <1>1, <1>2, <1>4, EcTimedPlaced
<1>7. /\ EcTimed(Append(s, EC!Role("energy_manager", "deputy")), {"at"})
      /\ EcTimed(Append(c, EC!Competence("energy_manager", "energy")), {"at"})
  BY <1>2, <1>4, EcTimedAppended
<1>8. EcTimed(owned, {"at"})
  <2>1. \A i \in DOMAIN ns : EcHas(owned[i], {"at"})
    BY <1>1, <1>2
  <2>2. PICK n \in Nat : Listed(ns, n)
    BY <1>4 DEF EcTimed
  <2>3. DOMAIN ns = 1..n
    BY <2>2 DEF Listed
  <2>4. Listed(owned, n)
    BY <2>3 DEF Listed
  <2> HIDE DEF owned
  <2> QED  BY <2>1, <2>3, <2>4 DEF EcTimed
<1>9. EcTimed(aims, {})
  <2>1. PICK n \in Nat : Listed(r.objectives, n)
    BY DEF EcTimed, EcTimes
  <2>2. Listed(aims, n)
    BY <2>1 DEF Listed
  <2> HIDE DEF aims
  <2> QED  BY <2>2 DEF EcTimed, EcHas
<1>o1. EcTimes(o1) /\ EcTimes(o2) /\ EcTimes(o3)
  BY <1>0 DEF EcTimes
<1>o4. EcTimes(o4) /\ EcTimes(o5)
  BY <1>0, <1>3 DEF EcTimes
<1>o6. EcTimes(o6) /\ EcTimes(o7) /\ EcTimes(o8)
  BY <1>0, <1>5 DEF EcTimes, s
<1>o9. EcTimes(o9)
  BY <1>0, <1>3, <1>5, <1>6 DEF EcTimes, s, c
<1>o10. EcTimes(o10)
  BY <1>0, <1>5 DEF EcTimes, s
<1>o11. EcTimes(o11)
  BY <1>0, <1>3, <1>5, <1>6 DEF EcTimes, s, c
<1>o12. EcTimes(o12)
  BY <1>0, <1>7 DEF EcTimes, s, c
<1>o13. EcTimes(o13) /\ EcTimes(o14)
  BY <1>0, <1>3, <1>5, <1>6, <1>7, <1>8, <1>9 DEF EcTimes, EC!HandedOver, s, c, ns, owned, aims
<1>o15. EcTimes(o15) /\ EcTimes(o16)
  BY <1>0, <1>6 DEF EcTimes, c
<1>o17. EcTimes(o17)
  BY <1>0, <1>7 DEF EcTimes, s, c
<1>s. e \in {o1, o2, o3, o4, o5, o6, o7, o8, o9, o10, o11, o12, o13, o14, o15, o16, o17}
  BY DEF EC!EditedOffices
<1> HIDE DEF o1, o2, o3, o4, o5, o6, o7, o8, o9, o10, o11, o12, o13, o14, o15, o16, o17
<1> QED  BY <1>s, <1>o1, <1>o4, <1>o6, <1>o9, <1>o10, <1>o11, <1>o12, <1>o13, <1>o15, <1>o17

LEMMA EcPlanningTimes ==
    ASSUME NEW r, DOMAIN r = EcFields, EcTimes(r), NEW e \in EC!EditedPlanning(r)
    PROVE  EcTimes(e)
<1>0. {"start", "end", "policy", "review", "baseline", "audit", "roles", "competence", "enpis", "plans", "monitoring",
       "controls", "context", "inventory", "correctives", "declared", "management", "objectives"} \subseteq DOMAIN r
  BY DEF EcFields
<1> DEFINE o1 == [r EXCEPT !.review.seus[2].energy = 15]
           o2 == [r EXCEPT !.review.seus[2].energy = 45]
           o3 == [r EXCEPT !.review.by = "carbon"]
           o4 == [r EXCEPT !.review.seus = Append(@, EC!Seu("lights", 10))]
           o5 == [r EXCEPT !.review.seus[1].meters = {"m-cranes", "m-yard"}]
           o6 == [r EXCEPT !.review.seus[2].id = "cranes"]
           o7 == [r EXCEPT !.baseline.frozen = 110]
           o8 == [r EXCEPT !.enpis[1].current = 12]
           o9 == [r EXCEPT !.enpis[1].at = 90]
           o10 == [r EXCEPT !.enpis[1].target = 9]
           o11 == [r EXCEPT !.objectives[1].due = 205]
           o12 == [r EXCEPT !.enpis = Append(@, EC!Enpi("share", "increase", 5, 6))]
           o13 == [r EXCEPT !.enpis = Append(@, EC!Enpi("teu", "increase", 11, 12))]
           o14 == [r EXCEPT !.objectives = Append(@, EC!Objective("o2", "teu", 11)), !.plans = Append(@, EC!Plan("p2", "o2"))]
           o15 == [r EXCEPT !.enpis = Append(@, EC!Enpi("share", "increase", 5, 4)), !.plans = Append(@, EC!Plan("p2", "o2")), !.objectives = Append(@, EC!Objective("o2", "share", 5))]
           o16 == [r EXCEPT !.objectives = Append(@, EC!Objective("o2", "teu", 11))]
<1> DEFINE s == r.enpis
           ps == r.plans
           os == r.objectives
<1>1. \A i \in DOMAIN s : EcHas(s[i], {"at"})
  BY DEF EcTimed, Listed, EcTimes
<1>2. /\ \A x : EcHas(x, {"at"}) => /\ EcHas([x EXCEPT !.at = 90], {"at"}) /\ EcHas([x EXCEPT !.current = 12], {"at"})
                                    /\ EcHas([x EXCEPT !.target = 9], {"at"}) /\ EcHas([x EXCEPT !.by = "carbon"], {"at"})
                                    /\ \A y : EcHas([x EXCEPT !.seus = y], {"at"})
      /\ \A a, b, c, d : EcHas(EC!Enpi(a, b, c, d), {"at"})
      /\ EcHas(EC!Plan("p2", "o2"), {"start", "due"}) /\ EcHas([r.baseline EXCEPT !.frozen = 110], {"frozen"})
  BY DEF EcHas, EC!Enpi, EC!Plan, EcTimes
<1> HIDE DEF s, ps, os
<1>4. EcTimed(s, {"at"}) /\ EcTimed(ps, {"start", "due"}) /\ EcTimed(os, {})
  BY DEF s, ps, os, EcTimes
<1>7. /\ EcTimed([os EXCEPT ![1] = [os[1] EXCEPT !.due = 205]], {})
      /\ EcTimed(Append(os, EC!Objective("o2", "teu", 11)), {})
      /\ EcTimed(Append(os, EC!Objective("o2", "share", 5)), {})
  <2>1. \A x : EcHas(x, {})
    BY DEF EcHas
  <2> QED  BY <1>4, <2>1, EcTimedPlaced, EcTimedAppended
<1>5. /\ EcTimed([s EXCEPT ![1] = [s[1] EXCEPT !.current = 12]], {"at"})
      /\ EcTimed([s EXCEPT ![1] = [s[1] EXCEPT !.at = 90]], {"at"})
      /\ EcTimed([s EXCEPT ![1] = [s[1] EXCEPT !.target = 9]], {"at"})
  BY <1>1, <1>2, <1>4, EcTimedPlaced
<1>6. /\ EcTimed(Append(s, EC!Enpi("share", "increase", 5, 6)), {"at"})
      /\ EcTimed(Append(s, EC!Enpi("teu", "increase", 11, 12)), {"at"})
      /\ EcTimed(Append(s, EC!Enpi("share", "increase", 5, 4)), {"at"})
      /\ EcTimed(Append(ps, EC!Plan("p2", "o2")), {"start", "due"})
  BY <1>2, <1>4, EcTimedAppended
<1>o1. EcTimes(o1) /\ EcTimes(o2) /\ EcTimes(o3) /\ EcTimes(o4) /\ EcTimes(o5) /\ EcTimes(o6)
  BY <1>0, <1>2 DEF EcTimes
<1>o7. EcTimes(o7)
  BY <1>0, <1>2 DEF EcTimes
<1>o8. EcTimes(o8) /\ EcTimes(o9) /\ EcTimes(o10)
  BY <1>0, <1>5 DEF EcTimes, s
<1>o11. EcTimes(o11)
  BY <1>0, <1>7 DEF EcTimes, os
<1>o12. EcTimes(o12) /\ EcTimes(o13)
  BY <1>0, <1>6 DEF EcTimes, s, ps
<1>o14. EcTimes(o14) /\ EcTimes(o15)
  BY <1>0, <1>6, <1>7 DEF EcTimes, s, ps, os
<1>o16. EcTimes(o16)
  BY <1>0, <1>7 DEF EcTimes, os
<1>s. e \in {o1, o2, o3, o4, o5, o6, o7, o8, o9, o10, o11, o12, o13, o14, o15, o16}
  BY DEF EC!EditedPlanning
<1> HIDE DEF o1, o2, o3, o4, o5, o6, o7, o8, o9, o10, o11, o12, o13, o14, o15, o16
<1> QED  BY <1>s, <1>o1, <1>o7, <1>o8, <1>o11, <1>o12, <1>o14, <1>o16

LEMMA EcDoingTimes ==
    ASSUME NEW r, DOMAIN r = EcFields, EcTimes(r), NEW e \in EC!EditedDoing(r)
    PROVE  EcTimes(e)
<1>0. {"start", "end", "policy", "review", "baseline", "audit", "roles", "competence", "enpis", "plans", "monitoring",
       "controls", "context", "inventory", "correctives", "declared", "management", "objectives"} \subseteq DOMAIN r
  BY DEF EcFields
<1> DEFINE o1 == [r EXCEPT !.plans[1].status = "in_progress"]
           o2 == [r EXCEPT !.plans[1].due = 201]
           o3 == [r EXCEPT !.plans[1].due = 170]
           o4 == [r EXCEPT !.plans[1].start = 99]
           o5 == [r EXCEPT !.plans = Append(@, [EC!Plan("p2", "o1") EXCEPT !.status = "cancelled"])]
           o6 == [r EXCEPT !.monitoring.meters = EC!ButLast(@)]
           o7 == [r EXCEPT !.monitoring.received = 48]
           o8 == [r EXCEPT !.monitoring.received = 51]
           o9 == [r EXCEPT !.controls[2].owner = "energy"]
           o10 == [r EXCEPT !.controls = Tail(@)]
           o11 == [r EXCEPT !.controls[1].seu = "reefer"]
<1> DEFINE ps == r.plans
           F == {"start", "due"}
           dropped == [EC!Plan("p2", "o1") EXCEPT !.status = "cancelled"]
<1>1. \A i \in DOMAIN ps : EcHas(ps[i], F)
  BY DEF EcTimed, Listed, EcTimes
<1>2. EcHas(dropped, F) /\ \A i \in DOMAIN ps :
          /\ EcHas([ps[i] EXCEPT !.status = "in_progress"], F)
          /\ EcHas([ps[i] EXCEPT !.due = 201], F)
          /\ EcHas([ps[i] EXCEPT !.due = 170], F)
          /\ EcHas([ps[i] EXCEPT !.start = 99], F)
  BY <1>1 DEF EcHas, EC!Plan
<1> HIDE DEF ps, F, dropped
<1>3. EcTimed(ps, F)
  BY DEF ps, F, EcTimes
<1>4. \A row : (1 \in DOMAIN ps => EcHas(row, F)) => EcTimed([ps EXCEPT ![1] = row], F)
  BY <1>3, EcTimedPlaced
<1>5. /\ EcTimed([ps EXCEPT ![1] = [ps[1] EXCEPT !.status = "in_progress"]], F)
      /\ EcTimed([ps EXCEPT ![1] = [ps[1] EXCEPT !.due = 201]], F)
      /\ EcTimed([ps EXCEPT ![1] = [ps[1] EXCEPT !.due = 170]], F)
      /\ EcTimed([ps EXCEPT ![1] = [ps[1] EXCEPT !.start = 99]], F)
  <2>1. 1 \in DOMAIN ps =>
          /\ EcHas([ps[1] EXCEPT !.status = "in_progress"], F)
          /\ EcHas([ps[1] EXCEPT !.due = 201], F)
          /\ EcHas([ps[1] EXCEPT !.due = 170], F)
          /\ EcHas([ps[1] EXCEPT !.start = 99], F)
    BY <1>2
  <2> QED  BY <1>4, <2>1
<1>6. EcTimed(Append(ps, dropped), F)
  BY <1>2, <1>3, EcTimedAppended
<1>o1. EcTimes(o1) /\ EcTimes(o2) /\ EcTimes(o3) /\ EcTimes(o4)
  BY <1>0, <1>5 DEF EcTimes, ps, F
<1>o5. EcTimes(o5)
  BY <1>0, <1>6 DEF EcTimes, ps, F, dropped
<1>o6. EcTimes(o6) /\ EcTimes(o7) /\ EcTimes(o8) /\ EcTimes(o9) /\ EcTimes(o10) /\ EcTimes(o11)
  BY <1>0 DEF EcTimes
<1>s. e \in {o1, o2, o3, o4, o5, o6, o7, o8, o9, o10, o11}
  BY DEF EC!EditedDoing
<1> HIDE DEF o1, o2, o3, o4, o5, o6, o7, o8, o9, o10, o11
<1> QED  BY <1>s, <1>o1, <1>o5, <1>o6

LEMMA EcCheckingTimes ==
    ASSUME NEW r, DOMAIN r = EcFields, EcTimes(r), NEW e \in EC!EditedChecking(r)
    PROVE  EcTimes(e)
<1>0. {"start", "end", "policy", "review", "baseline", "audit", "roles", "competence", "enpis", "plans", "monitoring",
       "controls", "context", "inventory", "correctives", "declared", "management", "objectives"} \subseteq DOMAIN r
  BY DEF EcFields
<1> DEFINE o1 == [r EXCEPT !.inventory.end = 190]
           o2 == [r EXCEPT !.inventory.reported = 6]
           o3 == [r EXCEPT !.inventory.expected = 6, !.inventory.reported = 6]
           o4 == [r EXCEPT !.audit.at = 190]
           o5 == [r EXCEPT !.audit.at = 226]
           o6 == [r EXCEPT !.audit.findings = <<>>]
           o7 == [r EXCEPT !.audit.findings = <<>>, !.audit.conclusion = "conforming", !.correctives = <<>>, !.declared = TRUE]
           o8 == [r EXCEPT !.audit.findings = <<"f1", "f2">>]
           o9 == [r EXCEPT !.audit.scope = {"ISO 50001:2018", "ISO 9001:2015"}]
           o10 == [r EXCEPT !.correctives[1].closed = <<>>]
           o11 == [r EXCEPT !.correctives[1].status = "open", !.correctives[1].closed = <<>>]
           o12 == [r EXCEPT !.correctives[1].effective = FALSE]
           o13 == [r EXCEPT !.correctives[1].closed = <<230>>]
           o14 == [r EXCEPT !.correctives = Append(@, [EC!Corrective("a2", "f1") EXCEPT !.status = "open"])]
           o15 == [r EXCEPT !.audit.findings = <<"f1", "f2">>, !.correctives = Append(@, EC!Corrective("a2", "f2"))]
           o16 == [r EXCEPT !.management.at = 215]
           o17 == [r EXCEPT !.management.at = 233]
           o18 == [r EXCEPT !.management.chair = "energy"]
           o19 == [r EXCEPT !.management.topics = @ \ {"resources"}]
<1>2. /\ EcHas([r.audit EXCEPT !.at = 190], {"at"}) /\ EcHas([r.audit EXCEPT !.at = 226], {"at"})
      /\ EcHas([r.audit EXCEPT !.findings = <<>>], {"at"}) /\ EcHas([r.audit EXCEPT !.findings = <<"f1", "f2">>], {"at"})
      /\ EcHas([r.audit EXCEPT !.scope = {"ISO 50001:2018", "ISO 9001:2015"}], {"at"})
      /\ EcHas([r.audit EXCEPT !.findings = <<>>, !.conclusion = "conforming"], {"at"})
  BY DEF EcHas, EcTimes
<1>o1. EcTimes(o1) /\ EcTimes(o2) /\ EcTimes(o3)
  BY <1>0 DEF EcTimes
<1>o4. EcTimes(o4) /\ EcTimes(o5)
  BY <1>0, <1>2 DEF EcTimes
<1>o6. EcTimes(o6) /\ EcTimes(o7)
  BY <1>0, <1>2 DEF EcTimes
<1>o8. EcTimes(o8) /\ EcTimes(o9)
  BY <1>0, <1>2 DEF EcTimes
<1>o10. EcTimes(o10) /\ EcTimes(o11) /\ EcTimes(o12) /\ EcTimes(o13) /\ EcTimes(o14)
  BY <1>0 DEF EcTimes
<1>o15. EcTimes(o15)
  BY <1>0, <1>2 DEF EcTimes
<1>o16. EcTimes(o16) /\ EcTimes(o17) /\ EcTimes(o18) /\ EcTimes(o19)
  BY <1>0 DEF EcTimes
<1>s. e \in {o1, o2, o3, o4, o5, o6, o7, o8, o9, o10, o11, o12, o13, o14, o15, o16, o17, o18, o19}
  BY DEF EC!EditedChecking
<1> HIDE DEF o1, o2, o3, o4, o5, o6, o7, o8, o9, o10, o11, o12, o13, o14, o15, o16, o17, o18, o19
<1> QED  BY <1>s, <1>o1, <1>o4, <1>o6, <1>o8, <1>o10, <1>o15, <1>o16

(* The dates stay dates.                                                   *)
LEMMA EcEditTimes ==
    ASSUME NEW r, DOMAIN r = EcFields, EcTimes(r), NEW e \in EC!Edited(r)
    PROVE  EcTimes(e)
<1>1. CASE e \in EC!EditedAssurance(r)
  <2>0. {"start", "end", "policy", "review", "baseline", "audit", "roles", "competence", "enpis", "plans", "objectives",
         "assurance"} \subseteq DOMAIN r
    BY DEF EcFields
  <2>1. /\ e.start = r.start /\ e.end = r.end /\ e.policy = r.policy /\ e.audit = r.audit /\ e.review = r.review
        /\ e.baseline = r.baseline /\ e.roles = r.roles /\ e.competence = r.competence /\ e.enpis = r.enpis
        /\ e.plans = r.plans /\ e.objectives = r.objectives
    BY <2>0, <1>1, ZenonT(60) DEF EC!EditedAssurance
  <2> QED  BY <2>1 DEF EcTimes
<1> QED  BY <1>1, EcOfficeTimes, EcPlanningTimes, EcDoingTimes, EcCheckingTimes DEF EC!Edited

LEMMA EcInitially ==
    ASSUME PackageEdits \in Nat, EC!Init PROVE EcInvariant
<1> DEFINE roles == [i \in DOMAIN EC!Offices |-> EC!Role(EC!Offices[i][1], EC!Offices[i][2])]
           enpis == <<EC!Enpi("teu", "decrease", 11, 10)>>
<1>1. /\ EC!Package.assurance = EC!Assurance /\ EC!Package.roles = roles /\ EC!Package.enpis = enpis
      /\ EC!Package.management = EC!ManagementReview
  BY DEF EC!Package
<1>8. DOMAIN EC!Package = EcFields /\ {"assurance", "start", "roles", "enpis", "management"} \subseteq EcFields
  BY DEF EC!Package, EcFields
<1>7. EcDated(EC!ManagementReview)
  BY DEF EcDated, EC!ManagementReview
<1>2. EC!Assurance.over = EC!None /\ "over" \in DOMAIN EC!Assurance
  BY DEF EC!Assurance
<1>3. EcRoles(roles)
  <2>1. DOMAIN EC!Offices = 1..5
    BY DEF EC!Offices
  <2>2. \A i \in 1..5 : EC!Offices[i][2] # "stranger"
    BY DEF EC!Offices
  <2>3. Listed(roles, 5)
    BY <2>1 DEF Listed
  <2>4. \A i \in 1..5 : EcRow(roles[i])
    BY <2>1, <2>2 DEF EcRow, EC!Role
  <2> QED  BY <2>3, <2>4 DEF EcRoles
<1>4. Listed(enpis, 1)
  BY DEF Listed
<1> HIDE DEF roles, enpis
<1>5. EcShape(EC!Package)
  BY <1>1, <1>2, <1>3, <1>4, <1>7, <1>8 DEF EcShape
<1>6. EcOver(EC!Package, EC!None)
  BY <1>1, <1>2 DEF EcOver
<1>9. EcTimes(EC!Package)
  <2> DEFINE p == EC!Package
  <2>1. /\ p.start = 100 /\ p.end = 200 /\ p.policy = EC!Policy /\ p.review = EC!EnergyReview
        /\ p.baseline = EC!Baseline /\ p.audit = EC!Audit /\ p.plans = <<EC!Plan("p1", "o1")>>
        /\ p.objectives = <<EC!Objective("o1", "teu", 11)>>
        /\ p.competence = [i \in DOMAIN EC!Offices |-> EC!Competence(EC!Offices[i][1], EC!Offices[i][2])]
    BY DEF EC!Package
  <2>2. DOMAIN EC!Offices = 1..5
    BY DEF EC!Offices
  <2>3. /\ EcHas(EC!Policy, {"approved", "effective", "communicated"}) /\ EcHas(EC!EnergyReview, {"at"})
        /\ EcHas(EC!Baseline, {"frozen"}) /\ EcHas(EC!Audit, {"at"})
    BY DEF EcHas, EC!Policy, EC!EnergyReview, EC!Baseline, EC!Audit
  <2>4. /\ \A x, y : EcHas(EC!Role(x, y), {"at"}) /\ EcHas(EC!Competence(x, y), {"at"}) /\ EcHas(EC!Plan(x, y), {"start", "due"})
        /\ \A a, b, c, d : EcHas(EC!Enpi(a, b, c, d), {"at"})
    BY DEF EcHas, EC!Role, EC!Competence, EC!Plan, EC!Enpi
  <2>5. /\ Listed(p.roles, 5) /\ Listed(p.competence, 5) /\ Listed(p.enpis, 1) /\ Listed(p.plans, 1)
        /\ Listed(p.objectives, 1)
    BY <1>1, <1>4, <2>1, <2>2 DEF Listed, roles, enpis
  <2>6. /\ \A i \in 1..5 : EcHas(p.roles[i], {"at"}) /\ EcHas(p.competence[i], {"at"})
        /\ \A i \in 1..1 : EcHas(p.enpis[i], {"at"}) /\ EcHas(p.plans[i], {"start", "due"})
    BY <1>1, <2>1, <2>2, <2>4 DEF roles, enpis
  <2> HIDE DEF p
  <2>7. EcTimed(p.roles, {"at"}) /\ EcTimed(p.competence, {"at"}) /\ EcTimed(p.enpis, {"at"}) /\ EcTimed(p.plans, {"start", "due"})
    BY <2>5, <2>6 DEF EcTimed
  <2>9. EcTimed(p.objectives, {})
    BY <2>5 DEF EcTimed, EcHas
  <2>8. EcTimes(p)
    BY <2>1, <2>3, <2>7, <2>9 DEF EcTimes
  <2> QED  BY <2>8 DEF p
<1> QED  BY <1>5, <1>6, <1>8, <1>9 DEF EC!Init, EcInvariant

(* The reviewer signs all fields of the package.                           *)
LEMMA EcSigned ==
    ASSUME NEW r, EcShape(r), r.assurance # EC!None, NEW key
    PROVE  LET s == EC!Signed(r, key)
           IN  /\ DOMAIN s = DOMAIN r /\ EcShape(s)
               /\ DOMAIN s.assurance.over = DOMAIN r
               /\ \A f \in DOMAIN r \ {"assurance"} : s.assurance.over[f] = r[f] /\ s[f] = r[f]
<1> DEFINE keyed == [r EXCEPT !.assurance.key = key]
           content == EC!Content(keyed)
           s == EC!Signed(r, key)
<1>1. /\ DOMAIN keyed = DOMAIN r /\ "assurance" \in DOMAIN r
      /\ \A f \in DOMAIN r \ {"assurance"} : keyed[f] = r[f]
      /\ DOMAIN keyed.assurance = DOMAIN r.assurance
  BY DEF EcShape
<1> HIDE DEF keyed
<1>2. DOMAIN content = DOMAIN r /\ \A f \in DOMAIN r \ {"assurance"} : content[f] = r[f]
  BY <1>1 DEF EC!Content
<1> HIDE DEF content
<1>3. s = [keyed EXCEPT !.assurance.over = content]
  BY DEF EC!Signed, keyed, content
<1> HIDE DEF s
<1>4. /\ DOMAIN s = DOMAIN r /\ \A f \in DOMAIN r \ {"assurance"} : s[f] = r[f]
      /\ DOMAIN s.assurance = DOMAIN r.assurance
      /\ s.assurance.over = content
  BY <1>1, <1>3 DEF EcShape
<1>5. s.roles = r.roles /\ s.enpis = r.enpis /\ s.management = r.management
  BY <1>4 DEF EcShape
<1> QED  BY <1>1, <1>2, <1>4, <1>5 DEF EcShape, s

LEMMA EcNext ==
    ASSUME PackageEdits \in Nat, EcInvariant, EC!Next \/ UNCHANGED <<request, report, edits, vouched>>
    PROVE  EcInvariant'
<1>1. CASE EC!Edit
  <2>1. PICK r \in EC!Edited(request) : request' = r
    BY <1>1 DEF EC!Edit
  <2>2. DOMAIN request' = DOMAIN request /\ EcShape(request') /\ EcOver(request', vouched)
    BY <2>1, EcEdits DEF EcInvariant
  <2>3. /\ report' = EC!DefaultReport /\ vouched' = vouched /\ edits' \in 0..PackageEdits
    BY <1>1 DEF EC!Edit, EcInvariant
  <2>4. EcTimes(request')
    BY <2>1, EcEditTimes DEF EcInvariant
  <2> QED  BY <2>2, <2>3, <2>4 DEF EcInvariant, EcShape, EcOver
<1>2. CASE EC!Sign
  <2>1. PICK key : request' = EC!Signed(request, key)
    BY <1>2 DEF EC!Sign
  <2>2. /\ request.assurance # EC!None /\ vouched' = [f \in DOMAIN request \ {"assurance"} |-> request[f]]
        /\ report' = EC!DefaultReport /\ edits' = edits
    BY <1>2 DEF EC!Sign
  <2> DEFINE s == EC!Signed(request, key)
  <2>3. /\ DOMAIN s = DOMAIN request /\ EcShape(s)
        /\ DOMAIN s.assurance.over = DOMAIN request
        /\ \A f \in DOMAIN request \ {"assurance"} : s.assurance.over[f] = request[f] /\ s[f] = request[f]
    BY <2>2, EcSigned DEF EcInvariant
  <2> HIDE DEF s
  <2>4. request' = s
    BY <2>1 DEF s
  <2> DEFINE content == [f \in DOMAIN request \ {"assurance"} |-> request[f]]
  <2>5. content # EC!None
    <3>1. "start" \in DOMAIN content /\ "start" \notin DOMAIN EC!None
      BY DEF EcInvariant, EcShape, EC!None
    <3> QED  BY <3>1
  <2>6. EcOver(s, content)
    BY <2>3, <2>5 DEF EcOver
  <2>7. EcTimes(s)
    <3>1. \A f \in EcFields \ {"assurance"} : s[f] = request[f]
      BY <2>3 DEF EcInvariant
    <3>2. /\ s.start = request.start /\ s.end = request.end /\ s.policy = request.policy /\ s.audit = request.audit
          /\ s.review = request.review /\ s.baseline = request.baseline /\ s.roles = request.roles
          /\ s.competence = request.competence /\ s.enpis = request.enpis /\ s.plans = request.plans
          /\ s.objectives = request.objectives
      BY <3>1 DEF EcFields
    <3> QED  BY <3>2 DEF EcInvariant, EcTimes
  <2> QED  BY <2>2, <2>3, <2>4, <2>6, <2>7 DEF EcInvariant, EcShape, EcOver
<1>3. CASE EC!Evaluate
  BY <1>3 DEF EC!Evaluate, EcInvariant, EcShape, EcOver
<1>4. CASE UNCHANGED <<request, report, edits, vouched>>
  BY <1>4 DEF EcInvariant, EcTimes, EcShape, EcOver
<1> QED  BY <1>1, <1>2, <1>3, <1>4 DEF EC!Next

(* Who holds an office, by a list of appointments.                         *)
EcOf(s, role) == {x.person : x \in {y \in EC!Range(s) : y.role = role}}

LEMMA EcHolder ==
    ASSUME NEW r, EcRoles(r.roles), EC!EachRoleOnce(r.roles), NEW role \in EC!Roles
    PROVE  EcOf(r.roles, role) = {EC!Holder(r, role)} /\ EC!Holder(r, role) # "stranger"
<1> DEFINE s == r.roles
           of == {i \in DOMAIN s : s[i].role = role}
<1>1. PICK n \in Nat : Listed(s, n) /\ \A i \in 1..n : EcRow(s[i])
  BY DEF EcRoles
<1>2. DOMAIN s = 1..n
  BY <1>1 DEF Listed
<1>3. /\ {x.role : x \in EC!Range(s)} = EC!Roles
      /\ \A i, j \in 1..n : s[i].role = s[j].role => i = j
  BY <1>2 DEF EC!EachRoleOnce, EC!Distinct
<1>4. EC!Range(s) = {s[i] : i \in 1..n}
  BY <1>2 DEF EC!Range
<1>5. PICK i \in 1..n : s[i].role = role
  BY <1>3, <1>4
<1>6. of = {i}
  BY <1>2, <1>3, <1>5
<1>7. EC!Max({i}) = i
  BY DEF EC!Max
<1>8. EC!Holder(r, role) = LET last == IF of = {} THEN EC!None ELSE s[EC!Max(of)]
                           IN  IF last = EC!None THEN "nobody" ELSE last.person
  BY DEF EC!Holder, EC!LastWith
<1>9. s[i] # EC!None
  <2>1. "role" \in DOMAIN s[i] /\ "role" \notin DOMAIN EC!None
    BY <1>1 DEF EC!None, EcRow
  <2> QED  BY <2>1
<1>10. EC!Holder(r, role) = s[i].person
  BY <1>6, <1>7, <1>8, <1>9
<1> HIDE DEF of
<1>11. EcOf(s, role) = {s[i].person}
  BY <1>3, <1>4, <1>5 DEF EcOf
<1> QED  BY <1>1, <1>10, <1>11 DEF EcRow

LEMMA EcApart ==
    ASSUME EcInvariant, EC!Ready, report = EC!Report(request),
           EC!PolicyReady(request), EC!RolesReady(request), EC!EnergyReviewReady(request),
           EC!BaselineReady(request), EC!MonitoringReady(request), EC!CompetenceReady(request),
           EC!AuditReady(request), EC!ManagementReady(request),
           EC!Passed => EC!AssuranceReady(request)
    PROVE  EC!OfficesApart
<1> DEFINE of(role) == EcOf(request.roles, role)
           holder(role) == EC!Holder(request, role)
<1>1. EcRoles(request.roles) /\ EC!EachRoleOnce(request.roles)
  BY DEF EcInvariant, EcShape, EC!RolesReady
<1>2. \A role \in EC!Roles : of(role) = {holder(role)}
  BY <1>1, EcHolder
<1> DEFINE able(role) == {c.person : c \in {y \in EC!Range(request.competence) : y.role = role}}
<1>3. ASSUME NEW role \in EC!Roles
      PROVE  able(role) = {holder(role)}
  <2>1. /\ {c.role : c \in EC!Range(request.competence)} = EC!Roles
        /\ \A c \in EC!Range(request.competence) : c.person = EC!Holder(request, c.role)
    BY DEF EC!CompetenceReady, EC!EachRoleOnce
  <2> QED  BY <2>1
<1>4. ASSUME NEW role \in EC!Roles, role # "internal_auditor"
      PROVE  request.audit.by # holder(role)
  BY <1>4 DEF EC!RolesReady, EC!AuditReady
<1>5. ASSUME EC!Passed, NEW role \in EC!Roles
      PROVE  request.assurance.by # holder(role)
  <2>1. request.assurance.by \notin {holder(x.role) : x \in EC!Range(request.roles)}
    BY <1>5 DEF EC!AssuranceReady
  <2>2. {x.role : x \in EC!Range(request.roles)} = EC!Roles
    BY <1>1 DEF EC!EachRoleOnce
  <2> HIDE DEF holder
  <2> QED  BY <2>1, <2>2
<1>6. {request.review.by, request.baseline.by, request.monitoring.by} = {holder("energy_manager")}
  BY DEF EC!EnergyReviewReady, EC!BaselineReady, EC!MonitoringReady
<1>7. {request.policy.by, request.context.by, request.management.chair} = {holder("top_management")}
  BY DEF EC!PolicyReady, EC!RolesReady, EC!ManagementReady
<1>8. "energy_manager" \in EC!Roles /\ "top_management" \in EC!Roles
  BY DEF EC!Roles
<1>9. \A x : EC!Cardinality({x}) = 1
  <2>1. \A S : EC!Cardinality(S) = Cardinality(S)
    BY DEF EC!Cardinality, Cardinality
  <2> QED  BY <2>1, FS_Singleton
<1>10. /\ \A role \in EC!Roles :
            /\ EC!Cardinality(of(role)) = 1
            /\ able(role) = of(role)
            /\ role # "internal_auditor" => request.audit.by \notin of(role)
            /\ EC!Passed => request.assurance.by \notin of(role)
       /\ {request.review.by, request.baseline.by, request.monitoring.by} = of("energy_manager")
       /\ {request.policy.by, request.context.by, request.management.chair} = of("top_management")
  <2> HIDE DEF of, holder, able
  <2>1. ASSUME NEW role \in EC!Roles
        PROVE  /\ EC!Cardinality(of(role)) = 1
               /\ able(role) = of(role)
               /\ role # "internal_auditor" => request.audit.by \notin of(role)
               /\ EC!Passed => request.assurance.by \notin of(role)
    <3>1. of(role) = {holder(role)} /\ able(role) = {holder(role)}
      BY <1>2, <1>3
    <3>2. /\ role # "internal_auditor" => request.audit.by # holder(role)
          /\ EC!Passed => request.assurance.by # holder(role)
      BY <1>4, <1>5
    <3>3. EC!Cardinality(of(role)) = 1
      BY <1>9, <3>1
    <3> QED  BY <3>1, <3>2, <3>3
  <2>2. of("energy_manager") = {holder("energy_manager")} /\ of("top_management") = {holder("top_management")}
    BY <1>2, <1>8
  <2> QED  BY <1>6, <1>7, <2>1, <2>2
<1> QED  BY <1>10 DEF EC!OfficesApart, EcOf

LEMMA EcSound ==
    ASSUME EcInvariant
    PROVE  EC!TypeOK /\ EC!CycleAsReviewed /\ EC!OfficesApart
<1>0. PICK n \in Nat : Listed(request.enpis, n)
  BY DEF EcInvariant, EcShape
<1>1. Len(request.enpis) = n
  BY <1>0, ListedSeq
<1>2. CASE report = EC!DefaultReport
  <2>1. /\ report.status = "blocked" /\ report.onTarget = 0 /\ report.total = 0
    BY <1>2 DEF EC!DefaultReport
  <2> QED  BY <1>1, <2>1 DEF EC!TypeOK, EC!CycleAsReviewed, EC!OfficesApart, EC!Ready, EC!Passed, EcInvariant
<1>3. CASE report = EC!Report(request)
  <2> DEFINE gates == EC!Gates(request)
             passed == {g \in DOMAIN gates : gates[g]}
             ready == DOMAIN gates \ {"independent_assurance"} \subseteq passed
             all == passed = DOMAIN gates
  <2>1. all => ready
    OBVIOUS
  <2>2. ready => /\ EC!PolicyReady(request) /\ EC!RolesReady(request) /\ EC!EnergyReviewReady(request)
                 /\ EC!BaselineReady(request) /\ EC!MonitoringReady(request) /\ EC!CompetenceReady(request)
                 /\ EC!AuditReady(request) /\ EC!ManagementReady(request)
    BY DEF EC!Gates
  <2>3. all => EC!AssuranceReady(request)
    BY DEF EC!Gates
  <2>4. /\ report.status = IF all THEN "evidence_package_passed"
                           ELSE IF ready THEN "management_cycle_ready_pending_independent_assurance" ELSE "blocked"
        /\ report.passed = passed
        /\ report.onTarget = EC!OnTarget(request) /\ report.total = Len(request.objectives)
    BY <1>3 DEF EC!Report
  <2> HIDE DEF passed, ready, all
  <2>5. EC!OnTarget(request) \in 0..n
    <3> DEFINE T == {i \in DOMAIN request.enpis :
                       LET e == request.enpis[i]
                       IN  IF e.direction = "decrease" THEN e.current <= e.target ELSE e.current >= e.target}
    <3>1. T \subseteq 1..n
      BY <1>0 DEF Listed
    <3>2. EC!OnTarget(request) = Cardinality(T)
      BY DEF EC!OnTarget, EC!Cardinality, Cardinality
    <3> HIDE DEF T
    <3>3. IsFiniteSet(1..n) /\ Cardinality(1..n) = n
      BY FS_Interval
    <3>4. IsFiniteSet(T) /\ Cardinality(T) <= n
      BY <3>1, <3>3, FS_Subset
    <3>5. Cardinality(T) \in Nat
      BY <3>4, FS_CardinalityType
    <3> QED  BY <3>2, <3>4, <3>5
  <2>6. EC!TypeOK
    BY <1>1, <2>4, <2>5 DEF EC!TypeOK, EcInvariant, all
  <2>7. EC!CycleAsReviewed
    <3> SUFFICES ASSUME EC!Passed
                 PROVE  vouched # EC!None /\ \A f \in DOMAIN vouched : vouched[f] = request[f]
      BY DEF EC!CycleAsReviewed
    <3>1. EC!SignatureValid(request)
      BY <2>3, <2>4 DEF EC!Passed, EC!AssuranceReady
    <3>2. request.assurance # EC!None /\ request.assurance.over = EC!Content(request)
      BY <3>1 DEF EC!SignatureValid
    <3>3. /\ DOMAIN EC!Content(request) = DOMAIN request
          /\ \A f \in DOMAIN request \ {"assurance"} : EC!Content(request)[f] = request[f]
      BY DEF EC!Content
    <3>4. "start" \in DOMAIN request /\ "start" \notin DOMAIN EC!None
      BY DEF EcInvariant, EcShape, EC!None
    <3>5. EC!Content(request) # EC!None
      BY <3>3, <3>4
    <3> QED  BY <3>2, <3>3, <3>4, <3>5 DEF EcInvariant, EcOver
  <2>8. EC!OfficesApart
    <3>1. EC!Ready => ready
      BY <2>1, <2>4 DEF EC!Ready, EC!Passed
    <3>2. EC!Passed => EC!AssuranceReady(request)
      BY <2>3, <2>4 DEF EC!Passed
    <3>3. CASE EC!Ready
      BY <1>3, <2>2, <3>1, <3>2, <3>3, EcApart
    <3>4. CASE ~EC!Ready
      BY <3>4 DEF EC!OfficesApart
    <3> QED  BY <3>3, <3>4
  <2> QED  BY <2>6, <2>7, <2>8
<1> QED  BY <1>2, <1>3 DEF EcInvariant

(* The gates of the cycle do not read the review of the package.           *)
LEMMA EcUnmoved ==
    ASSUME NEW r, NEW b, \A f \in {"start", "end", "context", "policy", "roles", "review", "baseline", "enpis",
               "objectives", "plans", "monitoring", "controls", "competence", "inventory", "audit", "correctives",
               "declared", "management"} : b[f] = r[f]
    PROVE  \A g \in DOMAIN EC!Gates(r) \ {"independent_assurance"} : EC!Gates(b)[g] = EC!Gates(r)[g]
<1>1. /\ b.start = r.start /\ b.end = r.end /\ b.context = r.context /\ b.policy = r.policy /\ b.roles = r.roles
      /\ b.review = r.review /\ b.baseline = r.baseline /\ b.enpis = r.enpis /\ b.objectives = r.objectives
      /\ b.plans = r.plans /\ b.monitoring = r.monitoring /\ b.controls = r.controls
      /\ b.competence = r.competence /\ b.inventory = r.inventory /\ b.audit = r.audit
      /\ b.correctives = r.correctives /\ b.declared = r.declared /\ b.management = r.management
  OBVIOUS
<1>2. \A role : EC!Holder(b, role) = EC!Holder(r, role)
  BY <1>1, Zenon DEF EC!Holder
<1>3. EC!ContextReady(b) = EC!ContextReady(r) /\ EC!PolicyReady(b) = EC!PolicyReady(r)
  BY <1>1 DEF EC!ContextReady, EC!PolicyReady
<1>4. EC!RolesReady(b) = EC!RolesReady(r)
  BY <1>1, <1>2 DEF EC!RolesReady
<1>5. EC!SeuEnergy(b) = EC!SeuEnergy(r)
  BY <1>1 DEF EC!SeuEnergy
<1>6. EC!EnergyReviewReady(b) = EC!EnergyReviewReady(r)
  BY <1>1, <1>2, <1>5 DEF EC!EnergyReviewReady
<1>7. EC!BaselineReady(b) = EC!BaselineReady(r)
  BY <1>1, <1>2 DEF EC!BaselineReady
<1>8. EC!ObjectivesReady(b) = EC!ObjectivesReady(r)
  <2>1. \A o : EC!EnpiOf(b, o) = EC!EnpiOf(r, o)
    BY <1>1, Zenon DEF EC!EnpiOf
  <2> QED  BY <1>1, <1>2, <2>1 DEF EC!ObjectivesReady
<1>9. EC!PlansReady(b) = EC!PlansReady(r)
  BY <1>1 DEF EC!PlansReady
<1>10. EC!MonitoringReady(b) = EC!MonitoringReady(r)
  BY <1>1, <1>2 DEF EC!MonitoringReady
<1>11. EC!ControlsReady(b) = EC!ControlsReady(r)
  BY <1>1, <1>2 DEF EC!ControlsReady
<1>12. EC!CompetenceReady(b) = EC!CompetenceReady(r)
  BY <1>1, <1>2 DEF EC!CompetenceReady
<1>13. EC!InventoryReady(b) = EC!InventoryReady(r) /\ EC!AuditReady(b) = EC!AuditReady(r)
  BY <1>1, <1>2 DEF EC!InventoryReady, EC!AuditReady
<1>14. EC!CorrectivesReady(b) = EC!CorrectivesReady(r)
  BY <1>1 DEF EC!CorrectivesReady
<1>15. EC!LatestClose(b) = EC!LatestClose(r)
  BY <1>1 DEF EC!LatestClose
<1>16. EC!ManagementReady(b) = EC!ManagementReady(r)
  BY <1>1, <1>2, <1>15 DEF EC!ManagementReady
<1> QED  BY <1>3, <1>4, <1>6, <1>7, <1>8, <1>9, <1>10, <1>11, <1>12, <1>13, <1>14, <1>16 DEF EC!Gates

(* A stranger's review after the management's is all that a pending cycle  *)
(* waits for.                                                              *)
LEMMA EcPending ==
    ASSUME EcInvariant, "k1" \in Trusted
    PROVE  EC!PendingNeedsOnlyReviewer
<1> DEFINE r == request
           stranger == [EC!Assurance EXCEPT !.by = "stranger", !.at = r.management.at]
           reviewed == [r EXCEPT !.assurance = stranger]
           b == EC!Signed(reviewed, "k1")
           ready == \A g \in DOMAIN EC!Gates(r) \ {"independent_assurance"} : EC!Gates(r)[g]
<1> SUFFICES ASSUME ready
             PROVE  EC!Report(b).status = "evidence_package_passed"
  BY DEF EC!PendingNeedsOnlyReviewer, EC!Report, EC!DefaultReport, EcInvariant
<1>1. /\ DOMAIN stranger = {"by", "independent", "at", "conclusion", "key", "over"}
      /\ stranger.by = "stranger" /\ stranger.at = r.management.at /\ stranger.independent
      /\ stranger.conclusion = "accepted" /\ stranger.over = EC!None
  BY DEF EC!Assurance
<1>2. DOMAIN r = EcFields /\ "assurance" \in DOMAIN r
  BY DEF EcInvariant, EcShape, EcFields
<1> HIDE DEF stranger, ready
<1>3. /\ DOMAIN reviewed = DOMAIN r /\ reviewed.assurance = stranger
      /\ \A f \in DOMAIN r \ {"assurance"} : reviewed[f] = r[f]
  BY <1>2
<1> DEFINE signed == [stranger EXCEPT !.key = "k1"]
           keyed == [r EXCEPT !.assurance = signed]
           content == EC!Content(keyed)
<1>4. [reviewed EXCEPT !.assurance.key = "k1"] = keyed
  BY <1>2
<1>5. b = [keyed EXCEPT !.assurance.over = content]
  BY <1>4 DEF EC!Signed
<1>6. signed # EC!None /\ signed.over = EC!None /\ signed = [signed EXCEPT !.over = EC!None]
  BY <1>1 DEF EC!None
<1>7. content = keyed
  BY <1>2, <1>6 DEF EC!Content
<1> DEFINE seal == [signed EXCEPT !.over = keyed]
<1>8. b = [r EXCEPT !.assurance = seal]
  BY <1>2, <1>5, <1>7
<1>9. /\ seal # EC!None /\ seal.key = "k1" /\ seal.over = keyed /\ [seal EXCEPT !.over = EC!None] = signed
      /\ seal.by = "stranger" /\ seal.at = r.management.at /\ seal.independent /\ seal.conclusion = "accepted"
  BY <1>1, <1>6 DEF EC!None
<1> HIDE DEF seal, signed
<1>10. EC!Content([r EXCEPT !.assurance = seal]) = keyed
  BY <1>2, <1>9 DEF EC!Content
<1> HIDE DEF keyed, content, reviewed, b
<1>11. b.assurance = seal /\ \A f \in EcFields \ {"assurance"} : b[f] = r[f]
  BY <1>2, <1>8
<1>12. EC!SignatureValid(b)
  BY <1>8, <1>9, <1>10, <1>11 DEF EC!SignatureValid
<1>13. \A g \in DOMAIN EC!Gates(r) \ {"independent_assurance"} : EC!Gates(b)[g]
  <2>1. \A f \in {"start", "end", "context", "policy", "roles", "review", "baseline", "enpis",
               "objectives", "plans", "monitoring", "controls", "competence", "inventory", "audit", "correctives",
               "declared", "management"} : b[f] = r[f]
    BY <1>11 DEF EcFields
  <2>2. \A g \in DOMAIN EC!Gates(r) \ {"independent_assurance"} : EC!Gates(b)[g] = EC!Gates(r)[g]
    BY <2>1, EcUnmoved
  <2> QED  BY <2>2 DEF ready
<1>14. EC!AssuranceReady(b)
  <2>1. EC!RolesReady(r)
    <3>1. "roles_and_responsibilities" \in DOMAIN EC!Gates(r) \ {"independent_assurance"}
      BY DEF EC!Gates
    <3>2. EC!Gates(r)["roles_and_responsibilities"]
      BY <3>1 DEF ready
    <3> QED  BY <3>2 DEF EC!Gates
  <2>2. EC!EachRoleOnce(r.roles) /\ EcRoles(r.roles)
    BY <2>1 DEF EC!RolesReady, EcInvariant, EcShape
  <2>3. \A role \in EC!Roles : EC!Holder(r, role) # "stranger"
    BY <2>2, EcHolder
  <2>4. \A x \in EC!Range(r.roles) : x.role \in EC!Roles
    BY <2>2 DEF EC!EachRoleOnce
  <2>5. b.roles = r.roles /\ b.management = r.management
    BY <1>11 DEF EcFields
  <2>6. \A role : EC!Holder(b, role) = EC!Holder(r, role)
    BY <2>5, Zenon DEF EC!Holder
  <2>7. "stranger" \notin {EC!Holder(b, x.role) : x \in EC!Range(b.roles)}
    BY <2>3, <2>4, <2>5, <2>6
  <2>8. r.management.at <= r.management.at
    BY DEF EcInvariant, EcShape, EcDated
  <2> QED  BY <1>9, <1>11, <1>12, <2>5, <2>7, <2>8 DEF EC!AssuranceReady
<1>15. DOMAIN EC!Gates(b) = DOMAIN EC!Gates(r) /\ EC!Gates(b).independent_assurance = EC!AssuranceReady(b)
  BY Zenon DEF EC!Gates
<1>16. \A g \in DOMAIN EC!Gates(b) : EC!Gates(b)[g]
  BY <1>13, <1>14, <1>15
<1> HIDE DEF b
<1> QED  BY <1>16, Zenon DEF EC!Report

(* A cycle that is ready was planned before it began, carried out while it *)
(* ran, audited after it and reviewed after the audit.                     *)
LEMMA EcOrder ==
    ASSUME EcInvariant PROVE EC!PlanDoCheckAct
<1> DEFINE r == request
           planned == {r.policy.approved, r.policy.communicated, r.review.at, r.baseline.frozen}
                       \cup {x.at : x \in EC!Range(r.roles)} \cup {c.at : c \in EC!Range(r.competence)}
           done == {e.at : e \in EC!Range(r.enpis)} \cup {p.due : p \in EC!Range(r.plans)}
                    \cup {p.start : p \in EC!Range(r.plans)}
<1> SUFFICES ASSUME EC!Ready
             PROVE  /\ \A d \in done : (\A p \in planned : p <= d) /\ d <= r.audit.at
                    /\ r.audit.at <= r.management.at
                    /\ EC!Passed => r.management.at <= r.assurance.at
  BY DEF EC!PlanDoCheckAct
<1>1. report = EC!Report(r)
  BY DEF EcInvariant, EC!DefaultReport, EC!Ready, EC!Passed
<1> DEFINE gates == EC!Gates(r)
           passed == {g \in DOMAIN gates : gates[g]}
           ready == DOMAIN gates \ {"independent_assurance"} \subseteq passed
<1>2. /\ report.status = IF passed = DOMAIN gates THEN "evidence_package_passed"
                         ELSE IF ready THEN "management_cycle_ready_pending_independent_assurance" ELSE "blocked"
  BY <1>1 DEF EC!Report
<1>3. ready /\ (EC!Passed => passed = DOMAIN gates)
  <2>1. passed = DOMAIN gates => ready
    OBVIOUS
  <2> HIDE DEF ready, passed
  <2> QED  BY <1>2, <2>1 DEF EC!Ready, EC!Passed
<1>4. /\ EC!PolicyReady(r) /\ EC!RolesReady(r) /\ EC!EnergyReviewReady(r)
      /\ EC!BaselineReady(r) /\ EC!ObjectivesReady(r) /\ EC!PlansReady(r) /\ EC!CompetenceReady(r)
      /\ EC!AuditReady(r) /\ EC!ManagementReady(r)
  BY <1>3 DEF EC!Gates
<1>5. EC!Passed => EC!AssuranceReady(r)
  BY <1>3 DEF EC!Gates
<1> HIDE DEF ready, passed, gates
<1>6. EcTimes(r)
  BY DEF EcInvariant
<1>7. \A F, s : EcTimed(s, F) => \A x \in EC!Range(s) : EcHas(x, F)
  BY DEF EcTimed, Listed, EC!Range
<1>8. ASSUME NEW p \in planned PROVE p \in Int /\ p <= r.start
  <2>1. /\ r.policy.approved \in Int /\ r.policy.approved <= r.start
        /\ r.policy.communicated \in Int /\ r.policy.communicated <= r.start
        /\ r.review.at \in Int /\ r.review.at <= r.start
        /\ r.baseline.frozen \in Int /\ r.baseline.frozen <= r.start
    <3>1. /\ r.policy.approved \in Int /\ r.policy.effective \in Int /\ r.policy.communicated \in Int
          /\ r.review.at \in Int /\ r.baseline.frozen \in Int /\ r.start \in Int
      BY <1>6 DEF EcTimes, EcHas
    <3>2. /\ r.policy.approved <= r.policy.effective /\ r.policy.effective <= r.start
          /\ r.policy.communicated <= r.start /\ r.review.at <= r.start /\ r.baseline.frozen <= r.start
      BY <1>4 DEF EC!PolicyReady, EC!EnergyReviewReady, EC!BaselineReady
    <3> QED  BY <3>1, <3>2
  <2>2. \A x \in EC!Range(r.roles) : x.at \in Int /\ x.at <= r.start
    BY <1>4, <1>6, <1>7 DEF EcTimes, EcHas, EC!RolesReady
  <2>3. \A c \in EC!Range(r.competence) : c.at \in Int /\ c.at <= r.start
    BY <1>4, <1>6, <1>7 DEF EcTimes, EcHas, EC!CompetenceReady
  <2> QED  BY <2>1, <2>2, <2>3
<1>9. ASSUME NEW d \in done PROVE d \in Int /\ r.start <= d /\ d <= r.end
  <2>1. \A e \in EC!Range(r.enpis) : e.at \in Int /\ r.start <= e.at /\ e.at <= r.end
    BY <1>4, <1>6, <1>7 DEF EcTimes, EcHas, EC!ObjectivesReady
  <2>2. ASSUME NEW p \in EC!Range(r.plans)
        PROVE  /\ p.start \in Int /\ r.start <= p.start /\ p.start <= r.end
               /\ p.due \in Int /\ r.start <= p.due /\ p.due <= r.end
    <3>1. p.start \in Int /\ p.due \in Int /\ r.start \in Int /\ r.end \in Int
      BY <1>6, <1>7 DEF EcTimes, EcHas
    <3>2. r.start <= p.start /\ p.start <= p.due /\ p.due <= r.end
      BY <1>4 DEF EC!PlansReady
    <3> QED  BY <3>1, <3>2
  <2> QED  BY <2>1, <2>2
<1> HIDE DEF planned, done
<1>10. /\ r.start \in Int /\ r.end \in Int /\ r.audit.at \in Int
       /\ r.end <= r.audit.at /\ r.audit.at <= r.management.at
       /\ EC!Passed => r.management.at <= r.assurance.at
  BY <1>4, <1>5, <1>6 DEF EcTimes, EcHas, EC!AuditReady, EC!ManagementReady, EC!AssuranceReady
<1>11. ASSUME NEW d \in done PROVE (\A p \in planned : p <= d) /\ d <= r.audit.at
  BY <1>8, <1>9, <1>10
<1> QED  BY <1>10, <1>11

(* The indicators are as many as their names, each of which an objective     *)
(* has: when as many are on target as there are objectives, all are.         *)
EcMet(e) == IF e.direction = "decrease" THEN e.current <= e.target ELSE e.current >= e.target

LEMMA EcCounted ==
    ASSUME NEW r, EcTimes(r), EC!ObjectivesReady(r)
    PROVE  /\ EC!OnTarget(r) <= Len(r.objectives)
           /\ EC!OnTarget(r) = Len(r.objectives) => \A i \in DOMAIN r.enpis : EcMet(r.enpis[i])
<1> DEFINE es == r.enpis
           os == r.objectives
           S == {i \in DOMAIN es : EcMet(es[i])}
<1>1. PICK n \in Nat : Listed(es, n)
  BY DEF EcTimes, EcTimed
<1>2. PICK m \in Nat : Listed(os, m)
  BY DEF EcTimes, EcTimed
<1>3. DOMAIN es = 1..n /\ DOMAIN os = 1..m /\ Len(os) = m
  BY <1>1, <1>2, ListedSeq DEF Listed
<1> DEFINE f == [i \in 1..n |-> es[i].id]
           g == [j \in 1..m |-> os[j].enpi]
           F == {f[i] : i \in 1..n}
           G == {g[j] : j \in 1..m}
<1>4. F = G
  <2>1. {o.enpi : o \in EC!Range(os)} = EC!Ids(es)
    BY DEF EC!ObjectivesReady
  <2>2. EC!Ids(es) = {es[i].id : i \in 1..n}
    BY <1>3 DEF EC!Ids
  <2>3. EC!Range(os) = {os[j] : j \in 1..m}
    BY <1>3 DEF EC!Range
  <2>4. F = {es[i].id : i \in 1..n} /\ G = {os[j].enpi : j \in 1..m}
    OBVIOUS
  <2>5. {o.enpi : o \in {os[j] : j \in 1..m}} = {os[j].enpi : j \in 1..m}
    OBVIOUS
  <2> HIDE DEF F, G
  <2> QED  BY <2>1, <2>2, <2>3, <2>4, <2>5
<1>5. Cardinality(F) = n
  <2>1. \A i, j \in 1..n : es[i].id = es[j].id => i = j
    BY <1>3 DEF EC!ObjectivesReady, EC!UniqueIds, EC!Distinct
  <2>2. f = [i \in 1..n |-> f[i]] /\ \A i, j \in 1..n : f[i] = f[j] => i = j
    BY <2>1
  <2> HIDE DEF f
  <2> QED  BY <2>2, CountedOnce DEF F
<1>6. Cardinality(G) <= m
  <2>1. g = [j \in 1..m |-> g[j]]
    OBVIOUS
  <2> HIDE DEF g
  <2> QED  BY <2>1, Counted DEF G
<1> HIDE DEF F, G
<1>7. n <= m
  BY <1>4, <1>5, <1>6
<1>8. EC!OnTarget(r) = Cardinality(S)
  <2>1. EC!OnTarget(r) = EC!Cardinality(S)
    BY DEF EC!OnTarget, EcMet
  <2>2. EC!Cardinality(S) = Cardinality(S)
    BY DEF EC!Cardinality, Cardinality
  <2> QED  BY <2>1, <2>2
<1>9. S \in SUBSET (1..n)
  BY <1>3
<1>10. IsFiniteSet(1..n) /\ Cardinality(1..n) = n
  BY FS_Interval
<1>12. \A i \in S : EcMet(es[i])
  OBVIOUS
<1> HIDE DEF S, es, os
<1>13. IsFiniteSet(S) /\ Cardinality(S) <= n /\ (n = Cardinality(S) => S = 1..n)
  BY <1>9, <1>10, FS_Subset
<1>14. Cardinality(S) \in Nat
  BY <1>13, FS_CardinalityType
<1>15. Cardinality(S) <= m /\ (Cardinality(S) = m => S = 1..n)
  BY <1>7, <1>13, <1>14
<1> QED  BY <1>3, <1>8, <1>12, <1>15 DEF es, os

(* The indicator that an objective is judged by is the one of its name.      *)
LEMMA EcAimed ==
    ASSUME NEW r, EcTimes(r), EC!ObjectivesReady(r), NEW o \in EC!Range(r.objectives)
    PROVE  \E i \in DOMAIN r.enpis : r.enpis[i].id = o.enpi /\ r.enpis[i].target = o.target
<1> DEFINE es == r.enpis
           of == {i \in DOMAIN es : es[i].id = o.enpi}
<1>1. PICK n \in Nat : Listed(es, n)
  BY DEF EcTimes, EcTimed
<1>2. DOMAIN es = 1..n
  BY <1>1 DEF Listed
<1>3. EC!EnpiOf(r, o) = IF of = {} THEN EC!None ELSE es[EC!Max(of)]
  BY DEF EC!EnpiOf, EC!LastWith
<1>4. EC!EnpiOf(r, o) # EC!None /\ o.target = EC!EnpiOf(r, o).target
  BY DEF EC!ObjectivesReady
<1>5. PICK i \in of : TRUE
  BY <1>3, <1>4
<1>6. \A j, k \in 1..n : es[j].id = es[k].id => j = k
  BY <1>2 DEF EC!ObjectivesReady, EC!UniqueIds, EC!Distinct
<1>7. of = {i}
  BY <1>2, <1>5, <1>6
<1>8. EC!Max({i}) = i
  <2>1. i \in Int
    BY <1>2, <1>5
  <2> QED  BY <2>1 DEF EC!Max
<1>9. EC!EnpiOf(r, o) = es[i]
  BY <1>3, <1>7, <1>8
<1> QED  BY <1>4, <1>5, <1>9

LEMMA EcClosed ==
    ASSUME EcInvariant PROVE EC!CycleIsClosed
<1> DEFINE r == request
<1> SUFFICES ASSUME EC!Ready PROVE EC!CycleIsClosed
  BY DEF EC!CycleIsClosed
<1>1. report = EC!Report(r)
  BY DEF EcInvariant, EC!DefaultReport, EC!Ready, EC!Passed
<1> DEFINE gates == EC!Gates(r)
           passed == {g \in DOMAIN gates : gates[g]}
           ready == DOMAIN gates \ {"independent_assurance"} \subseteq passed
<1>2. /\ report.status = IF passed = DOMAIN gates THEN "evidence_package_passed"
                         ELSE IF ready THEN "management_cycle_ready_pending_independent_assurance" ELSE "blocked"
      /\ report.onTarget = EC!OnTarget(r) /\ report.total = Len(r.objectives)
  BY <1>1 DEF EC!Report
<1>3. ready
  <2>1. passed = DOMAIN gates => ready
    OBVIOUS
  <2> HIDE DEF ready, passed
  <2> QED  BY <1>2, <2>1 DEF EC!Ready, EC!Passed
<1>4. /\ EC!ObjectivesReady(r) /\ EC!PlansReady(r) /\ EC!MonitoringReady(r) /\ EC!ControlsReady(r)
      /\ EC!CorrectivesReady(r)
  BY <1>3 DEF EC!Gates
<1> HIDE DEF ready, passed, gates
<1>5. EcTimes(r)
  BY DEF EcInvariant
<1>6. ASSUME NEW u \in EC!Range(r.review.seus)
      PROVE  /\ \A m \in u.meters : \E i \in DOMAIN r.monitoring.meters : r.monitoring.meters[i] = m
             /\ \A c \in u.controls : \E i \in DOMAIN r.controls : r.controls[i].id = c
  <2>1. ASSUME NEW m \in u.meters PROVE \E i \in DOMAIN r.monitoring.meters : r.monitoring.meters[i] = m
    <3>1. m \in UNION {x.meters : x \in EC!Range(r.review.seus)}
      OBVIOUS
    <3>2. m \in EC!Range(r.monitoring.meters)
      BY <1>4, <3>1 DEF EC!MonitoringReady
    <3> QED  BY <3>2 DEF EC!Range
  <2>2. ASSUME NEW c \in u.controls PROVE \E i \in DOMAIN r.controls : r.controls[i].id = c
    <3>1. c \in UNION {x.controls : x \in EC!Range(r.review.seus)}
      OBVIOUS
    <3>2. c \in EC!Ids(r.controls)
      BY <1>4, <3>1 DEF EC!ControlsReady
    <3> QED  BY <3>2 DEF EC!Ids
  <2> QED  BY <2>1, <2>2
<1>7. ASSUME NEW o \in EC!Range(r.objectives)
      PROVE  /\ \E p \in EC!Range(r.plans) : p.objective = o.id /\ p.status = "completed"
             /\ ~ \E p \in EC!Range(r.plans) : p.objective = o.id /\ p.status # "completed"
  <2>1. \A p \in EC!Range(r.plans) : p.status = "completed"
    BY <1>4 DEF EC!PlansReady
  <2>2. o.id \in EC!Ids(r.objectives)
    BY DEF EC!Ids, EC!Range
  <2>3. o.id \in {p.objective : p \in EC!Range(r.plans)}
    BY <1>4, <2>2 DEF EC!PlansReady
  <2>4. PICK p \in EC!Range(r.plans) : p.objective = o.id
    BY <2>3
  <2> QED  BY <2>1, <2>4
<1>8. ASSUME NEW o \in EC!Range(r.objectives), report.onTarget = report.total
      PROVE  \E e \in EC!Range(r.enpis) :
                e.id = o.enpi /\ IF e.direction = "decrease" THEN e.current <= o.target ELSE e.current >= o.target
  <2>1. PICK i \in DOMAIN r.enpis : r.enpis[i].id = o.enpi /\ r.enpis[i].target = o.target
    BY <1>4, <1>5, EcAimed
  <2>2. EcMet(r.enpis[i])
    BY <1>2, <1>4, <1>5, <1>8, EcCounted
  <2>3. r.enpis[i] \in EC!Range(r.enpis)
    BY DEF EC!Range
  <2> QED  BY <2>1, <2>2, <2>3 DEF EcMet
<1>9. ASSUME NEW i \in DOMAIN r.audit.findings, NEW c \in EC!Range(r.correctives), c.finding = r.audit.findings[i]
      PROVE  c.status = "closed" /\ c.closed # <<>> /\ c.closed[1] <= r.management.at
  <2>1. r.audit.findings # <<>>
    <3>1. DOMAIN <<>> = {}
      OBVIOUS
    <3> QED  BY <3>1
  <2> QED  BY <1>4, <2>1 DEF EC!CorrectivesReady
<1>10. report.onTarget <= report.total
  BY <1>2, <1>4, <1>5, EcCounted
<1> QED  BY <1>6, <1>7, <1>8, <1>9, <1>10 DEF EC!CycleIsClosed

-----------------------------------------------------------------------------
(* The evaluators of one deployment.                                       *)

SiteInvariant ==
    /\ part = "carbon" => CaInvariant
    /\ part = "cutover" => ScInvariant
    /\ part = "collaboration" => PcInvariant
    /\ part = "planning" => OpInvariant
    /\ part = "network" => EnInvariant
    /\ part = "settlement" => CsInvariant
    /\ part = "qualification" => ApInvariant
    /\ part = "verification" => MvInvariant
    /\ part = "cycle" => EcInvariant
    /\ part = "safeguards" => EsInvariant

LEMMA SiteInitially ==
    ASSUME Init PROVE SiteInvariant
<1>1. CASE part = "carbon" /\ CA!Init
  BY <1>1, EditsAssumption, CaInitially DEF SiteInvariant
<1>2. CASE part = "cutover" /\ SC!Init
  BY <1>2, EditsAssumption, ScInitially DEF SiteInvariant
<1>3. CASE part = "collaboration" /\ PC!Init
  BY <1>3, EditsAssumption, PcInitially DEF SiteInvariant
<1>4. CASE part = "planning" /\ OP!Init
  BY <1>4, EditsAssumption, OpInitially DEF SiteInvariant
<1>5. CASE part = "network" /\ EN!Init
  BY <1>5, EditsAssumption, EnInitially DEF SiteInvariant
<1>6. CASE part = "settlement" /\ CS!Init
  BY <1>6, EditsAssumption, CsInitially DEF SiteInvariant
<1>7. CASE part = "qualification" /\ AP!Init
  BY <1>7, EditsAssumption, ApInitially DEF SiteInvariant
<1>8. CASE part = "verification" /\ MV!Init
  BY <1>8, EditsAssumption, MvInitially DEF SiteInvariant
<1>9. CASE part = "cycle" /\ EC!Init
  BY <1>9, EditsAssumption, EcInitially DEF SiteInvariant
<1>10. CASE part = "safeguards" /\ ES!Init
  BY <1>10, EditsAssumption, EsInitially DEF SiteInvariant
<1> QED  BY <1>1, <1>2, <1>3, <1>4, <1>5, <1>6, <1>7, <1>8, <1>9, <1>10 DEF Init

LEMMA SiteNext ==
    ASSUME SiteInvariant, [Next]_vars PROVE SiteInvariant'
<1>1. CASE CarbonStep
  <2>1. part = "carbon" /\ part' = "carbon" /\ CA!Next
    BY <1>1 DEF CarbonStep
  <2>2. CaInvariant
    BY <2>1 DEF SiteInvariant
  <2>3. CaInvariant'
    BY <2>1, <2>2, EditsAssumption, CaNext
  <2> QED  BY <2>1, <2>3 DEF SiteInvariant
<1>2. CASE CutoverStep
  <2>1. part = "cutover" /\ part' = "cutover" /\ SC!Next
    BY <1>2 DEF CutoverStep
  <2>2. ScInvariant
    BY <2>1 DEF SiteInvariant
  <2>3. ScInvariant'
    BY <2>1, <2>2, EditsAssumption, ScNext
  <2> QED  BY <2>1, <2>3 DEF SiteInvariant
<1>3. CASE CollaborationStep
  <2>1. part = "collaboration" /\ part' = "collaboration" /\ PC!Next
    BY <1>3 DEF CollaborationStep
  <2>2. PcInvariant
    BY <2>1 DEF SiteInvariant
  <2>3. PcInvariant'
    BY <2>1, <2>2, EditsAssumption, PcNext
  <2> QED  BY <2>1, <2>3 DEF SiteInvariant
<1>4. CASE PlanningStep
  <2>1. part = "planning" /\ part' = "planning" /\ OP!Next
    BY <1>4 DEF PlanningStep
  <2>2. OpInvariant
    BY <2>1 DEF SiteInvariant
  <2>3. OpInvariant'
    BY <2>1, <2>2, EditsAssumption, OpNext
  <2> QED  BY <2>1, <2>3 DEF SiteInvariant
<1>5. CASE NetworkStep
  <2>1. part = "network" /\ part' = "network" /\ EN!Next
    BY <1>5 DEF NetworkStep
  <2>2. EnInvariant
    BY <2>1 DEF SiteInvariant
  <2>3. EnInvariant'
    BY <2>1, <2>2, EditsAssumption, EnNext
  <2> QED  BY <2>1, <2>3 DEF SiteInvariant
<1>6. CASE SettlementStep
  <2>1. part = "settlement" /\ part' = "settlement" /\ CS!Next
    BY <1>6 DEF SettlementStep
  <2>2. CsInvariant
    BY <2>1 DEF SiteInvariant
  <2>3. CsInvariant'
    BY <2>1, <2>2, EditsAssumption, CsNext
  <2> QED  BY <2>1, <2>3 DEF SiteInvariant
<1>7. CASE QualificationStep
  <2>1. part = "qualification" /\ part' = "qualification" /\ AP!Next
    BY <1>7 DEF QualificationStep
  <2>2. ApInvariant
    BY <2>1 DEF SiteInvariant
  <2>3. ApInvariant'
    BY <2>1, <2>2, EditsAssumption, ApNext
  <2> QED  BY <2>1, <2>3 DEF SiteInvariant
<1>8. CASE VerificationStep
  <2>1. part = "verification" /\ part' = "verification" /\ MV!Next
    BY <1>8 DEF VerificationStep
  <2>2. MvInvariant
    BY <2>1 DEF SiteInvariant
  <2>3. MvInvariant'
    BY <2>1, <2>2, EditsAssumption, MvNext
  <2> QED  BY <2>1, <2>3 DEF SiteInvariant
<1>9. CASE CycleStep
  <2>1. part = "cycle" /\ part' = "cycle" /\ EC!Next
    BY <1>9 DEF CycleStep
  <2>2. EcInvariant
    BY <2>1 DEF SiteInvariant
  <2>3. EcInvariant'
    BY <2>1, <2>2, EditsAssumption, EcNext
  <2> QED  BY <2>1, <2>3 DEF SiteInvariant
<1>10. CASE SafeguardsStep
  <2>1. part = "safeguards" /\ part' = "safeguards" /\ ES!Next
    BY <1>10 DEF SafeguardsStep
  <2>2. EsInvariant
    BY <2>1 DEF SiteInvariant
  <2>3. EsInvariant'
    BY <2>1, <2>2, EditsAssumption, EsNext
  <2> QED  BY <2>1, <2>3 DEF SiteInvariant
<1>11. CASE UNCHANGED vars
  <2>0. part' = part /\ UNCHANGED <<request, report, edits, vouched>>
    BY <1>11 DEF vars
  <2>1. ASSUME part = "carbon" PROVE CaInvariant'
    <3>1. CaInvariant
      BY <2>1 DEF SiteInvariant
    <3> QED  BY <2>0, <3>1, EditsAssumption, CaNext
  <2>2. ASSUME part = "cutover" PROVE ScInvariant'
    <3>1. ScInvariant
      BY <2>2 DEF SiteInvariant
    <3> QED  BY <2>0, <3>1, EditsAssumption, ScNext
  <2>3. ASSUME part = "collaboration" PROVE PcInvariant'
    <3>1. PcInvariant
      BY <2>3 DEF SiteInvariant
    <3> QED  BY <2>0, <3>1, EditsAssumption, PcNext
  <2>4. ASSUME part = "planning" PROVE OpInvariant'
    <3>1. OpInvariant
      BY <2>4 DEF SiteInvariant
    <3> QED  BY <2>0, <3>1, EditsAssumption, OpNext
  <2>5. ASSUME part = "network" PROVE EnInvariant'
    <3>1. EnInvariant
      BY <2>5 DEF SiteInvariant
    <3> QED  BY <2>0, <3>1, EditsAssumption, EnNext
  <2>6. ASSUME part = "settlement" PROVE CsInvariant'
    <3>1. CsInvariant
      BY <2>6 DEF SiteInvariant
    <3> QED  BY <2>0, <3>1, EditsAssumption, CsNext
  <2>7. ASSUME part = "qualification" PROVE ApInvariant'
    <3>1. ApInvariant
      BY <2>7 DEF SiteInvariant
    <3> QED  BY <2>0, <3>1, EditsAssumption, ApNext
  <2>8. ASSUME part = "verification" PROVE MvInvariant'
    <3>1. MvInvariant
      BY <2>8 DEF SiteInvariant
    <3> QED  BY <2>0, <3>1, EditsAssumption, MvNext
  <2>9. ASSUME part = "cycle" PROVE EcInvariant'
    <3>1. EcInvariant
      BY <2>9 DEF SiteInvariant
    <3> QED  BY <2>0, <3>1, EditsAssumption, EcNext
  <2>10. ASSUME part = "safeguards" PROVE EsInvariant'
    <3>1. EsInvariant
      BY <2>10 DEF SiteInvariant
    <3> QED  BY <2>0, <3>1, EditsAssumption, EsNext
  <2> QED  BY <2>0, <2>1, <2>2, <2>3, <2>4, <2>5, <2>6, <2>7, <2>8, <2>9, <2>10 DEF SiteInvariant
<1> QED  BY <1>1, <1>2, <1>3, <1>4, <1>5, <1>6, <1>7, <1>8, <1>9, <1>10, <1>11 DEF Next

(* Whatever is prepared, edited, signed and evaluated in whatever order, the *)
(* invariants of the ten services hold: what a signature is over was vouched *)
(* for by its owner, and a report is of the package that is there or none.   *)
THEOREM SiteInvariantHolds == Spec => []SiteInvariant
<1>1. Init => SiteInvariant
  BY SiteInitially
<1>2. SiteInvariant /\ [Next]_vars => SiteInvariant'
  BY SiteNext
<1> QED  BY <1>1, <1>2, PTL DEF Spec

(* The packages and reports of the ten evaluators are well formed: counts    *)
(* are within the lists they count, figures are answered with the status     *)
(* that has them only, and a passed report names all of its gates.           *)
THEOREM SiteTypes == Spec => []TypeOK
<1>1. SiteInvariant => TypeOK
  <2> SUFFICES ASSUME SiteInvariant PROVE TypeOK
    OBVIOUS
  <2>1. ASSUME part = "carbon" PROVE CA!TypeOK
    BY <2>1, CaSound DEF SiteInvariant
  <2>2. ASSUME part = "cutover" PROVE SC!TypeOK
    BY <2>2, ScSound DEF SiteInvariant
  <2>3. ASSUME part = "collaboration" PROVE PC!TypeOK
    BY <2>3, PcSound DEF SiteInvariant
  <2>4. ASSUME part = "planning" PROVE OP!TypeOK
    BY <2>4, OpSound DEF SiteInvariant
  <2>5. ASSUME part = "network" PROVE EN!TypeOK
    BY <2>5, EnSound DEF SiteInvariant
  <2>6. ASSUME part = "settlement" PROVE CS!TypeOK
    BY <2>6, CsSound DEF SiteInvariant
  <2>7. ASSUME part = "qualification" PROVE AP!TypeOK
    BY <2>7, ApSound DEF SiteInvariant
  <2>8. ASSUME part = "verification" PROVE MV!TypeOK
    BY <2>8, MvSound DEF SiteInvariant
  <2>9. ASSUME part = "cycle" PROVE EC!TypeOK
    BY <2>9, EcSound DEF SiteInvariant
  <2>10. ASSUME part = "safeguards" PROVE ES!TypeOK
    BY <2>10, EsSound DEF SiteInvariant
  <2> QED  BY <2>1, <2>2, <2>3, <2>4, <2>5, <2>6, <2>7, <2>8, <2>9, <2>10 DEF TypeOK
<1> QED  BY <1>1, SiteInvariantHolds, PTL

(* What an evaluator passes is what its signers had before them: the gates   *)
(* that compare digests (_verified_sources, _signature_valid) leave nothing  *)
(* that was edited after its owner signed it, although each signs a part of  *)
(* the package only, and the package can be edited between any two of them.  *)
(* The votes of a cutover, which nobody signs, are not among it.             *)
THEOREM SitePassesAsSigned == Spec => []PassesAsSigned
<1>1. SiteInvariant => PassesAsSigned
  <2> SUFFICES ASSUME SiteInvariant PROVE PassesAsSigned
    OBVIOUS
  <2>1. ASSUME part = "carbon" PROVE CA!PassedAsSigned
    BY <2>1, CaSound DEF SiteInvariant
  <2>2. ASSUME part = "cutover" PROVE SC!JudgedAsSigned
    BY <2>2, ScSound DEF SiteInvariant
  <2>3. ASSUME part = "collaboration" PROVE PC!CollaborationAsSigned
    BY <2>3, PcSound DEF SiteInvariant
  <2>4. ASSUME part = "planning" PROVE OP!PlannedAsSigned
    BY <2>4, OpSound DEF SiteInvariant
  <2>5. ASSUME part = "network" PROVE EN!AssessedAsSigned
    BY <2>5, EnSound DEF SiteInvariant
  <2>6. ASSUME part = "settlement" PROVE CS!SettledAsSigned
    BY <2>6, CsSound DEF SiteInvariant
  <2>7. ASSUME part = "qualification" PROVE AP!QualifiedAsSigned
    BY <2>7, ApSound DEF SiteInvariant
  <2>8. ASSUME part = "verification" PROVE MV!VerifiedAsReviewed
    BY <2>8, MvSound DEF SiteInvariant
  <2>9. ASSUME part = "cycle" PROVE EC!CycleAsReviewed
    BY <2>9, EcSound DEF SiteInvariant
  <2>10. ASSUME part = "safeguards" PROVE ES!SecuredAsSigned
    BY <2>10, EsSound DEF SiteInvariant
  <2> QED  BY <2>1, <2>2, <2>3, <2>4, <2>5, <2>6, <2>7, <2>8, <2>9, <2>10 DEF PassesAsSigned
<1> QED  BY <1>1, SiteInvariantHolds, PTL

(* The separation of duties that the gates ask for is had by whatever they   *)
(* pass: as many people and keys hold offices as must be apart, and nobody   *)
(* reviews what is his own.                                                  *)
THEOREM SiteDutiesApart == Spec => []DutiesApart
<1>1. SiteInvariant => DutiesApart
  <2> SUFFICES ASSUME SiteInvariant PROVE DutiesApart
    OBVIOUS
  <2>1. ASSUME part = "carbon" PROVE CA!FiveOffices
    BY <2>1, CaSound DEF SiteInvariant
  <2>2. ASSUME part = "cutover" PROVE SC!KeyPerAuthority
    BY <2>2, ScSound DEF SiteInvariant
  <2>6. ASSUME part = "settlement" PROVE CS!TwoApprovers
    BY <2>6, CsSound DEF SiteInvariant
  <2>8. ASSUME part = "verification" PROVE MV!ReviewerIsAStranger
    BY <2>8, MvSound DEF SiteInvariant
  <2>9. ASSUME part = "cycle" PROVE EC!OfficesApart
    BY <2>9, EcSound DEF SiteInvariant
  <2>10. ASSUME part = "safeguards" PROVE ES!ThreeOwnersApprove
    BY <2>10, EsSound DEF SiteInvariant
  <2> QED  BY <2>1, <2>2, <2>6, <2>8, <2>9, <2>10 DEF DutiesApart
<1> QED  BY <1>1, SiteInvariantHolds, PTL

(* A package that is answered as pending lacks its trust only: whatever gate *)
(* of its own business failed would have made it blocked, whenever it was    *)
(* edited, so that sources (an attester, a reviewer) that sign it just now   *)
(* with a trusted key make it pass.                                          *)
THEOREM SitePendingLacksOnlyTrust == Spec => []PendingLacksOnlyTrust
<1>1. SiteInvariant => PendingLacksOnlyTrust
  <2> SUFFICES ASSUME SiteInvariant PROVE PendingLacksOnlyTrust
    OBVIOUS
  <2>1. ASSUME part = "carbon" PROVE CA!PendingNeedsOnlyAttester
    BY <2>1, CaPending, TrustAssumption DEF SiteInvariant
  <2>2. ASSUME part = "cutover" PROVE SC!PendingNeedsOnlyKeys
    BY <2>2, ScPending, TrustAssumption DEF SiteInvariant
  <2>3. ASSUME part = "collaboration" PROVE PC!PendingNeedsOnlySources
    BY <2>3, PcPending, TrustAssumption DEF SiteInvariant
  <2>4. ASSUME part = "planning" PROVE OP!BlockedNeedsOnlySources
    BY <2>4, OpPending, TrustAssumption DEF SiteInvariant
  <2>5. ASSUME part = "network" PROVE EN!BlockedNeedsOnlySources
    BY <2>5, EnPending, TrustAssumption DEF SiteInvariant
  <2>6. ASSUME part = "settlement" PROVE CS!PendingNeedsOnlySources
    BY <2>6, CsPending, TrustAssumption DEF SiteInvariant
  <2>7. ASSUME part = "qualification" PROVE AP!BlockedNeedsOnlySources
    BY <2>7, ApPending, TrustAssumption DEF SiteInvariant
  <2>8. ASSUME part = "verification" PROVE MV!PendingNeedsOnlyReviewer
    BY <2>8, MvPending, TrustAssumption DEF SiteInvariant
  <2>9. ASSUME part = "cycle" PROVE EC!PendingNeedsOnlyReviewer
    BY <2>9, EcPending, TrustAssumption DEF SiteInvariant
  <2>10. ASSUME part = "safeguards" PROVE ES!PendingNeedsOnlySources
    BY <2>10, EsPending, TrustAssumption DEF SiteInvariant
  <2> QED  BY <2>1, <2>2, <2>3, <2>4, <2>5, <2>6, <2>7, <2>8, <2>9, <2>10 DEF PendingLacksOnlyTrust
<1> QED  BY <1>1, SiteInvariantHolds, PTL

(* What is compared is compared the right way round: the gates of the cutover *)
(* and of the safeguards still pass with better figures, the ranks of the    *)
(* berths follow their scores, and the cycle is planned, done, checked and   *)
(* reviewed in this order.  The queue of chargers and the abatement curve,   *)
(* which are sums over lists, are left to the runs.                          *)
THEOREM SiteOrderIsKept == Spec => [](part \notin {"network", "settlement"} => OrderIsKept)
<1>1. SiteInvariant => (part \notin {"network", "settlement"} => OrderIsKept)
  <2> SUFFICES ASSUME SiteInvariant, part \notin {"network", "settlement"} PROVE OrderIsKept
    OBVIOUS
  <2>2. ASSUME part = "cutover" PROVE SC!OnePicture /\ SC!BetterNeverBlocks
    BY <2>2, ScOrder DEF SiteInvariant
  <2>3. ASSUME part = "collaboration" PROVE PC!RanksAreFair
    BY <2>3, PcOrder DEF SiteInvariant
  <2>9. ASSUME part = "cycle" PROVE EC!PlanDoCheckAct
    BY <2>9, EcOrder DEF SiteInvariant
  <2>10. ASSUME part = "safeguards" PROVE ES!BetterNeverBlocks
    BY <2>10, EsOrder DEF SiteInvariant
  <2> QED  BY <2>2, <2>3, <2>9, <2>10 DEF OrderIsKept
<1> QED  BY <1>1, SiteInvariantHolds, PTL

(* A cycle is closed: each use of energy is metered and controlled, each     *)
(* objective has finished plans, each finding was closed in time, and a      *)
(* report of all on target, which counts indicators, says so of each         *)
(* objective.  Safeguards keep organizations apart: as many keys as there    *)
(* are organizations.  The other kinds of package agree in sums over lists,  *)
(* which are left to the runs.                                               *)
THEOREM SiteFiguresAgree == Spec => [](part \in {"cycle", "safeguards"} => FiguresAgree)
<1>1. SiteInvariant => (part \in {"cycle", "safeguards"} => FiguresAgree)
  <2> SUFFICES ASSUME SiteInvariant, part \in {"cycle", "safeguards"} PROVE FiguresAgree
    OBVIOUS
  <2>9. ASSUME part = "cycle" PROVE EC!CycleIsClosed
    BY <2>9, EcClosed DEF SiteInvariant
  <2>10. ASSUME part = "safeguards" PROVE ES!TenantsApart
    BY <2>10, EsKeyed DEF SiteInvariant
  <2> QED  BY <2>9, <2>10 DEF FiguresAgree
<1> QED  BY <1>1, SiteInvariantHolds, PTL

=============================================================================
