-------------------------- MODULE AuditChainProofs --------------------------
(***************************************************************************)
(* Proofs about AuditChain, for any requests, any earlier events without a *)
(* hash and any faults.                                                    *)
(*                                                                         *)
(* That the log verifies is not inductive: what an append has read must    *)
(* still be the last hash when it writes.  LogInvariant says so of the     *)
(* lock's holder, and says it of each line even when others are broken.    *)
(***************************************************************************)
EXTENDS AuditChain, SequenceTheorems, FiniteSetTheorems, TLAPS

Texts == Seq(Requests \cup Legacy)
Hashes == {"genesis", "legacy", "event"} \X Texts

(* No request is called "none", and the log that the release before left is*)
(* finite.                                                                 *)
LogAssumptions == "none" \notin Requests /\ IsFiniteSet(Legacy)

LogTypes == TypeOK /\ previous \in [Requests -> Hashes]

(* The hash that line i of a log continues.                                *)
Before(lines, i) == IF i = 1 THEN Genesis ELSE HashOf(lines[i - 1])

(* What verify_audit_chain() asks of a line, of those that parse.          *)
Chained(lines) ==
    \A i \in DOMAIN lines :
        /\ lines[i].kind = "legacy" => \A k \in 1..(i - 1) : lines[k].kind = "legacy"
        /\ lines[i].kind = "event" => lines[i].previous = Before(lines, i)

(* Who reads or writes the log holds the lock, and what it read is so.     *)
HolderReads ==
    \A r \in Requests :
        /\ at[r] \in {"locked", "chained"} => lock = r
        /\ at[r] = "chained" => previous[r] = PreviousHash

(* An answered request has its event, or there is a line that is broken.   *)
AnsweredHold ==
    \A r \in Requests : at[r] = "answered" =>
        \E i \in DOMAIN file : file[i].kind = "broken"
                               \/ (file[i].kind = "event" /\ file[i].text = <<r>>)

(* Every event is that of one request, which is done with.                 *)
EventsAreDone ==
    \A i \in DOMAIN file : file[i].kind = "event" =>
        /\ \E r \in Requests : file[i].text = <<r>> /\ at[r] \in {"answered", "lost"}
        /\ \A k \in DOMAIN file : file[k].kind = "event" /\ file[k].text = file[i].text => k = i

LogInvariant == LogTypes /\ Chained(file) /\ HolderReads /\ AnsweredHold /\ EventsAreDone

-----------------------------------------------------------------------------
(* The last line of a log is one of its lines.                             *)
LEMMA LastLine ==
    ASSUME NEW lines \in Seq(Line), lines # <<>>
    PROVE  /\ Len(lines) \in Nat \ {0} /\ DOMAIN lines = 1..Len(lines)
           /\ Last(lines) = lines[Len(lines)] /\ Last(lines) \in Line
<1>1. Len(lines) \in Nat \ {0} /\ DOMAIN lines = 1..Len(lines)
  BY EmptySeq, LenProperties
<1>2. lines[Len(lines)] \in Line
  BY <1>1, ElementOfSeq
<1> QED  BY <1>1, <1>2 DEF Last

(* A log without its last line.                                            *)
LEMMA FrontLines ==
    ASSUME NEW lines \in Seq(Line), lines # <<>>
    PROVE  /\ Front(lines) \in Seq(Line) /\ Len(Front(lines)) = Len(lines) - 1
           /\ \A i \in 1..(Len(lines) - 1) : Front(lines)[i] = lines[i]
<1> DEFINE n == Len(lines) - 1
<1>1. n \in Nat /\ \A i \in 1..n : lines[i] \in Line
  BY LastLine, ElementOfSeq
<1>2. Front(lines) = SubSeq(lines, 1, n)
  BY DEF Front
<1> HIDE DEF n
<1>3. /\ SubSeq(lines, 1, n) \in Seq(Line) /\ Len(SubSeq(lines, 1, n)) = n
      /\ \A i \in 1..n : SubSeq(lines, 1, n)[i] = lines[i]
  BY <1>1, SubSeqProperties
<1> QED  BY <1>2, <1>3 DEF n

(* A line put at the end of a log.                                         *)
LEMMA AppendedLine ==
    ASSUME NEW lines \in Seq(Line), NEW line \in Line
    PROVE  /\ Append(lines, line) \in Seq(Line)
           /\ DOMAIN lines = 1..Len(lines) /\ Len(lines) \in Nat
           /\ DOMAIN Append(lines, line) = 1..(Len(lines) + 1)
           /\ \A i \in 1..Len(lines) : Append(lines, line)[i] = lines[i]
           /\ Append(lines, line)[Len(lines) + 1] = line
  BY AppendProperties, LenProperties

(* A hash is one.                                                          *)
LEMMA HashType ==
    ASSUME NEW line \in Line
    PROVE  HashOf(line) \in Hashes
  BY DEF Line, HashOf, Hashes, Texts

LEMMA PreviousHashType ==
    ASSUME file \in Seq(Line)
    PROVE  PreviousHash \in Hashes
<1>1. Genesis \in Hashes
  BY EmptySeq DEF Genesis, Hashes, Texts
<1> QED  BY <1>1, LastLine, HashType DEF PreviousHash

(* Every log that may be there at the start.                               *)
LEMMA InitialLog ==
    ASSUME Init, LogAssumptions
    PROVE  LogInvariant
<1>1. PICK S \in SUBSET Legacy : \E names \in SetToSeqs(S) :
          file = [i \in DOMAIN names |-> Unhashed(names[i])]
  BY DEF Init, SetToAllKPermutations
<1>2. PICK names \in SetToSeqs(S) : file = [i \in DOMAIN names |-> Unhashed(names[i])]
  BY <1>1
<1> DEFINE n == Cardinality(S)
<1>3. n \in Nat
  BY FS_Subset, FS_CardinalityType DEF LogAssumptions
<1>4. names \in [1..n -> S]
  BY DEF SetToSeqs
<1> HIDE DEF n
<1>5. \A i \in 1..n : Unhashed(names[i]) \in Line /\ Unhashed(names[i]).kind = "legacy"
  <2>1. Genesis \in Hashes
    BY EmptySeq DEF Genesis, Hashes, Texts
  <2>2. ASSUME NEW i \in 1..n  PROVE <<names[i]>> \in Texts
    BY <1>4 DEF Texts
  <2> QED  BY <2>1, <2>2 DEF Unhashed, Line, Hashes, Texts
<1>6. file \in Seq(Line) /\ DOMAIN file = 1..n /\ \A i \in 1..n : file[i].kind = "legacy"
  <2>1. file = [i \in 1..n |-> Unhashed(names[i])]
    BY <1>2, <1>4
  <2>2. file \in [1..n -> Line]
    BY <1>5, <2>1
  <2> QED  BY <1>3, <1>5, <2>1, <2>2, SeqDef
<1>7. LogTypes
  BY <1>6, EmptySeq DEF Init, LogTypes, TypeOK, Places, Genesis, Hashes, Texts
<1>8. Chained(file) /\ HolderReads /\ AnsweredHold /\ EventsAreDone
  BY <1>3, <1>6 DEF Init, Chained, HolderReads, AnsweredHold, EventsAreDone
<1> QED  BY <1>7, <1>8 DEF LogInvariant

-----------------------------------------------------------------------------
(* The log of m lines after r has written: the first n as they were, then  *)
(* r's event, or what is broken, in the place of a last line without end.  *)
Continues(log, m, n, r) ==
    /\ n + 1 = m \/ n = m
    /\ log \in Seq(Line) /\ DOMAIN log = 1..(n + 1)
    /\ \A i \in 1..n : log[i] = file[i]
    /\ \/ log[n + 1].kind = "broken"
       \/ /\ n = m /\ log[n + 1].kind = "event"
          /\ log[n + 1].text = <<r>> /\ log[n + 1].previous = previous[r]

(* So it is, however much was written.                                     *)
LEMMA WrittenContinues ==
    ASSUME LogTypes, NEW r \in Requests, NEW kind \in {"event", "broken"},
           NEW open \in BOOLEAN
    PROVE  \E n \in Nat : Continues(Written(r, kind, open), Len(file), n, r)
<1> USE DEF LogTypes, TypeOK
<1>1. CASE file # <<>> /\ Last(file).open
  <2> DEFINE line == [Last(file) EXCEPT !.kind = "broken", !.text = Append(@, r), !.open = open]
             n == Len(file) - 1
  <2>1. Written(r, kind, open) = Append(Front(file), line)
    BY <1>1 DEF Written
  <2>2. line \in Line /\ line.kind = "broken"
    <3>1. Last(file) \in Line
      BY <1>1, LastLine
    <3>2. Append(Last(file).text, r) \in Texts
      BY <3>1, AppendProperties DEF Line, Texts
    <3> QED  BY <3>1, <3>2 DEF Line, Texts
  <2>3. n \in Nat /\ n + 1 = Len(file)
    BY <1>1, LastLine
  <2> HIDE DEF line
  <2>4. Continues(Written(r, kind, open), Len(file), n, r)
    BY <1>1, <2>1, <2>2, LastLine, FrontLines, AppendedLine DEF Continues
  <2> QED  BY <2>3, <2>4
<1>2. CASE ~(file # <<>> /\ Last(file).open)
  <2> DEFINE line == [kind |-> kind, text |-> <<r>>, previous |-> previous[r], open |-> open]
  <2>1. Written(r, kind, open) = Append(file, line)
    BY <1>2 DEF Written
  <2>2. line \in Line
    BY DEF Line, Hashes, Texts
  <2>3. line.kind = kind /\ line.text = <<r>> /\ line.previous = previous[r]
    OBVIOUS
  <2> HIDE DEF line
  <2>4. Continues(Written(r, kind, open), Len(file), Len(file), r)
    BY <2>1, <2>2, <2>3, AppendedLine DEF Continues
  <2>5. Len(file) \in Nat
    BY LenProperties
  <2> QED  BY <2>4, <2>5
<1> QED  BY <1>1, <1>2

(* What is written by the holder, who has read the last hash, is chained.  *)
LEMMA ContinuedChain ==
    ASSUME LogTypes, Chained(file), NEW r \in Requests, NEW log,
           NEW m \in Nat, NEW n \in Nat, m = Len(file),
           Continues(log, m, n, r), previous[r] = PreviousHash
    PROVE  Chained(log)
<1>1. DOMAIN file = 1..m
  BY LenProperties DEF LogTypes, TypeOK
<1>2. /\ n + 1 = m \/ n = m
      /\ DOMAIN log = 1..(n + 1) /\ \A i \in 1..n : log[i] = file[i]
  BY DEF Continues
<1>3. ASSUME NEW i \in 1..n
      PROVE  /\ log[i].kind = "legacy" => \A k \in 1..(i - 1) : log[k].kind = "legacy"
             /\ log[i].kind = "event" => log[i].previous = Before(log, i)
  <2>1. i \in DOMAIN file
    BY <1>1, <1>2
  <2>2. log[i] = file[i] /\ \A k \in 1..(i - 1) : log[k] = file[k]
    BY <1>2
  <2>3. Before(log, i) = Before(file, i)
    BY <2>2 DEF Before
  <2> QED  BY <2>1, <2>2, <2>3 DEF Chained
<1>4. /\ log[n + 1].kind # "legacy"
      /\ log[n + 1].kind = "event" => log[n + 1].previous = Before(log, n + 1)
  <2>1. CASE log[n + 1].kind = "broken"
    BY <2>1
  <2>2. CASE n = m /\ log[n + 1].kind = "event" /\ log[n + 1].previous = previous[r]
    <3>1. CASE n = 0
      <4>1. file = <<>>
        BY <2>2, <3>1, EmptySeq DEF LogTypes, TypeOK
      <4>2. Before(log, n + 1) = Genesis /\ PreviousHash = Genesis
        BY <3>1, <4>1 DEF Before, PreviousHash
      <4> QED  BY <2>2, <4>2
    <3>2. CASE n # 0
      <4>1. file # <<>> /\ Last(file) = file[n]
        BY <2>2, <3>2, EmptySeq DEF Last
      <4>2. log[n] = file[n] /\ n + 1 # 1 /\ (n + 1) - 1 = n
        BY <1>2, <3>2
      <4> QED  BY <2>2, <4>1, <4>2 DEF Before, PreviousHash
    <3> QED  BY <3>1, <3>2
  <2> QED  BY <2>1, <2>2 DEF Continues
<1>5. \A i \in 1..(n + 1) : i \in 1..n \/ i = n + 1
  OBVIOUS
<1> QED  BY <1>2, <1>3, <1>4, <1>5 DEF Chained

(* And every answered request, r with them, has its event or there is      *)
(* damage, while every event is that of a request that is done with.       *)
LEMMA ContinuedEvents ==
    ASSUME LogInvariant, NEW r \in Requests, at[r] = "chained", NEW log,
           NEW m \in Nat, NEW n \in Nat, m = Len(file),
           Continues(log, m, n, r), file' = log,
           at' \in {[at EXCEPT ![r] = "answered"], [at EXCEPT ![r] = "lost"]}
    PROVE  AnsweredHold' /\ EventsAreDone'
<1>1. DOMAIN file = 1..m
  BY LenProperties DEF LogInvariant, LogTypes, TypeOK
<1>2. /\ n + 1 = m \/ n = m
      /\ DOMAIN log = 1..(n + 1) /\ \A i \in 1..n : log[i] = file[i]
  BY DEF Continues
<1>3. /\ \A i \in 1..n : i \in DOMAIN file /\ i \in DOMAIN log
      /\ \A i \in DOMAIN log : i \in 1..n \/ i = n + 1
      /\ \A i \in DOMAIN file : i \in 1..n \/ n + 1 = m
      /\ n + 1 \in DOMAIN log
  BY <1>1, <1>2
<1>4. /\ at'[r] \in {"answered", "lost"}
      /\ \A q \in Requests : q # r => at'[q] = at[q]
  BY DEF LogInvariant, LogTypes, TypeOK
<1>5. ASSUME NEW q \in Requests, at'[q] = "answered"
      PROVE  \E i \in DOMAIN log : log[i].kind = "broken"
                                   \/ (log[i].kind = "event" /\ log[i].text = <<q>>)
  <2>1. CASE q = r
    <3>1. log[n + 1].kind = "broken" \/ (log[n + 1].kind = "event" /\ log[n + 1].text = <<r>>)
      BY DEF Continues
    <3> QED  BY <1>3, <2>1, <3>1
  <2>2. CASE q # r
    <3>1. PICK i \in DOMAIN file : file[i].kind = "broken"
                                   \/ (file[i].kind = "event" /\ file[i].text = <<q>>)
      BY <1>4, <1>5, <2>2 DEF LogInvariant, AnsweredHold
    <3>2. CASE i \in 1..n
      <4>1. i \in DOMAIN log /\ log[i] = file[i]
        BY <1>2, <1>3, <3>2
      <4> QED  BY <3>1, <4>1
    <3>3. CASE i \notin 1..n
      <4>1. n # m
        BY <1>3, <3>3
      <4>2. log[n + 1].kind = "broken"
        BY <4>1 DEF Continues
      <4> QED  BY <1>3, <4>2
    <3> QED  BY <3>2, <3>3
  <2> QED  BY <2>1, <2>2
<1>6. ASSUME NEW i \in 1..n, log[i].kind = "event"
      PROVE  /\ \E q \in Requests : log[i].text = <<q>> /\ q # r /\ at'[q] \in {"answered", "lost"}
             /\ \A k \in 1..n : log[k].kind = "event" /\ log[k].text = log[i].text => k = i
  <2>1. i \in DOMAIN file /\ log[i] = file[i]
    BY <1>2, <1>3
  <2>2. /\ \E q \in Requests : file[i].text = <<q>> /\ at[q] \in {"answered", "lost"}
        /\ \A k \in DOMAIN file : file[k].kind = "event" /\ file[k].text = file[i].text => k = i
    BY <1>6, <2>1 DEF LogInvariant, EventsAreDone
  <2>3. PICK q \in Requests : file[i].text = <<q>> /\ at[q] \in {"answered", "lost"}
    BY <2>2
  <2>4. q # r /\ at'[q] \in {"answered", "lost"}
    BY <1>4, <2>3
  <2>5. \A k \in 1..n : k \in DOMAIN file /\ log[k] = file[k]
    BY <1>2, <1>3
  <2> QED  BY <2>1, <2>2, <2>3, <2>4, <2>5
<1>7. ASSUME log[n + 1].kind = "event"
      PROVE  /\ log[n + 1].text = <<r>>
             /\ \A k \in 1..n : log[k].kind = "event" => log[k].text # log[n + 1].text
  <2>1. log[n + 1].text = <<r>>
    BY <1>7 DEF Continues
  <2>2. ASSUME NEW k \in 1..n, log[k].kind = "event"  PROVE log[k].text # log[n + 1].text
    <3>1. PICK q \in Requests : log[k].text = <<q>> /\ q # r
      BY <1>6, <2>2
    <3> QED  BY <2>1, <3>1
  <2> QED  BY <2>1, <2>2
<1>8. AnsweredHold'
  BY <1>5 DEF AnsweredHold
<1>9. EventsAreDone'
  <2>1. ASSUME NEW i \in DOMAIN log, log[i].kind = "event"
        PROVE  /\ \E q \in Requests : log[i].text = <<q>> /\ at'[q] \in {"answered", "lost"}
               /\ \A k \in DOMAIN log : log[k].kind = "event" /\ log[k].text = log[i].text => k = i
    <3>1. CASE i \in 1..n
      <4>1. \E q \in Requests : log[i].text = <<q>> /\ at'[q] \in {"answered", "lost"}
        BY <1>6, <2>1, <3>1
      <4>2. ASSUME NEW k \in DOMAIN log, log[k].kind = "event", log[k].text = log[i].text
            PROVE  k = i
        <5>1. k # n + 1
          BY <1>7, <2>1, <3>1, <4>2
        <5>2. k \in 1..n
          BY <1>3, <5>1
        <5> QED  BY <1>6, <2>1, <3>1, <4>2, <5>2
      <4> QED  BY <4>1, <4>2
    <3>2. CASE i = n + 1
      <4>1. log[i].text = <<r>> /\ at'[r] \in {"answered", "lost"}
        BY <1>4, <1>7, <2>1, <3>2
      <4>2. ASSUME NEW k \in DOMAIN log, log[k].kind = "event", log[k].text = log[i].text
            PROVE  k = i
        <5>1. k \notin 1..n
          BY <1>7, <2>1, <3>2, <4>2
        <5> QED  BY <1>3, <3>2, <5>1
      <4> QED  BY <4>1, <4>2
    <3> QED  BY <1>3, <3>1, <3>2
  <2> QED  BY <2>1 DEF EventsAreDone
<1> QED  BY <1>8, <1>9

-----------------------------------------------------------------------------
(* The holder writes, all of its event or a part, and lets the lock go.    *)
LEMMA WritePreserves ==
    ASSUME LogInvariant, NEW r \in Requests, NEW kind \in {"event", "broken"},
           NEW open \in BOOLEAN, NEW done \in {"answered", "lost"},
           at[r] = "chained", file' = Written(r, kind, open), lock' = "none",
           at' = [at EXCEPT ![r] = done], previous' = previous
    PROVE  LogInvariant'
<1>1. PICK n \in Nat : Continues(file', Len(file), n, r)
  BY WrittenContinues DEF LogInvariant
<1>2. Len(file) \in Nat
  BY LenProperties DEF LogInvariant, LogTypes, TypeOK
<1>3. LogTypes'
  BY <1>1 DEF Continues, LogInvariant, LogTypes, TypeOK, Places
<1>4. Chained(file')
  <2>1. previous[r] = PreviousHash
    BY DEF LogInvariant, HolderReads
  <2> DEFINE log == Written(r, kind, open)
  <2>2. Continues(log, Len(file), n, r) /\ file' = log
    BY <1>1
  <2> HIDE DEF log
  <2>3. Chained(log)
    BY <1>2, <2>1, <2>2, ContinuedChain DEF LogInvariant
  <2> QED  BY <2>2, <2>3
<1>5. HolderReads'
  <2>1. \A q \in Requests : at'[q] \notin {"locked", "chained"}
    BY DEF LogInvariant, LogTypes, TypeOK, HolderReads
  <2> QED  BY <2>1 DEF HolderReads
<1>6. AnsweredHold' /\ EventsAreDone'
  BY <1>1, <1>2, ContinuedEvents
<1> QED  BY <1>3, <1>4, <1>5, <1>6 DEF LogInvariant

(* A step that leaves the log as it is and takes no answer back.           *)
LEMMA SameLog ==
    ASSUME LogInvariant, LogTypes', HolderReads', file' = file,
           \A q \in Requests :
              /\ at'[q] = "answered" => at[q] = "answered"
              /\ at[q] \in {"answered", "lost"} => at'[q] \in {"answered", "lost"}
    PROVE  LogInvariant'
<1>1. AnsweredHold'
  BY DEF LogInvariant, AnsweredHold
<1>2. EventsAreDone'
  BY DEF LogInvariant, EventsAreDone
<1>3. Chained(file)'
  BY DEF LogInvariant, Chained, Before, HashOf, Genesis
<1> QED  BY <1>1, <1>2, <1>3 DEF LogInvariant

(* Every step keeps the invariant.                                         *)
LEMMA StepPreserves ==
    ASSUME LogAssumptions, LogInvariant, [Next]_vars
    PROVE  LogInvariant'
<1> USE DEF LogTypes, TypeOK, Places
<1>0. LogTypes /\ HolderReads
  BY DEF LogInvariant
<1>1. ASSUME NEW r \in Requests, Handle(r) \/ HandleRaises(r)  PROVE LogInvariant'
  <2>1. LogTypes' /\ HolderReads' /\ file' = file
    BY <1>0, <1>1 DEF Handle, HandleRaises, HolderReads, PreviousHash
  <2> QED  BY <1>0, <1>1, <2>1, SameLog DEF Handle, HandleRaises
<1>2. ASSUME NEW r \in Requests, Lock(r)  PROVE LogInvariant'
  <2>1. LogTypes' /\ file' = file
    BY <1>0, <1>2 DEF Lock
  <2>2. \A q \in Requests : at[q] \notin {"locked", "chained"}
    BY <1>0, <1>2 DEF Lock, MayLock, HolderReads, LogAssumptions
  <2>3. HolderReads'
    BY <1>0, <1>2, <2>2 DEF Lock, HolderReads
  <2> QED  BY <1>0, <1>2, <2>1, <2>3, SameLog DEF Lock
<1>3. ASSUME NEW r \in Requests, ReadPrevious(r)  PROVE LogInvariant'
  <2>1. LogTypes' /\ file' = file
    BY <1>0, <1>3, PreviousHashType DEF ReadPrevious
  <2>2. HolderReads'
    BY <1>0, <1>3 DEF ReadPrevious, HolderReads, PreviousHash
  <2> QED  BY <1>0, <1>3, <2>1, <2>2, SameLog DEF ReadPrevious
<1>4. ASSUME NEW r \in Requests, Write(r)  PROVE LogInvariant'
  BY <1>4, WritePreserves DEF Write, WrittenKinds
<1>5. ASSUME NEW r \in Requests, WriteFails(r)  PROVE LogInvariant'
  <2>1. CASE file' = file
    <3>1. LogTypes' /\ HolderReads'
      BY <1>0, <1>5, <2>1 DEF WriteFails, HolderReads, PreviousHash
    <3> QED  BY <1>0, <1>5, <2>1, <3>1, SameLog DEF WriteFails
  <2>2. CASE file' = Written(r, "broken", TRUE)
    BY <1>5, <2>2, WritePreserves DEF WriteFails
  <2>3. CASE file' = Written(r, "event", TRUE)
    BY <1>5, <2>3, WritePreserves DEF WriteFails
  <2> QED  BY <1>5, <2>1, <2>2, <2>3 DEF WriteFails, Part
<1>6. ASSUME Crash  PROVE LogInvariant'
  <2>1. LogTypes' /\ HolderReads' /\ file' = file
    BY <1>0, <1>6 DEF Crash, HolderReads
  <2> QED  BY <1>0, <1>6, <2>1, SameLog DEF Crash
<1>7. ASSUME UNCHANGED vars  PROVE LogInvariant'
  <2>1. LogTypes' /\ HolderReads' /\ file' = file
    BY <1>0, <1>7 DEF vars, HolderReads, PreviousHash
  <2> QED  BY <1>0, <1>7, <2>1, SameLog DEF vars
<1> QED  BY <1>1, <1>2, <1>3, <1>4, <1>5, <1>6, <1>7 DEF Next

-----------------------------------------------------------------------------
(* A log that keeps what is broken, and where the line after an event is   *)
(* in the event's place, does not verify.                                  *)
LEMMA MisplacedIsDetected ==
    ASSUME LogInvariant, NEW m \in Nat, m = Len(file), NEW i \in 1..(m - 1),
           file[i].kind = "event", NEW edited, i \in DOMAIN edited,
           edited[i] = file[i + 1], i # 1 => edited[i - 1] = file[i - 1],
           \A j \in DOMAIN file : file[j].kind = "broken" =>
              \E k \in DOMAIN edited : edited[k].kind = "broken"
    PROVE  ~Verifies(edited)
<1>1. SUFFICES ASSUME Verifies(edited) PROVE FALSE
  OBVIOUS
<1>2. DOMAIN file = 1..m
  BY LenProperties DEF LogInvariant, LogTypes, TypeOK
<1>3. /\ i \in DOMAIN file /\ i + 1 \in DOMAIN file /\ i + 1 # 1 /\ (i + 1) - 1 = i
      /\ i # 1 => i - 1 \in DOMAIN file /\ i - 1 # i
  BY <1>2
<1>4. file[i + 1] \in Line
  BY <1>3, ElementOfSeq, LenProperties DEF LogInvariant, LogTypes, TypeOK
<1>5. file[i + 1].kind # "broken"
  BY <1>1, <1>3 DEF Verifies
<1>6. file[i + 1].kind # "legacy"
  <2>1. i \in 1..((i + 1) - 1)
    BY <1>3
  <2> QED  BY <1>3, <2>1 DEF LogInvariant, Chained
<1>7. file[i + 1].kind = "event" /\ file[i + 1].previous = HashOf(file[i])
  BY <1>3, <1>4, <1>5, <1>6 DEF LogInvariant, Chained, Before, Line
<1>8. file[i + 1].previous = (IF i = 1 THEN Genesis ELSE HashOf(file[i - 1]))
  BY <1>1, <1>7 DEF Verifies
<1>9. CASE i = 1
  BY <1>7, <1>8, <1>9 DEF Genesis, HashOf
<1>10. CASE i # 1
  <2>1. file[i - 1].kind = "event" /\ file[i - 1].text = file[i].text
    BY <1>7, <1>8, <1>10 DEF HashOf
  <2> QED  BY <1>3, <1>10, <2>1 DEF LogInvariant, EventsAreDone
<1> QED  BY <1>9, <1>10

(* The lines of a log without one.                                         *)
LEMMA RemovedLines ==
    ASSUME NEW lines \in Seq(Line), NEW m \in Nat, m = Len(lines), NEW i \in 1..m
    PROVE  /\ DOMAIN RemoveAt(lines, i) = 1..(m - 1)
           /\ \A k \in 1..(i - 1) : RemoveAt(lines, i)[k] = lines[k]
           /\ \A k \in i..(m - 1) : RemoveAt(lines, i)[k] = lines[k + 1]
<1> DEFINE before == SubSeq(lines, 1, i - 1)
           after == SubSeq(lines, i + 1, m)
<1>1. \A k \in 1..m : lines[k] \in Line
  BY ElementOfSeq
<1>2. /\ before \in Seq(Line) /\ Len(before) = i - 1
      /\ \A k \in 1..(i - 1) : before[k] = lines[k]
  <2>1. \A k \in 1..(i - 1) : lines[k] \in Line
    BY <1>1
  <2> QED  BY <2>1, SubSeqProperties
<1>3. /\ after \in Seq(Line) /\ Len(after) = m - i
      /\ \A k \in 1..(m - i) : after[k] = lines[i + k]
  <2>1. \A k \in (i + 1)..m : lines[k] \in Line
    BY <1>1
  <2>2. /\ after \in Seq(Line) /\ Len(after) = IF i + 1 <= m THEN m - (i + 1) + 1 ELSE 0
        /\ \A k \in 1..(m - (i + 1) + 1) : after[k] = lines[(i + 1) + k - 1]
    BY <2>1, SubSeqProperties
  <2>3. \A k \in 1..(m - i) : k \in 1..(m - (i + 1) + 1) /\ (i + 1) + k - 1 = i + k
    OBVIOUS
  <2> QED  BY <2>2, <2>3
<1>4. RemoveAt(lines, i) = before \o after
  BY DEF RemoveAt
<1> HIDE DEF before, after
<1>5. /\ before \o after \in Seq(Line) /\ Len(before \o after) = m - 1
      /\ \A k \in 1..(m - 1) :
            (before \o after)[k] = IF k <= i - 1 THEN before[k] ELSE after[k - (i - 1)]
  <2>1. /\ before \o after \in Seq(Line) /\ Len(before \o after) = Len(before) + Len(after)
        /\ \A k \in 1..(Len(before) + Len(after)) :
              (before \o after)[k] = IF k <= Len(before) THEN before[k] ELSE after[k - Len(before)]
    BY <1>2, <1>3, ConcatProperties
  <2>2. Len(before) = i - 1 /\ Len(before) + Len(after) = m - 1
    BY <1>2, <1>3
  <2> QED  BY <2>1, <2>2
<1> DEFINE edited == RemoveAt(lines, i)
<1>6. DOMAIN edited = 1..(m - 1)
  BY <1>4, <1>5, LenProperties
<1>7. ASSUME NEW k \in 1..(i - 1)  PROVE edited[k] = lines[k]
  BY <1>2, <1>4, <1>5
<1>8. ASSUME NEW k \in i..(m - 1)  PROVE edited[k] = lines[k + 1]
  <2>1. k - (i - 1) \in 1..(m - i) /\ i + (k - (i - 1)) = k + 1 /\ ~(k <= i - 1)
    OBVIOUS
  <2>2. edited[k] = after[k - (i - 1)]
    <3>1. k \in 1..(m - 1)
      OBVIOUS
    <3> QED  BY <1>4, <1>5, <2>1, <3>1
  <2> QED  BY <1>3, <2>1, <2>2
<1> QED  BY <1>6, <1>7, <1>8

(* Neither an event that is missing nor two that are exchanged go unseen.  *)
LEMMA EditsAreDetected ==
    ASSUME LogInvariant
    PROVE  EditsDetected
<1> DEFINE m == Len(file)
<1>1. file \in Seq(Line) /\ m \in Nat /\ DOMAIN file = 1..m
  BY LenProperties DEF LogInvariant, LogTypes, TypeOK
<1> SUFFICES ASSUME NEW i \in 1..(m - 1), file[i].kind = "event"
             PROVE  /\ ~Verifies(RemoveAt(file, i))
                    /\ ~Verifies([file EXCEPT ![i] = file[i + 1], ![i + 1] = file[i]])
  BY DEF EditsDetected
<1>2. m = Len(file)
  OBVIOUS
<1> HIDE DEF m
<1>3. ~Verifies(RemoveAt(file, i))
  <2> DEFINE edited == RemoveAt(file, i)
  <2>1. /\ DOMAIN edited = 1..(m - 1)
        /\ \A k \in 1..(i - 1) : edited[k] = file[k]
        /\ \A k \in i..(m - 1) : edited[k] = file[k + 1]
    <3>1. i \in 1..m
      BY <1>1
    <3> QED  BY <1>1, <1>2, <3>1, RemovedLines
  <2> HIDE DEF edited
  <2>2. i \in DOMAIN edited /\ edited[i] = file[i + 1] /\ (i # 1 => edited[i - 1] = file[i - 1])
    BY <1>1, <2>1
  <2>3. ASSUME NEW j \in DOMAIN file, file[j].kind = "broken"
        PROVE  \E k \in DOMAIN edited : edited[k].kind = "broken"
    <3>1. CASE j \in 1..(i - 1)
      BY <1>1, <2>1, <2>3, <3>1
    <3>2. CASE j \notin 1..(i - 1)
      <4>1. j # i
        BY <2>3
      <4>2. j - 1 \in i..(m - 1) /\ (j - 1) + 1 = j /\ j - 1 \in 1..(m - 1)
        BY <1>1, <3>2, <4>1
      <4> QED  BY <2>1, <2>3, <4>2
    <3> QED  BY <3>1, <3>2
  <2>4. ~Verifies(edited)
    BY <1>1, <1>2, <2>2, <2>3, MisplacedIsDetected
  <2> QED  BY <2>4 DEF edited
<1>4. ~Verifies([file EXCEPT ![i] = file[i + 1], ![i + 1] = file[i]])
  <2> DEFINE edited == [file EXCEPT ![i] = file[i + 1], ![i + 1] = file[i]]
  <2>1. i \in DOMAIN file /\ i + 1 \in DOMAIN file /\ i # i + 1 /\ i - 1 # i /\ i - 1 # i + 1
    BY <1>1
  <2>2. /\ DOMAIN edited = DOMAIN file /\ edited[i] = file[i + 1] /\ edited[i + 1] = file[i]
        /\ \A k \in DOMAIN file : k # i /\ k # i + 1 => edited[k] = file[k]
    BY <2>1
  <2> HIDE DEF edited
  <2>3. i # 1 => edited[i - 1] = file[i - 1]
    BY <1>1, <2>1, <2>2
  <2>4. \A j \in DOMAIN file : file[j].kind = "broken" =>
           \E k \in DOMAIN edited : edited[k].kind = "broken"
    BY <2>1, <2>2
  <2>5. ~Verifies(edited)
    BY <1>1, <1>2, <2>1, <2>2, <2>3, <2>4, MisplacedIsDetected
  <2> QED  BY <2>5 DEF edited
<1> QED  BY <1>3, <1>4

(* What the invariant says of a log as a whole.                            *)
LEMMA LogIsSound ==
    ASSUME LogInvariant
    PROVE  TypeOK /\ ChainVerifies /\ VerifiedIsComplete
<1>1. TypeOK
  BY DEF LogInvariant, LogTypes
<1>2. ChainVerifies
  <2> SUFFICES ASSUME \A i \in DOMAIN file : file[i].kind # "broken"
               PROVE  Verifies(file)
    BY DEF ChainVerifies
  <2>1. \A i \in DOMAIN file : file[i] \in Line
    BY ElementOfSeq, LenProperties DEF LogInvariant, LogTypes, TypeOK
  <2>2. \A i \in DOMAIN file : file[i].kind \in {"legacy", "event"}
    BY <2>1 DEF Line
  <2> QED  BY <2>2 DEF Verifies, LogInvariant, Chained, Before
<1>3. VerifiedIsComplete
  <2> SUFFICES ASSUME Verifies(file), NEW r \in Requests, at[r] = "answered"
               PROVE  \E i \in DOMAIN file : file[i].kind = "event" /\ file[i].text = <<r>>
    BY DEF VerifiedIsComplete, AnsweredIsAudited, Audited
  <2>1. \A i \in DOMAIN file : file[i].kind # "broken"
    BY DEF Verifies
  <2> QED  BY <2>1 DEF LogInvariant, AnsweredHold
<1> QED  BY <1>1, <1>2, <1>3

-----------------------------------------------------------------------------
(* Every log that the middleware can leave is well typed and chained, and  *)
(* who may still write to it has read it, whatever fails.                  *)
THEOREM LogHolds ==
    ASSUME LogAssumptions
    PROVE  Spec => []LogInvariant
<1>1. Init => LogInvariant
  BY InitialLog
<1>2. LogInvariant /\ [Next]_vars => LogInvariant'
  BY StepPreserves
<1> QED  BY <1>1, <1>2, PTL DEF Spec

=============================================================================
