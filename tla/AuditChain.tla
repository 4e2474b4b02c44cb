------------------------------ MODULE AuditChain ------------------------------
(***************************************************************************)
(* The hash-chained mutation audit of core/security.py: the middleware     *)
(* that serves a mutating request and then appends its event, the append,  *)
(* and verify_audit_chain().                                               *)
(*                                                                         *)
(* A hash is the text it is taken of.  A line is the events whose text it  *)
(* has: more than one when an append follows a line that was cut off.      *)
(* An event whose path has one of the other line ends of str.splitlines()  *)
(* is written unescaped and read as parts that do not parse: they are one  *)
(* broken line here.                                                       *)
(***************************************************************************)
EXTENDS Naturals, SequencesExt

CONSTANTS Requests,     \* mutating requests
          Legacy,       \* names of events from before the chain, no requests
          Faults        \* which faults may happen: "crash", "torn", "raise", "separator"

VARIABLES
    file,       \* the lines of the audit log
    at,         \* where each request is
    previous,   \* the hash that each append read
    lock        \* AUDIT_LOCK with the file lock: its holder, or "none"

vars == <<file, at, previous, lock>>

Places == {"new", "handled", "locked", "chained", "answered", "lost"}

(* A line that does not parse is broken; one without its newline is open.  *)
Line == [kind : {"legacy", "event", "broken"}, text : Seq(Requests \cup Legacy),
         previous : {"genesis", "legacy", "event"} \X Seq(Requests \cup Legacy),
         open : BOOLEAN]

Genesis == <<"genesis", <<>>>>

(* The event_hash of an event, else "LEGACY:" and the hash of the line.    *)
HashOf(line) ==
    <<IF line.kind = "event" THEN "event" ELSE "legacy", line.text>>

(* _previous_audit_hash().                                                 *)
PreviousHash == IF file = <<>> THEN Genesis ELSE HashOf(Last(file))

Unhashed(name) == [kind |-> "legacy", text |-> <<name>>, previous |-> Genesis,
                   open |-> FALSE]

-----------------------------------------------------------------------------
Init ==
    /\ \E names \in SetToAllKPermutations(Legacy) :
          file = [i \in DOMAIN names |-> Unhashed(names[i])]
    /\ at = [r \in Requests |-> "new"]
    /\ previous = [r \in Requests |-> Genesis]
    /\ lock = "none"

(* call_next() returned, whatever its status.                              *)
Handle(r) ==
    /\ at[r] = "new"
    /\ at' = [at EXCEPT ![r] = "handled"]
    /\ UNCHANGED <<file, previous, lock>>

(* call_next() raised, after its effect or before: the effect has no event.*)
HandleRaises(r) ==
    /\ "raise" \in Faults
    /\ at[r] = "new"
    /\ at' = [at EXCEPT ![r] = "lost"]
    /\ UNCHANGED <<file, previous, lock>>

(* Mutant: appends are not exclusive.                                      *)
MutantMayLock == TRUE

MayLock == lock = "none"

Lock(r) ==
    /\ at[r] = "handled"
    /\ MayLock
    /\ lock' = r
    /\ at' = [at EXCEPT ![r] = "locked"]
    /\ UNCHANGED <<file, previous>>

ReadPrevious(r) ==
    /\ at[r] = "locked"
    /\ previous' = [previous EXCEPT ![r] = PreviousHash]
    /\ at' = [at EXCEPT ![r] = "chained"]
    /\ UNCHANGED <<file, lock>>

(* The text goes where the file ends, which need not be a new line.        *)
Written(r, kind, open) ==
    IF file # <<>> /\ Last(file).open
    THEN Append(Front(file), [Last(file) EXCEPT !.kind = "broken",
                                                !.text = Append(@, r),
                                                !.open = open])
    ELSE Append(file, [kind |-> kind, text |-> <<r>>,
                       previous |-> previous[r], open |-> open])

(* How what is written is read back.                                       *)
WrittenKinds == {"event"} \cup (IF "separator" \in Faults THEN {"broken"} ELSE {})

Write(r) ==
    /\ at[r] = "chained"
    /\ \E kind \in WrittenKinds : file' = Written(r, kind, FALSE)
    /\ lock' = "none"
    /\ at' = [at EXCEPT ![r] = "answered"]
    /\ UNCHANGED previous

(* A full disk or a kill: nothing, a part, or all but the newline.         *)
Part(r) ==
    {file, Written(r, "broken", TRUE), Written(r, "event", TRUE)}

WriteFails(r) ==
    /\ "torn" \in Faults
    /\ at[r] = "chained"
    /\ file' \in Part(r)
    /\ lock' = "none"
    /\ at' = [at EXCEPT ![r] = "lost"]
    /\ UNCHANGED previous

Crash ==
    /\ "crash" \in Faults
    /\ at' = [r \in Requests |-> IF at[r] \in {"new", "answered"} THEN at[r]
                                                                  ELSE "lost"]
    /\ lock' = "none"
    /\ UNCHANGED <<file, previous>>

Next ==
    \/ \E r \in Requests :
          \/ Handle(r)
          \/ HandleRaises(r)
          \/ Lock(r)
          \/ ReadPrevious(r)
          \/ Write(r)
          \/ WriteFails(r)
    \/ Crash

Spec == Init /\ [][Next]_vars

-----------------------------------------------------------------------------
(* Mutant: a line is compared with nothing but itself.                     *)
MutantVerifies(lines) == \A i \in DOMAIN lines : lines[i].kind # "broken"

(* Mutant: a line that does not parse is passed over.                      *)
MutantPassesOver(lines) ==
    \A i \in DOMAIN lines :
        LET before == IF i = 1 THEN Genesis ELSE HashOf(lines[i - 1])
        IN  \/ lines[i].kind \in {"legacy", "broken"}
            \/ lines[i].previous = before

(* verify_audit_chain(): events without a hash come first, and every hash  *)
(* is that of the line before.                                             *)
Verifies(lines) ==
    \A i \in DOMAIN lines :
        LET before == IF i = 1 THEN Genesis ELSE HashOf(lines[i - 1])
        IN  \/ /\ lines[i].kind = "legacy"
               /\ \A k \in 1..(i - 1) : lines[k].kind = "legacy"
            \/ /\ lines[i].kind = "event"
               /\ lines[i].previous = before

TypeOK ==
    /\ file \in Seq(Line)
    /\ at \in [Requests -> Places]
    /\ lock \in Requests \cup {"none"}

(* Concurrent appends, failures and restarts leave a log that verifies,    *)
(* after any prefix of events without a hash, unless a line is broken.     *)
ChainVerifies ==
    (\A i \in DOMAIN file : file[i].kind # "broken") => Verifies(file)

Audited == {r \in Requests : \E i \in DOMAIN file :
                file[i].kind = "event" /\ file[i].text = <<r>>}

(* Mutating requests are written to the log: one that was answered has its *)
(* event there, where it can be read.                                      *)
AnsweredIsAudited == \A r \in Requests : at[r] = "answered" => r \in Audited

(* So even when lines are cut off, divided or run together, as far as the  *)
(* log verifies: damage that loses an answered event is reported.          *)
VerifiedIsComplete == Verifies(file) => AnsweredIsAudited

(* "Local edits" of the chain are detectable: a log without one of its     *)
(* events, the last one excepted, or with two of them exchanged, does not  *)
(* verify.                                                                 *)
EditsDetected ==
    \A i \in 1..(Len(file) - 1) : file[i].kind = "event" =>
        /\ ~Verifies(RemoveAt(file, i))
        /\ ~Verifies([file EXCEPT ![i] = file[i + 1], ![i + 1] = file[i]])

=============================================================================
