------------------------- MODULE DecisionLifecycle --------------------------
(***************************************************************************)
(* What the runtime decision service promises of its ledger: each decision *)
(* takes one lifecycle step at a time, a command needs the approval of as  *)
(* many distinct people other than the requester as its risk demands, one  *)
(* veto ends it, and nothing that has been recorded is ever taken back,    *)
(* except by the first step after a start at which the ledger could not be *)
(* read (astray): that step begins a new ledger.                           *)
(* RuntimeDecision implements this specification with its state file.      *)
(***************************************************************************)
EXTENDS Naturals, FiniteSets

CONSTANTS Decisions, Principals, NoOne

VARIABLES ledger, astray

Stages == {"absent", "awaiting_approval", "approved", "rejected",
           "execution_blocked", "executed_simulation",
           "rolled_back_simulation"}

Entries == [stage     : Stages,
            requester : Principals \cup {NoOne},
            required  : 1..2,
            ayes      : SUBSET Principals,
            noes      : SUBSET Principals]

Blank == [stage |-> "absent", requester |-> NoOne, required |-> 1,
          ayes |-> {}, noes |-> {}]

Init == ledger = [d \in Decisions |-> Blank] /\ astray = FALSE

Becomes(d, entry) == ledger' = [ledger EXCEPT ![d] = entry]

Propose(d, requester, required) ==
    /\ ledger[d].stage = "absent"
    /\ Becomes(d, [Blank EXCEPT !.stage = "awaiting_approval",
                                !.requester = requester,
                                !.required = required])

MayVote(d, p) ==
    /\ ledger[d].stage \in {"awaiting_approval", "approved"}
    /\ p # ledger[d].requester
    /\ p \notin ledger[d].ayes

Aye(d, p) ==
    LET ayes == ledger[d].ayes \cup {p}
    IN  /\ MayVote(d, p)
        /\ Becomes(d, [ledger[d] EXCEPT
                         !.ayes = ayes,
                         !.stage = IF Cardinality(ayes) >= ledger[d].required
                                   THEN "approved" ELSE "awaiting_approval"])

Veto(d, p) ==
    /\ MayVote(d, p)
    /\ Becomes(d, [ledger[d] EXCEPT !.noes = @ \cup {p}, !.stage = "rejected"])

Move(d, from, to) ==
    /\ ledger[d].stage = from
    /\ Becomes(d, [ledger[d] EXCEPT !.stage = to])

Step(d) ==
    \/ \E p \in Principals, n \in 1..2 : Propose(d, p, n)
    \/ \E p \in Principals : Aye(d, p) \/ Veto(d, p)
    \/ Move(d, "approved", "executed_simulation")
    \/ Move(d, "approved", "execution_blocked")
    \/ Move(d, "executed_simulation", "rolled_back_simulation")

Restart == astray' \in BOOLEAN /\ UNCHANGED ledger

StartOver(d, requester, required) ==
    /\ astray
    /\ astray' = FALSE
    /\ ledger' = [e \in Decisions |->
                     IF e = d THEN [Blank EXCEPT !.stage = "awaiting_approval",
                                                 !.requester = requester,
                                                 !.required = required]
                              ELSE Blank]

Next ==
    \/ ~astray /\ UNCHANGED astray /\ \E d \in Decisions : Step(d)
    \/ Restart
    \/ \E d \in Decisions, p \in Principals, n \in 1..2 : StartOver(d, p, n)

Spec == Init /\ [][Next]_<<ledger, astray>>

=============================================================================
