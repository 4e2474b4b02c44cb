----------------------------- MODULE MCPlatform -----------------------------
(* Components of one process that share nothing, for TLC: a behaviour is one *)
(* of the component that `part` names, the others stay where they start.     *)
EXTENDS MCRuntimeSimulator

CONSTANTS Requests, Legacy, Faults,
          Clients, Limit, Window, TableLimit, MaxTime
VARIABLES part, file, at, previous, lock, events, now, granted, refused,
          disk, switcher, call, receipts, modes, decision, seen, torn, edits

audit == <<file, at, previous, lock>>
limiter == <<events, now, granted, refused>>
dispatch == <<disk, switcher, call, receipts, modes, decision, seen, torn, edits>>

AU == INSTANCE AuditChain
RL == INSTANCE RateLimiter
DS == INSTANCE DispatchSwitch
    WITH Releases <- {"released", "attempt"}, Weights <- {"w1", "w2"},
         Outcomes <- {[cost |-> 4, rest |-> 0, unsafe |-> 0], [cost |-> 2, rest |-> 1, unsafe |-> 0],
                      [cost |-> 0, rest |-> 2, unsafe |-> 0], [cost |-> 0, rest |-> 0, unsafe |-> 1]},
         TakeOver <- 1, HandBack <- 3, Hours <- 4, MaxEdits <- 2

ASSUME LimiterAssumption == Limit \in Nat /\ MaxTime \in Nat /\ Window \in Nat \ {0}

(* One release is sound, the other anything.                                 *)
Sound(r) ==
    /\ disk.reports[r] = [admitted |-> TRUE, dataset |-> "own", policy |-> "w1"]
    /\ disk.evidence[r] = [admits |-> TRUE, intact |-> TRUE]

PlatformInit ==
    /\ part \in {"simulator", "audit", "limiter", "dispatch"}
    /\ Init /\ (part # "simulator" => sim = CHOOSE s \in Constructed : TRUE)
    /\ AU!Init /\ (part # "audit" => file = <<>>)
    /\ RL!Init
    /\ IF part = "dispatch" THEN DS!Init /\ Sound("released")
       ELSE disk = "none" /\ switcher = "none" /\ call = "none" /\ receipts = <<>> /\ modes = <<>>
            /\ decision = "none" /\ seen = "none" /\ torn = FALSE /\ edits = 0

SimulatorStep == part = "simulator" /\ Next /\ UNCHANGED <<part, audit, limiter, dispatch>>
AuditStep == part = "audit" /\ AU!Next /\ UNCHANGED <<part, vars, limiter, dispatch>>
LimiterStep == part = "limiter" /\ RL!Next /\ UNCHANGED <<part, vars, audit, dispatch>>
DispatchStep == part = "dispatch" /\ DS!Next /\ UNCHANGED <<part, vars, audit, limiter>>

PlatformNext == SimulatorStep \/ AuditStep \/ LimiterStep \/ DispatchStep

PlatformSpec == PlatformInit /\ [][PlatformNext]_<<part, vars, audit, limiter, dispatch>>
-------------------------------------------------------------------------------
(* The states of the components have their types.                            *)
PlatformTypeOK == TypeOK /\ AU!TypeOK /\ RL!TypeOK /\ (part = "dispatch" => DS!TypeOK)

(* Concurrent appends, failures and restarts leave a log that verifies.      *)
ChainVerifies == AU!ChainVerifies

(* A log that verifies has every answered request.                           *)
VerifiedIsComplete == AU!VerifiedIsComplete

(* Removing an event or exchanging two is detected.                          *)
EditsDetected == AU!EditsDetected

(* The rate limiter counts every window right, however its table is kept.    *)
LimitIsExact == RL!LimitIsExact

(* Learned weights that decide are those of a sealed and admitted policy.    *)
LearnedIsSealed == part = "dispatch" => DS!LearnedIsSealed

(* A learned decision is never worse than causal MPC's beyond the guards'    *)
(* tolerances.                                                               *)
NeverWorseThanMpc == part = "dispatch" => DS!NeverWorseThanMpc

(* The switch receipts tell who decided each hour.                           *)
ReceiptsTellTheModes == part = "dispatch" => DS!ReceiptsTellTheModes

=============================================================================
