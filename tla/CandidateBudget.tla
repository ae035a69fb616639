--------------------------- MODULE CandidateBudget ---------------------------
(***************************************************************************)
(* The budgets of RandomXVerifier for shares that claim to be blocks: a    *)
(* candidate within its budget goes to the daemon without verification,    *)
(* one over it is verified, and one that cannot be verified has a smaller  *)
(* emergency budget.  The windows are queues of times, emptied from the    *)
(* front when they are looked at.  Times are kept as ages.                 *)
(***************************************************************************)
EXTENDS Integers, SequencesExt

CONSTANTS
    Connections,        \* the miners' keys
    BudgetLimits,       \* the limits that are configured, 0 for none
    kCandidateWindow,   \* kCandidateWindowMs, in steps of the clock
    MaxPassed           \* bound: candidates that go on in a window

\* The keys are numbers: no miner is the mark of a connection that was closed.
ASSUME BudgetAssumption ==
    /\ BudgetLimits \subseteq Nat /\ kCandidateWindow \in Nat \ {0} /\ MaxPassed \in Nat
    /\ "closed" \notin Connections

VARIABLES
    limits,     \* m_candidateLimit, m_globalCandidateLimit, m_emergencyCandidateLimit
    windows,    \* own and all: m_candidateWindows and m_globalCandidateWindow;
                \* ownEmergency and allEmergency: the emergency ones
    verifying,  \* the miners with an over-budget candidate at the verifier
    passed      \* the candidates that went on unverified, younger than the window

budgetVars == <<limits, windows, verifying, passed>>

\* Mutant: an entry leaves a step late.
YoungLate(age) == age <= kCandidateWindow

\* An entry counts until it is a whole window old.
Young(age) == age < kCandidateWindow

\* The loops that pop the front of a window while it is old.
popped(window) ==
    CHOOSE n \in 0..Len(window) :
        /\ \A i \in 1..n : ~Young(window[i])
        /\ n < Len(window) => Young(window[n + 1])

expire(window) == SubSeq(window, popped(window) + 1, Len(window))

\* Mutant: a candidate of a full global window counts in the miner's own.
allowCandidateOwnFirst(o) ==
    LET own == expire(windows.own[o])
        all == expire(windows.all)
        full == (limits.own # 0 /\ Len(own) >= limits.own) \/ (limits.all # 0 /\ Len(all) >= limits.all)
        counted == limits.own # 0 /\ Len(own) < limits.own
    IN  [granted |-> ~full,
         windows |-> [windows EXCEPT !.own[o] = IF counted THEN Append(own, 0) ELSE own,
                                     !.all = IF full \/ limits.all = 0 THEN all ELSE Append(all, 0)]]

\* allowCandidate
allowCandidate(o) ==
    LET own == expire(windows.own[o])
        all == expire(windows.all)
        full == (limits.own # 0 /\ Len(own) >= limits.own) \/ (limits.all # 0 /\ Len(all) >= limits.all)
    IN  IF limits.own = 0 /\ limits.all = 0 THEN [granted |-> TRUE, windows |-> windows]
        ELSE [granted |-> ~full,
              windows |-> [windows EXCEPT !.own[o] = IF full \/ limits.own = 0 THEN own ELSE Append(own, 0),
                                          !.all = IF full \/ limits.all = 0 THEN all ELSE Append(all, 0)]]

\* allowEmergencyCandidate: one per miner at most.
allowEmergencyCandidate(w, o) ==
    LET own == expire(w.ownEmergency[o])
        all == expire(w.allEmergency)
        full == own # <<>> \/ Len(all) >= limits.emergency
    IN  IF limits.emergency = 0 THEN [granted |-> TRUE, windows |-> w]
        ELSE [granted |-> ~full,
              windows |-> [w EXCEPT !.ownEmergency[o] = IF full THEN own ELSE Append(own, 0),
                                    !.allEmergency = IF full THEN all ELSE Append(all, 0)]]

\* What goes on unverified.
Passing(o, kind) == passed' = Append(passed, [owner |-> o, kind |-> kind, age |-> 0])

\* Miner::parseRequest with a candidate: within its budget it goes on.
WithinBudget(o) ==
    LET direct == allowCandidate(o)
    IN  /\ Len(passed) < MaxPassed
        /\ direct.granted /\ windows' = direct.windows /\ Passing(o, "direct")
        /\ UNCHANGED <<limits, verifying>>

\* Over it, the verifier gets it.
OverBudget(o) ==
    LET direct == allowCandidate(o)
    IN  /\ o \notin verifying
        /\ ~direct.granted /\ windows' = direct.windows /\ verifying' = verifying \cup {o}
        /\ UNCHANGED <<limits, passed>>

\* The emergency budget decides about a candidate that is not verified.
Emergency(o, w) ==
    LET emergency == allowEmergencyCandidate(w, o)
    IN  /\ Len(passed) < MaxPassed
        /\ windows' = emergency.windows
        /\ IF emergency.granted THEN Passing(o, "emergency") ELSE UNCHANGED passed

\* startVerification fails.
NotAdmitted(o) ==
    /\ ~allowCandidate(o).granted
    /\ Emergency(o, allowCandidate(o).windows)
    /\ UNCHANGED <<limits, verifying>>

\* Miner::onVerified with an error: by then the direct budget may have room.
NotVerified(o) ==
    /\ o \in verifying /\ verifying' = verifying \ {o}
    /\ Emergency(o, windows)
    /\ UNCHANGED limits

\* Miner::onVerified with an answer: the share goes on, verified, or is refused.
Verified(o) ==
    /\ o \in verifying /\ verifying' = verifying \ {o}
    /\ UNCHANGED <<limits, windows, passed>>

\* cancelOwner; the key is that of another connection from now on.
cancelOwner(o) ==
    /\ windows' = [windows EXCEPT !.own[o] = <<>>, !.ownEmergency[o] = <<>>]
    /\ verifying' = verifying \ {o}
    /\ passed' = [i \in DOMAIN passed |->
                     IF passed[i].owner = o THEN [passed[i] EXCEPT !.owner = "closed"] ELSE passed[i]]
    /\ UNCHANGED limits

\* Ages beyond the window are all the same.
Older(window) == [i \in DOMAIN window |-> IF window[i] < kCandidateWindow THEN window[i] + 1 ELSE window[i]]
Recent(r) == r.age < kCandidateWindow

\* The candidates of the last window: they went on after all others.
Remembered(candidates) ==
    LET old == CHOOSE n \in 0..Len(candidates) :
                  /\ \A i \in 1..n : ~Recent(candidates[i])
                  /\ n < Len(candidates) => Recent(candidates[n + 1])
    IN  SubSeq(candidates, old + 1, Len(candidates))

Clock ==
    /\ windows' = [own |-> [o \in Connections |-> Older(windows.own[o])], all |-> Older(windows.all),
                   ownEmergency |-> [o \in Connections |-> Older(windows.ownEmergency[o])],
                   allEmergency |-> Older(windows.allEmergency)]
    /\ passed' = Remembered([i \in DOMAIN passed |-> [passed[i] EXCEPT !.age = passed[i].age + 1]])
    /\ UNCHANGED <<limits, verifying>>

NoWindows ==
    [own |-> [o \in Connections |-> <<>>], all |-> <<>>,
     ownEmergency |-> [o \in Connections |-> <<>>], allEmergency |-> <<>>]

BudgetInit ==
    /\ limits \in [own : BudgetLimits, all : BudgetLimits, emergency : BudgetLimits]
    /\ windows = NoWindows /\ verifying = {} /\ passed = <<>>

BudgetNext ==
    \/ Clock
    \/ \E o \in Connections :
          WithinBudget(o) \/ OverBudget(o) \/ NotAdmitted(o) \/ NotVerified(o) \/ Verified(o) \/ cancelOwner(o)

(***************************************************************************)
(* Properties                                                              *)
(***************************************************************************)

Passed(kind) == {i \in DOMAIN passed : passed[i].kind = kind}
PassedOf(o, kind) == {i \in Passed(kind) : passed[i].owner = o}

\* In no minute do more candidates go on unverified than the limits of a miner
\* and of all miners allow, closed connections included; and none is refused
\* although there is room: the windows hold exactly the candidates that went
\* on within the last minute, whatever was refused in between
\* (RandomXVerifier::allowCandidate, allowEmergencyCandidate, cancelOwner).
BudgetsExact ==
    /\ limits.all # 0 => /\ Cardinality(Passed("direct")) <= limits.all
                         /\ Len(expire(windows.all)) = Cardinality(Passed("direct"))
    /\ limits.emergency # 0 => /\ Cardinality(Passed("emergency")) <= limits.emergency
                               /\ Len(expire(windows.allEmergency)) = Cardinality(Passed("emergency"))
    /\ \A o \in Connections :
         /\ limits.own # 0 => /\ Cardinality(PassedOf(o, "direct")) <= limits.own
                              /\ Len(expire(windows.own[o])) = Cardinality(PassedOf(o, "direct"))
         /\ limits.emergency # 0 => Cardinality(PassedOf(o, "emergency")) <= 1
=============================================================================
