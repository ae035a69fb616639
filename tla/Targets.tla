------------------------------- MODULE Targets -------------------------------
(***************************************************************************)
(* Difficulties and targets: what a job says, what a miner is told of it   *)
(* when it has a difficulty of its own, and how a result is judged.  A     *)
(* target is a word of two halves, and miners are told the upper half of a *)
(* custom one.                                                             *)
(***************************************************************************)
EXTENDS Integers

CONSTANTS
    HalfValues,         \* how many values half a target has, 2^32 in the code
    kMinCustomDiff,     \* the least custom difficulty, 100 in the code
    JobDiffs            \* difficulties of templates, and of whole targets of pools

MaxHalf == HalfValues - 1
MaxWord == HalfValues * HalfValues - 1
IntMax == HalfValues \div 2 - 1

\* Difficulties are words.
ASSUME TargetsAssumption ==
    /\ HalfValues \in Nat \ (0..3) /\ HalfValues % 2 = 0
    /\ kMinCustomDiff \in Nat \ {0} /\ JobDiffs \subseteq 1..MaxWord

VARIABLES
    offer,      \* the job: m_diff, and raw: m_rawTarget with its size in bytes
    wanted,     \* m_customDiff, 0 for none
    order       \* what the miner was sent (raw) and m_issuedDiff

targetVars == <<offer, wanted, order>>

toDiff(target) == IF target = 0 THEN 0 ELSE MaxWord \div target

\* What half a target stands for, in setTarget here and in the miner.
Expand(compact) == MaxWord \div (MaxHalf \div compact)

TargetOf(raw) == IF raw.size = 4 THEN Expand(raw.value) ELSE raw.value

\* Job::setTarget, for a target that is no zero.
setTarget(raw) == [diff |-> toDiff(TargetOf(raw)), raw |-> raw]

\* Job::setDiff
setDiff(diff) == [diff |-> diff, raw |-> [size |-> 8, value |-> toDiff(diff)]]

\* Config::setCustomDiff and CustomDiff::login take no other difficulty.
CustomDiffs == kMinCustomDiff..(IntMax - 1)

\* Miner::setJob: the upper half of the miner's own target, and the difficulty
\* that it stands for.
setJobTarget(job, custom) ==
    LET compact == (MaxWord \div custom) \div HalfValues
    IN  IF custom = 0 \/ custom >= job.diff THEN [raw |-> job.raw, issued |-> job.diff]
        ELSE [raw |-> [size |-> 4, value |-> compact],
              issued |-> IF compact = 0 THEN job.diff ELSE toDiff(Expand(compact))]

\* Mutant: the strongest result has no difficulty.
actualDiffOfZero(hash) == toDiff(hash)

\* JobResult: hash is the upper word of the result.
actualDiff(hash) == IF hash = 0 THEN MaxWord ELSE toDiff(hash)

Candidate(hash) == actualDiff(hash) >= offer.diff

\* What Miner::parseRequest makes of a result without a verifier, and
\* Miner::onVerified of one that is as claimed.
Judged(hash, verifier) ==
    LET low == actualDiff(hash) < order.issued
    IN  IF verifier
        THEN IF Candidate(hash) THEN "upstream"
             ELSE IF low \/ order.issued >= offer.diff THEN "low difficulty" ELSE "local"
        ELSE IF low THEN "low difficulty"
             ELSE IF order.issued < offer.diff /\ ~Candidate(hash) THEN "local" ELSE "upstream"

\* A job of a pool or a template reaches a miner.
IssueJob(job) ==
    /\ offer' = job /\ order' = setJobTarget(job, wanted)
    /\ UNCHANGED wanted

PoolJobs ==
    {setTarget([size |-> 4, value |-> v]) : v \in 1..MaxHalf}
        \cup {setTarget([size |-> 8, value |-> toDiff(d)]) : d \in JobDiffs}
TemplateJobs == {setDiff(d) : d \in JobDiffs}

TargetsInit ==
    /\ wanted \in CustomDiffs \cup {0}
    /\ offer = setDiff(1) /\ order = setJobTarget(offer, wanted)

TargetsIdle == wanted = 0 /\ offer = setDiff(1) /\ order = setJobTarget(offer, wanted)

TargetsNext == \E job \in PoolJobs \cup TemplateJobs : IssueJob(job)

(***************************************************************************)
(* Properties                                                              *)
(***************************************************************************)

\* External: a miner submits a result below its target.
Submits(hash) == hash < TargetOf(order.raw)

\* What a miner submits, as it understands the target it was sent, is never
\* of low difficulty for the proxy; a result that solves the block is sent
\* on, unless the miner's target is harder than the block's, and that only
\* where the two are alike in the half that miners are told
\* (Miner::setJob, JobResult, Miner::parseRequest, Miner::onVerified).
NoWorkWasted ==
    /\ order.raw.value # 0
    /\ \A hash \in 0..MaxWord, verifier \in BOOLEAN :
         /\ Submits(hash) => Judged(hash, verifier) # "low difficulty"
         /\ hash * offer.diff <= MaxWord /\ (verifier \/ order.issued <= offer.diff)
              => Judged(hash, verifier) = "upstream"
    /\ order.issued > offer.diff => order.raw.value = (MaxWord \div offer.diff) \div HalfValues
=============================================================================
