------------------------------ MODULE JobContract -----------------------------
(***************************************************************************)
(* What the job queue promises to the rest of the control plane and to the *)
(* agents, without tokens, clocks or requests: the right to decide a job   *)
(* passes from one holder to the next, each holder known by its fence;     *)
(* a job is decided or withdrawn once; only the current holder, or nobody  *)
(* (the job was withdrawn), decides it; and what an agent was told is what *)
(* was decided under the fence of that agent.                              *)
(***************************************************************************)
EXTENDS Naturals

CONSTANTS Jobs, Outcomes

VARIABLES
    stage,      \* "open", "decided" or "withdrawn"
    fence,      \* the number of the current holder, 0 before the first
    verdict,    \* the outcome of a decided job
    told        \* the verdicts confirmed to holders

cvars == <<stage, fence, verdict, told>>

Undecided == "none"

CInit ==
    /\ stage = [j \in Jobs |-> "open"]
    /\ fence = [j \in Jobs |-> 0]
    /\ verdict = [j \in Jobs |-> Undecided]
    /\ told = {}

\* The job gets its next holder.
Grant(j) ==
    /\ stage[j] = "open"
    /\ fence' = [fence EXCEPT ![j] = fence[j] + 1]
    /\ UNCHANGED <<stage, verdict, told>>

\* The current holder's outcome becomes the verdict.
Decide(j, outcome) ==
    /\ stage[j] = "open"
    /\ fence[j] # 0
    /\ stage' = [stage EXCEPT ![j] = "decided"]
    /\ verdict' = [verdict EXCEPT ![j] = outcome]
    /\ UNCHANGED <<fence, told>>

\* A set of jobs is withdrawn in one step (one job, or all of a target).
Withdraw(S) ==
    /\ S # {}
    /\ \A j \in S : stage[j] = "open"
    /\ stage' = [j \in Jobs |-> IF j \in S THEN "withdrawn" ELSE stage[j]]
    /\ UNCHANGED <<fence, verdict, told>>

\* A holder is told the verdict of its own job, any number of times.
Tell(j) ==
    /\ stage[j] = "decided"
    /\ told' = told \cup {[job |-> j, token |-> fence[j], outcome |-> verdict[j]]}
    /\ UNCHANGED <<stage, fence, verdict>>

CNext ==
    \/ \E j \in Jobs : Grant(j) \/ Tell(j)
    \/ \E j \in Jobs, outcome \in Outcomes : Decide(j, outcome)
    \/ \E S \in SUBSET Jobs : Withdraw(S)

\* A step that changes something.  (It stands first because TLC then leaves the other
\* steps alone.)
Change == cvars' # cvars /\ CNext

CSpec == CInit /\ [][Change]_cvars

=============================================================================
