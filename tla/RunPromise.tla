----------------------------- MODULE RunPromise -----------------------------
(***************************************************************************)
(* What the service promises for the requests it accepts for one run,      *)
(* whatever happens between stores, broker and workers: every accepted     *)
(* request becomes a job that is worked on, perhaps more than once, until  *)
(* it is over, and a job works at low confidence only if it was approved,  *)
(* which takes that an earlier job asked for review.                       *)
(***************************************************************************)
CONSTANT Requests

VARIABLES
    job,       \* each request's job
    approved,  \* the jobs published by an approval
    review,    \* some job has asked for human review
    risky      \* the jobs that work on a low-confidence classification

promise == <<job, approved, review, risky>>

Init ==
    /\ job = [r \in Requests |-> "none"]
    /\ approved = {}
    /\ review = FALSE
    /\ risky = {}

Move(r, from, to) == job[r] = from /\ job' = [job EXCEPT ![r] = to]

Publish(r) ==
    /\ Move(r, "none", "waiting")
    /\ \/ UNCHANGED approved
       \/ review /\ approved' = approved \cup {r}
    /\ UNCHANGED <<review, risky>>

Begin(r) == Move(r, "waiting", "active") /\ UNCHANGED <<approved, review, risky>>

AskReview(r) ==
    /\ job[r] = "active"
    /\ review' = TRUE
    /\ UNCHANGED <<job, approved, risky>>

TakeRisk(r) ==
    /\ job[r] = "active"
    /\ r \in approved
    /\ risky' = risky \cup {r}
    /\ UNCHANGED <<job, approved, review>>

(* The job goes back to the queue and starts over.                         *)
Again(r) ==
    /\ Move(r, "active", "waiting")
    /\ risky' = risky \ {r}
    /\ UNCHANGED <<approved, review>>

Finish(r) == Move(r, "active", "over") /\ UNCHANGED <<approved, review, risky>>

Next == \E r \in Requests :
    Publish(r) \/ Begin(r) \/ AskReview(r) \/ TakeRisk(r) \/ Again(r) \/ Finish(r)

Spec ==
    /\ Init /\ [][Next]_promise
    /\ \A r \in Requests : WF_promise(Begin(r)) /\ SF_promise(Finish(r))
=============================================================================
