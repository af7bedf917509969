---------------------------- MODULE RenderService ----------------------------
(***************************************************************************)
(* The HTTP service around the engine, service/app.py: the key, the token  *)
(* bucket, the capped body, the validation and the chain of records that   *)
(* keeps a paid render accountable when a part of the engine breaks.       *)
(*                                                                         *)
(* The service is one event loop. A request leaves the loop only while it  *)
(* waits for its body or sends its answer; handle_render is synchronous,   *)
(* so the loop is its own from the last chunk to the answer, while the     *)
(* clock runs on. Tokens are counted in shares of a token: UnitsPerToken   *)
(* of them buy an admission and RefillPerTick come back with every tick.   *)
(***************************************************************************)
EXTENDS Integers, Sequences

CONSTANTS Clients,        \* requests, one each
          Nobody,         \* no request holds the event loop
          Burst,          \* RATE_LIMIT_BURST, 5 tokens
          UnitsPerToken,  \* 5 with RATE_LIMIT_REFILL_PER_SECOND = 0.2
          RefillPerTick,  \* 1 a second
          MaxClock,       \* bound on the clock
          MaxFaults,      \* bound on the parts that break in one request
          Prompt          \* the clients whose body arrives or breaks off

ASSUME ServiceAssumption ==
  /\ Nobody \notin Clients
  /\ Burst \in Nat \ {0} /\ UnitsPerToken \in Nat \ {0} /\ RefillPerTick \in Nat
  /\ MaxClock \in Nat /\ MaxFaults \in Nat
  /\ Prompt \subseteq Clients

VARIABLES
  configured,  \* whether the environment gave a valid configuration
  clock,       \* monotonic time
  tokens,      \* the balance of the bucket
  refilled,    \* when it was last brought up to date
  admissions,  \* history: the times of the admissions
  refusals,    \* history: the times of the refusals, with the admissions before
  loop,        \* the request that holds the event loop
  phase,       \* where each request is
  kind,        \* what each request is: its key and its body
  calls,       \* the calls of the generator the service counted
  paid,        \* the calls that reached the provider
  answer,      \* what each request was answered
  faults       \* the parts that broke in each request

vars == <<configured, clock, tokens, refilled, admissions, refusals, loop, phase,
          kind, calls, paid, answer, faults>>
bucket == <<tokens, refilled, admissions, refusals>>
spend  == <<calls, paid>>
world  == <<configured, clock>>

Full == Burst * UnitsPerToken

Keys   == {"accepted", "wrong"}
Bodies == {"valid", "invalid", "oversized"}

Phases == {"new", "reading", "parsing", "starting", "rendering", "degrading",
           "assembling", "salvaging", "wiring", "stripping", "done"}

\* The stage an engine failure is filed under; "none" without a failure.
Failures == {"none", "pre_generation", "unknown", "assemble"}

\* A status, whether the render counts as degenerate, the generator calls it
\* records, the outfits it shows (one stands for any), and the failure.
Reply(status, degenerate, recorded, shown, failure) ==
  [status |-> status, degenerate |-> degenerate, recorded |-> recorded,
   shown |-> shown, failure |-> failure]

Refused(status) == Reply(status, FALSE, 0, 0, "none")
Unanswered      == Refused(0)

Init ==
  /\ configured \in BOOLEAN
  /\ clock = 0 /\ tokens = Full /\ refilled = 0
  /\ admissions = <<>> /\ refusals = {}
  /\ loop = Nobody
  /\ phase = [r \in Clients |-> "new"]
  /\ kind \in [Clients -> [key : Keys, body : Bodies]]
  /\ calls = [r \in Clients |-> 0] /\ paid = [r \in Clients |-> 0]
  /\ answer = [r \in Clients |-> Unanswered]
  /\ faults = [r \in Clients |-> 0]

Tick ==
  /\ clock < MaxClock /\ clock' = clock + 1
  /\ UNCHANGED <<configured, bucket, loop, phase, kind, spend, answer, faults>>

To(r, next) ==
  /\ phase' = [phase EXCEPT ![r] = next]
  /\ UNCHANGED <<loop, answer>>

Answer(r, reply) ==
  /\ phase' = [phase EXCEPT ![r] = "done"]
  /\ answer' = [answer EXCEPT ![r] = reply]
  /\ loop' = Nobody

Break(r, parts) ==
  /\ faults[r] + parts <= MaxFaults
  /\ faults' = [faults EXCEPT ![r] = @ + parts]

Free(r) == loop \in {Nobody, r}

(***************************************************************************)
(* authorize and throttle, before a byte of the body is read.              *)
(***************************************************************************)
\* Mutant of Refilled: the balance grows over the burst.
RefilledUncapped == tokens + (clock - refilled) * RefillPerTick

Refilled ==
  LET grown == tokens + (clock - refilled) * RefillPerTick
  IN  IF grown < Full THEN grown ELSE Full

\* Mutant of Refuse: a refusal restarts the refill.
RefuseForgetting ==
  /\ tokens' = tokens
  /\ refusals' = refusals \cup {[at |-> clock, after |-> Len(admissions)]}
  /\ UNCHANGED admissions

Refuse ==
  /\ tokens' = Refilled
  /\ refusals' = refusals \cup {[at |-> clock, after |-> Len(admissions)]}
  /\ UNCHANGED admissions

Acquire ==
  /\ tokens' = Refilled - UnitsPerToken
  /\ admissions' = Append(admissions, clock)
  /\ UNCHANGED refusals

\* Mutant of Admit: the request keeps the loop while its body arrives.
AdmitHolding(r) ==
  /\ phase' = [phase EXCEPT ![r] = "reading"] /\ loop' = r
  /\ UNCHANGED answer

Admit(r) == To(r, "reading")

TurnAway(r) ==
  /\ phase[r] = "new" /\ Free(r)
  /\ ~configured \/ kind[r].key = "wrong"
  /\ Answer(r, Refused(IF configured THEN 401 ELSE 500))
  /\ UNCHANGED <<world, bucket, kind, spend, faults>>

Throttle(r) ==
  /\ phase[r] = "new" /\ Free(r)
  /\ configured /\ kind[r].key # "wrong"
  /\ refilled' = clock
  /\ \/ Refilled >= UnitsPerToken /\ Acquire /\ Admit(r)
     \/ Refilled < UnitsPerToken /\ Refuse /\ Answer(r, Refused(429))
  /\ UNCHANGED <<world, kind, spend, faults>>

(***************************************************************************)
(* The body arrives in full, or the client breaks off and what came is     *)
(* handled: a part is no JSON, but all of it may have come already.        *)
(***************************************************************************)
Handed(r) ==
  /\ phase' = [phase EXCEPT ![r] = "parsing"] /\ loop' = r
  /\ UNCHANGED answer

Deliver(r) ==
  /\ phase[r] = "reading" /\ Free(r)
  /\ \/ kind[r].body = "oversized" /\ Answer(r, Refused(400))
     \/ kind[r].body # "oversized" /\ Handed(r)
  /\ UNCHANGED <<world, bucket, kind, spend, faults>>

Disconnect(r) ==
  /\ phase[r] = "reading" /\ Free(r)
  /\ \E came \in {"invalid", kind[r].body} \ {"oversized"} :
       kind' = [kind EXCEPT ![r].body = came]
  /\ Handed(r)
  /\ UNCHANGED <<world, bucket, spend, faults>>

(***************************************************************************)
(* handle_render. Every action below is a step of the request that holds   *)
(* the loop; a part that breaks raises an exception.                       *)
(***************************************************************************)
At(r, where) == loop = r /\ phase[r] = where

\* What breaks before the first guard ends as the bare 500 of the transport.
Parse(r) ==
  /\ At(r, "parsing")
  /\ \/ kind[r].body = "valid" /\ To(r, "starting") /\ UNCHANGED faults
     \/ kind[r].body # "valid" /\ Answer(r, Refused(400)) /\ UNCHANGED faults
     \/ Answer(r, Refused(500)) /\ Break(r, 1)
  /\ UNCHANGED <<world, bucket, kind, spend>>

\* The reducers, the scorer and the construction of the generator.
Start(r) ==
  /\ At(r, "starting")
  /\ \/ To(r, "rendering") /\ UNCHANGED faults
     \/ To(r, "degrading") /\ Break(r, 1)
  /\ UNCHANGED <<world, bucket, kind, spend>>

\* Mutant of Counted: a call is counted when its answer is there.
CountedLate(r, broke) == IF broke THEN calls[r] ELSE calls[r] + 1

\* A call is counted before it is made, so also when it raises.
Counted(r, broke) == calls[r] + 1

\* The model is asked, and once more to repair a text that is no JSON. A
\* call that raises may have reached the provider or not.
Call(r) ==
  /\ At(r, "rendering") /\ calls[r] < 2
  /\ \/ /\ calls' = [calls EXCEPT ![r] = Counted(r, FALSE)]
        /\ paid' = [paid EXCEPT ![r] = @ + 1]
        /\ UNCHANGED <<phase, loop, answer, faults>>
     \/ /\ calls' = [calls EXCEPT ![r] = Counted(r, TRUE)]
        /\ \E reached \in {0, 1} : paid' = [paid EXCEPT ![r] = @ + reached]
        /\ To(r, "degrading") /\ Break(r, 1)
  /\ UNCHANGED <<world, bucket, kind>>

\* The engine returns a trace, or breaks in one of its pure parts.
Return(r) ==
  /\ At(r, "rendering")
  /\ \/ To(r, "assembling") /\ UNCHANGED faults
     \/ To(r, "degrading") /\ Break(r, 1)
  /\ UNCHANGED <<world, bucket, kind, spend>>

FailureStage(r) == IF calls[r] = 0 THEN "pre_generation" ELSE "unknown"

\* A render without a trace is filed by its count of calls; there is no
\* second record behind this one.
Degrade(r) ==
  /\ At(r, "degrading")
  /\ \/ Answer(r, Reply(200, TRUE, calls[r], 0, FailureStage(r))) /\ UNCHANGED faults
     \/ Answer(r, Refused(500)) /\ Break(r, 1)
  /\ UNCHANGED <<world, bucket, kind, spend>>

\* The snapshot, the shown entries and the wire form of a render with a
\* trace. An outfit is only shown after a call; a paid render that shows
\* nothing is degenerate, one that was refused unasked is not.
Assemble(r) ==
  /\ At(r, "assembling")
  /\ \/ /\ \E shown \in {0, 1} :
             /\ shown = 1 => calls[r] > 0
             /\ Answer(r, Reply(200, calls[r] > 0 /\ shown = 0, calls[r], shown, "none"))
        /\ UNCHANGED faults
     \/ To(r, "salvaging") /\ Break(r, 1)
  /\ UNCHANGED <<world, bucket, kind, spend>>

\* The record salvaged from the trace; when that breaks, the record without.
Salvage(r) ==
  /\ At(r, "salvaging")
  /\ \/ To(r, "wiring") /\ UNCHANGED faults
     \/ To(r, "wiring") /\ Break(r, 1)
     \/ Answer(r, Refused(500)) /\ Break(r, 2)
  /\ UNCHANGED <<world, bucket, kind, spend>>

Salvaged(r) == Reply(200, TRUE, calls[r], 0, "assemble")

Wire(r) ==
  /\ At(r, "wiring")
  /\ \/ Answer(r, Salvaged(r)) /\ UNCHANGED faults
     \/ To(r, "stripping") /\ Break(r, 1)
  /\ UNCHANGED <<world, bucket, kind, spend>>

\* The last resort: the record without the trace is built and sent.
Strip(r) ==
  /\ At(r, "stripping")
  /\ \/ Answer(r, Salvaged(r)) /\ UNCHANGED faults
     \/ Answer(r, Refused(500)) /\ Break(r, 1)
  /\ UNCHANGED <<world, bucket, kind, spend>>

Handle(r) ==
  \/ Parse(r) \/ Start(r) \/ Call(r) \/ Return(r) \/ Degrade(r)
  \/ Assemble(r) \/ Salvage(r) \/ Wire(r) \/ Strip(r)
Admission(r) == TurnAway(r) \/ Throttle(r)
Receive(r)   == Deliver(r) \/ Disconnect(r)

Next == Tick \/ \E r \in Clients : Admission(r) \/ Receive(r) \/ Handle(r)

Spec == Init /\ [][Next]_vars

\* The loop runs whatever is ready, and a call of the generator times out;
\* nothing says that a body ever arrives, except for the prompt clients.
Fairness ==
  /\ \A r \in Clients : WF_vars(Admission(r)) /\ WF_vars(Handle(r))
  /\ \A r \in Prompt : WF_vars(Receive(r))

FairSpec == Spec /\ Fairness

-----------------------------------------------------------------------------
(***************************************************************************)
(* What the service promises.                                              *)
(***************************************************************************)

Answers == {Refused(s) : s \in {0, 400, 401, 429, 500}}
             \cup [status : {200}, degenerate : BOOLEAN, recorded : 0..2,
                   shown : {0, 1}, failure : Failures]

\* Every variable has its type; the balance is never negative nor over the
\* burst, and the bucket is never ahead of the clock.
TypeOK ==
  /\ configured \in BOOLEAN
  /\ clock \in 0..MaxClock /\ refilled \in 0..clock /\ tokens \in 0..Full
  /\ admissions \in Seq(Nat) /\ refusals \subseteq [at : Nat, after : Nat]
  /\ loop \in Clients \cup {Nobody}
  /\ phase \in [Clients -> Phases]
  /\ kind \in [Clients -> [key : Keys, body : Bodies]]
  /\ calls \in [Clients -> 0..2] /\ paid \in [Clients -> 0..2]
  /\ answer \in [Clients -> Answers]
  /\ faults \in [Clients -> 0..MaxFaults]

\* The rate ceiling (_TokenBucket): between any two admissions the service
\* admits no more than the burst and what came back in between, whatever the
\* order of requests, refusals and idle times.
RateBound ==
  \A i, j \in DOMAIN admissions :
    i <= j => (j - i + 1) * UnitsPerToken
                <= Full + (admissions[j] - admissions[i]) * RefillPerTick

\* And it refuses only at the ceiling: one more admission at that moment
\* would have broken it for some window.
RefusedOnlyAtCeiling ==
  \A no \in refusals :
    \E i \in 1..no.after :
      (no.after - i + 2) * UnitsPerToken > Full + (no.at - admissions[i]) * RefillPerTick

\* "Constructable at every internal failure point" (handle_render): one part
\* that breaks never loses the record of a paid render. What is recorded is
\* no less than what was paid, and a failure filed before the generation cost
\* nothing.
SpendRecorded ==
  \A r \in Clients :
    phase[r] = "done" =>
      /\ paid[r] > 0 /\ faults[r] <= 1 => answer[r].status = 200
      /\ answer[r].status = 200 => answer[r].recorded >= paid[r]
      /\ answer[r].failure = "pre_generation" => paid[r] = 0

\* What the bounds rest on. Credit: the balance and the admissions since any
\* of them never exceed the burst and what came back. Ceiling: the balance is
\* full, or reaches that sum for some admission. Spending: what each stage of
\* the failure chain already cost.
Credit ==
  \A i \in DOMAIN admissions :
    /\ admissions[i] <= refilled
    /\ tokens + (Len(admissions) - i + 1) * UnitsPerToken
         <= Full + (refilled - admissions[i]) * RefillPerTick

Ceiling ==
  /\ \/ tokens = Full
     \/ \E i \in DOMAIN admissions :
          tokens + (Len(admissions) - i + 1) * UnitsPerToken
            >= Full + (refilled - admissions[i]) * RefillPerTick
  /\ \A no \in refusals : no.after <= Len(admissions)

Spending ==
  \A r \in Clients :
    /\ paid[r] <= calls[r]
    /\ phase[r] \in {"new", "reading", "parsing", "starting"} => calls[r] = 0
    /\ phase[r] \in {"degrading", "salvaging", "wiring"} => faults[r] >= 1
    /\ phase[r] = "stripping" => faults[r] >= 2
    /\ phase[r] # "done" => answer[r] = Unanswered

ServiceInv ==
  /\ TypeOK
  /\ RateBound /\ Credit
  /\ RefusedOnlyAtCeiling /\ Ceiling
  /\ SpendRecorded /\ Spending

\* A request is answered in the end though others never finish their body:
\* the loop is not held while a body is awaited (_read_body_capped).
NobodyBlocks == \A r \in Prompt : <>(phase[r] = "done")
=============================================================================
