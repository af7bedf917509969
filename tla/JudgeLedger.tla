---------------------------- MODULE JudgeLedger -----------------------------
(* The paid judge ledgers of the H26 experiment: run_judge.py, gpt_judge.py,*)
(* evaluate.py and gate_b_extension.py in ml-system/experiments/h26.        *)
(*                                                                          *)
(* Four commands work on the same files, each started by hand, for hours,   *)
(* possibly at the same time: gate-b deletes and regenerates the original   *)
(* ledger, run appends to the extension ledger, emit and analyze score a    *)
(* ledger and record its hash. The operator commits files whenever he likes.*)
(* Every row costs an API call. A command can be killed at any point; the   *)
(* rows of one question in one order are appended together, and a kill may  *)
(* leave the first few of them. The answers themselves are abstracted: a    *)
(* row is the run that paid for it, and its place.                          *)
EXTENDS Naturals, FiniteSets, SequencesExt

CONSTANTS
  Prefix,     \* the gate-B questions, in the frozen order
  Extension,  \* the questions the extension adds, in the frozen order
  K,          \* samples per question and order
  MaxRuns,    \* how many paid runs are ever started
  Absent

Ledgers   == {"original", "extension"}
Orders    == <<"forward", "reverse">>
Questions == ToSet(Prefix \o Extension)
Commands  == {"gate-b", "run", "emit", "analyze"}
Row       == [question : Questions, order : ToSet(Orders), sample : 0 .. K - 1, run : 1 .. MaxRuns]

JudgeAssumption ==
  /\ Prefix \in Seq(Questions) /\ Extension \in Seq(Questions)
  /\ IsInjective(Prefix \o Extension)
  /\ K \in Nat /\ K >= 2
  /\ MaxRuns \in Nat
  /\ Absent \notin Seq(Row)

ASSUME JudgeAssumption

VARIABLES
  addendum,  \* "draft", "frozen" or "committed"
  frozen,    \* gate_b_extension.json: the original ledger it binds, or Absent
  frozenIn,  \* whether it is committed
  ledger,    \* the two ledgers in the working tree
  head,      \* the two ledgers in HEAD
  history,   \* ghost: every row that is in some commit
  paid,      \* ghost: every row ever written
  runs,      \* how many paid runs were started
  pc,        \* where each command is
  todo,      \* the batches a paid run has before it
  mine,      \* the number of a paid run
  seen,      \* the ledgers a scoring command has hashed
  held,      \* the rows it has read
  metrics,   \* metrics.json
  extended   \* metrics_extension.json

freezes == <<addendum, frozen, frozenIn>>
files   == <<ledger, head, history, paid, runs>>
local   == <<todo, mine, seen, held>>
outputs == <<metrics, extended>>
vars    == <<freezes, files, pc, local, outputs>>

-----------------------------------------------------------------------------
(* Reading a ledger. *)

Rows(l) == IF l = Absent THEN <<>> ELSE l

Place(r) == <<r.question, r.order, r.sample>>

\* Keep-last on (order, sample): no later row of the question has its place.
Latest(rows, n) == \A m \in DOMAIN rows : Place(rows[m]) = Place(rows[n]) => m <= n

Samples(rows, q, o) ==
  {n \in 0 .. K - 1 : \E r \in ToSet(rows) : r.question = q /\ r.order = o /\ r.sample = n}

\* group_samples: both orders of every question, exactly K samples each.
Grouped(rows, questions) ==
  \A q \in ToSet(questions), o \in ToSet(Orders) : Samples(rows, q, o) = 0 .. K - 1

Scores(rows, questions) ==
  {rows[n] : n \in {m \in DOMAIN rows : rows[m].question \in ToSet(questions) /\ Latest(rows, m)}}

\* Mutant of Complete: rows are counted, not the places they fill.
CompleteByCount(rows, q) ==
  Cardinality({n \in DOMAIN rows : rows[n].question = q}) = 2 * K

\* plan_resume: a question is done when both orders have their K samples.
Complete(rows, q) ==
  \A o \in ToSet(Orders) : Samples(rows, q, o) = 0 .. K - 1

\* What is judged at once: the place of a question, and one of the two orders.
Batches(questions) == (1 .. Len(questions)) \X (1 .. 2)

\* A question is judged in both orders before the next one.
NotAfter(b, d) == b[1] < d[1] \/ (b[1] = d[1] /\ b[2] <= d[2])

\* Mutant of Todo: only the order that is short is judged again.
TodoOrders(rows) ==
  {b \in Batches(Extension) : Samples(rows, Extension[b[1]], Orders[b[2]]) # 0 .. K - 1}

\* What is left to judge; an incomplete question is judged again whole.
Todo(rows) == {b \in Batches(Extension) : ~Complete(rows, Extension[b[1]])}

\* RealGit.identity: the file is in HEAD and has not been touched since.
Clean(l) == ledger[l] # Absent /\ ledger[l] = head[l]

-----------------------------------------------------------------------------
(* Initially nothing has been judged and the addendum is a draft. *)

Init ==
  /\ addendum = "draft"
  /\ frozen = Absent /\ frozenIn = FALSE
  /\ ledger = [l \in Ledgers |-> Absent]
  /\ head = [l \in Ledgers |-> Absent]
  /\ history = {} /\ paid = {} /\ runs = 0
  /\ pc = [c \in Commands |-> "idle"]
  /\ todo = [c \in Commands |-> {}]
  /\ mine = [c \in Commands |-> 0]
  /\ seen = [c \in Commands |-> Absent]
  /\ held = [c \in Commands |-> <<>>]
  /\ metrics = Absent
  /\ extended = Absent

-----------------------------------------------------------------------------
(* The operator. *)

FreezeAddendum ==
  /\ addendum # "committed"
  /\ addendum' = IF addendum = "draft" THEN "frozen" ELSE "committed"
  /\ UNCHANGED <<frozen, frozenIn, files, pc, local, outputs>>

Commit(l) ==
  /\ ledger[l] # Absent /\ ~Clean(l)
  /\ head' = [head EXCEPT ![l] = ledger[l]]
  /\ history' = history \cup ToSet(ledger[l])
  /\ UNCHANGED <<freezes, ledger, paid, runs, pc, local, outputs>>

\* cmd_freeze: one-shot, and only for the ledger whose hash is in metrics.json.
FreezeExtension ==
  /\ frozen = Absent
  /\ metrics # Absent /\ ledger["original"] = metrics.ledger
  /\ frozen' = ledger["original"]
  /\ UNCHANGED <<addendum, frozenIn, files, pc, local, outputs>>

CommitFreeze ==
  /\ frozen # Absent /\ ~frozenIn
  /\ frozenIn' = TRUE
  /\ UNCHANGED <<addendum, frozen, files, pc, local, outputs>>

-----------------------------------------------------------------------------
(* The paid commands: gate-b and run. *)

Ended(c) ==
  /\ pc' = [pc EXCEPT ![c] = "idle"]
  /\ todo' = [todo EXCEPT ![c] = {}]
  /\ mine' = [mine EXCEPT ![c] = 0]
  /\ seen' = [seen EXCEPT ![c] = Absent]
  /\ held' = [held EXCEPT ![c] = <<>>]

\* require_frozen_envelope.
EnvelopeFrozen == addendum = "committed"

\* require_extension_freeze.
ExtensionFrozen == frozen # Absent /\ frozenIn /\ ledger["original"] = frozen

\* Mutant of MayRemove: any ledger that was ever committed may go.
MayRemoveTracked == ledger["original"] = Absent \/ head["original"] # Absent

\* _guard_gate_b_ledger: only a ledger git has, byte for byte, is removed.
MayRemove == ledger["original"] = Absent \/ Clean("original")

\* cmd_gate_b up to the first call: the guard deletes the old ledger.
StartGateB ==
  /\ pc["gate-b"] = "idle" /\ runs < MaxRuns
  /\ EnvelopeFrozen
  /\ MayRemove
  /\ ledger' = [ledger EXCEPT !["original"] = Absent]
  /\ runs' = runs + 1
  /\ mine' = [mine EXCEPT !["gate-b"] = runs + 1]
  /\ todo' = [todo EXCEPT !["gate-b"] = Batches(Prefix)]
  /\ pc' = [pc EXCEPT !["gate-b"] = "judging"]
  /\ UNCHANGED <<freezes, head, history, paid, seen, held, outputs>>

\* cmd_run up to the first call: what is complete is left out.
StartRun ==
  /\ pc["run"] = "idle" /\ runs < MaxRuns
  /\ EnvelopeFrozen /\ ExtensionFrozen
  /\ LET left == Todo(Rows(ledger["extension"])) IN
       /\ left # {}
       /\ todo' = [todo EXCEPT !["run"] = left]
  /\ runs' = runs + 1
  /\ mine' = [mine EXCEPT !["run"] = runs + 1]
  /\ pc' = [pc EXCEPT !["run"] = "judging"]
  /\ UNCHANGED <<freezes, ledger, head, history, paid, seen, held, outputs>>

Into(c)  == IF c = "gate-b" THEN "original" ELSE "extension"
Asked(c) == IF c = "gate-b" THEN Prefix ELSE Extension

\* The batch a run comes to next.
Upcoming(c) == {b \in todo[c] : \A d \in todo[c] : NotAfter(b, d)}

\* run_question_order: the K rows of one question in one order.
Batch(c, b) ==
  [n \in 1 .. K |-> [question |-> Asked(c)[b[1]], order |-> Orders[b[2]],
                     sample |-> n - 1, run |-> mine[c]]]

\* write_ledger.
Appended(c, rows) ==
  /\ ledger' = [ledger EXCEPT ![Into(c)] = Rows(@) \o rows]
  /\ paid' = paid \cup ToSet(rows)

Judge(c) ==
  /\ pc[c] = "judging"
  /\ \E b \in Upcoming(c) :
       /\ Appended(c, Batch(c, b))
       /\ todo' = [todo EXCEPT ![c] = @ \ {b}]
  /\ UNCHANGED <<freezes, head, history, runs, pc, mine, seen, held, outputs>>

\* group_samples of what was written is only printed.
Judged(c) ==
  /\ pc[c] = "judging" /\ todo[c] = {}
  /\ Ended(c)
  /\ UNCHANGED <<freezes, files, outputs>>

\* A paid run is killed: some first rows of the batch may have been written.
Killed(c) ==
  /\ pc[c] = "judging"
  /\ \E b \in Upcoming(c), n \in 0 .. K - 1 :
       IF n = 0 THEN UNCHANGED <<ledger, paid>>
                ELSE Appended(c, SubSeq(Batch(c, b), 1, n))
  /\ Ended(c)
  /\ UNCHANGED <<freezes, head, history, runs, outputs>>

-----------------------------------------------------------------------------
(* The scoring commands: emit and analyze. *)

\* materialize_metrics_json before the retrain of several hours: validate_unlock_files,
\* and the first half of assert_ledger_committed, the question to git.
EmitPreflight ==
  /\ pc["emit"] = "idle"
  /\ EnvelopeFrozen
  /\ Clean("original")
  /\ pc' = [pc EXCEPT !["emit"] = "hashing"]
  /\ UNCHANGED <<freezes, files, local, outputs>>

\* Its second half: the file is opened again and hashed.
EmitHash ==
  /\ pc["emit"] = "hashing"
  /\ IF ledger["original"] # Absent
       THEN /\ seen' = [seen EXCEPT !["emit"] = ledger["original"]]
            /\ pc' = [pc EXCEPT !["emit"] = "retraining"]
            /\ UNCHANGED <<todo, mine, held>>
       ELSE Ended("emit")
  /\ UNCHANGED <<freezes, files, outputs>>

\* Mutant of StillCommitted: git is asked before the retrain only.
LedgerTrusted == ledger["original"] # Absent

StillCommitted == Clean("original")

\* assert_ledger_unchanged_since_preflight after the retrain: git is asked again,
EmitRecheck ==
  /\ pc["emit"] = "retraining"
  /\ IF StillCommitted
       THEN /\ pc' = [pc EXCEPT !["emit"] = "rehashing"]
            /\ UNCHANGED local
       ELSE Ended("emit")
  /\ UNCHANGED <<freezes, files, outputs>>

\* and the file is hashed again, and must be what was hashed before.
EmitRehash ==
  /\ pc["emit"] = "rehashing"
  /\ IF ledger["original"] = seen["emit"]
       THEN /\ pc' = [pc EXCEPT !["emit"] = "reading"]
            /\ UNCHANGED local
       ELSE Ended("emit")
  /\ UNCHANGED <<freezes, files, outputs>>

\* read_ledger opens the file once more; what it holds by now is scored.
EmitRead ==
  /\ pc["emit"] = "reading"
  /\ IF ledger["original"] # Absent /\ Grouped(Rows(ledger["original"]), Prefix)
       THEN /\ held' = [held EXCEPT !["emit"] = ledger["original"]]
            /\ pc' = [pc EXCEPT !["emit"] = "scored"]
            /\ UNCHANGED <<todo, mine, seen>>
       ELSE Ended("emit")
  /\ UNCHANGED <<freezes, files, outputs>>

\* emit_metrics.
EmitWrite ==
  /\ pc["emit"] = "scored"
  /\ metrics' = [ledger |-> seen["emit"], scores |-> Scores(held["emit"], Prefix)]
  /\ Ended("emit")
  /\ UNCHANGED <<freezes, files, extended>>

\* cmd_analyze: both ledgers are hashed, committed-clean.
AnalyzeHash ==
  /\ pc["analyze"] = "idle"
  /\ EnvelopeFrozen /\ ExtensionFrozen
  /\ Clean("original") /\ Clean("extension")
  /\ seen' = [seen EXCEPT !["analyze"] = ledger]
  /\ pc' = [pc EXCEPT !["analyze"] = "loading"]
  /\ UNCHANGED <<freezes, files, todo, mine, held, outputs>>

\* Once the corpus is loaded, the extension ledger is read and must be complete.
AnalyzeExtension ==
  /\ pc["analyze"] = "loading"
  /\ IF Todo(Rows(ledger["extension"])) = {}
       THEN /\ held' = [held EXCEPT !["analyze"] = Rows(ledger["extension"])]
            /\ pc' = [pc EXCEPT !["analyze"] = "reading"]
            /\ UNCHANGED <<todo, mine, seen>>
       ELSE Ended("analyze")
  /\ UNCHANGED <<freezes, files, outputs>>

\* Once the head is loaded, the original ledger is read and all is scored.
AnalyzeOriginal ==
  /\ pc["analyze"] = "reading"
  /\ LET rows == Rows(ledger["original"]) \o held["analyze"] IN
       IF ledger["original"] # Absent /\ Grouped(rows, Prefix \o Extension)
         THEN extended' = [ledgers |-> seen["analyze"],
                           scores |-> Scores(rows, Prefix \o Extension)]
         ELSE UNCHANGED extended
  /\ Ended("analyze")
  /\ UNCHANGED <<freezes, files, metrics>>

\* A scoring command is killed, or refused by a check that is not modelled.
ScoringKilled(c) ==
  /\ c \in {"emit", "analyze"} /\ pc[c] # "idle"
  /\ Ended(c)
  /\ UNCHANGED <<freezes, files, outputs>>

-----------------------------------------------------------------------------
Operator == FreezeAddendum \/ FreezeExtension \/ CommitFreeze \/ \E l \in Ledgers : Commit(l)
Paying   == StartGateB \/ StartRun \/ \E c \in {"gate-b", "run"} : Judge(c) \/ Judged(c) \/ Killed(c)
Scoring  == EmitPreflight \/ EmitHash \/ EmitRecheck \/ EmitRehash \/ EmitRead \/ EmitWrite
              \/ AnalyzeHash \/ AnalyzeExtension \/ AnalyzeOriginal
              \/ \E c \in {"emit", "analyze"} : ScoringKilled(c)

Next == Operator \/ Paying \/ Scoring
Spec == Init /\ [][Next]_vars

-----------------------------------------------------------------------------
(* Properties. *)

\* No answer that was paid for and written is ever lost: each row is in a working
\* file or in a commit, whatever is regenerated and whenever runs die.
PaidRowsKept ==
  paid \subseteq ToSet(Rows(ledger["original"])) \cup ToSet(Rows(ledger["extension"])) \cup history

\* The samples scored for one question, in both orders, come from one run, even
\* when earlier runs died in the middle of it; so its votes are never a mixture.
OneRunPerQuestion ==
  \A m \in {metrics, extended} \ {Absent} :
    \A r, s \in m.scores : r.question = s.question => r.run = s.run

\* What metrics.json says of its source can be checked for good: all the rows
\* behind the hash it records are in git, although the commit is looked at and
\* the file hashed at different times; and they are all among the rows that were
\* scored, unless the ledger was regenerated before it was read, when the scored
\* rows are all of a later run. Two generations are never mixed.
EmissionInGit ==
  metrics # Absent =>
    \A r \in ToSet(metrics.ledger) :
      /\ r \in history
      /\ r \in metrics.scores \/ \A s \in metrics.scores : s.run > r.run

\* What assert_ledger_unchanged_since_preflight says of itself: the recorded hash
\* is the hash of the bytes that are scored. It is looked at before they are read.
ShaOfConsumedBytes ==
  metrics # Absent => metrics.scores = Scores(metrics.ledger, Prefix)

\* A question that is complete is never paid for again, and one row is enough
\* to see it: the leftovers of dead runs do not count.
CompleteNotRepaid ==
  [][\A q \in ToSet(Extension) :
       Complete(Rows(ledger["extension"]), q) =>
         \A r \in paid' \ paid : r.question # q]_vars
=============================================================================
