----------------------------- MODULE OptionsBatch -----------------------------
(***************************************************************************)
(* One multi-leg options strategy of one user, executed and retried        *)
(* (api/options.py: execute_options_strategy, _submit_leg and              *)
(* _remediate_partial_batch).                                              *)
(*                                                                         *)
(* The legs go to the broker one after the other, each an order with a key *)
(* of its own.  When they do not all fill, what the call newly opened is   *)
(* given back, unless some leg's fate is unknown, and the account halts.   *)
(* Calls are serialised by the user's lock (TradeLock); each await is a    *)
(* step boundary, at which the process may die or a write may raise.       *)
(* Between two calls other orders of the user trade the same contracts,    *)
(* and at any time somebody else may halt or resume the account.  A stop   *)
(* that such an order left resting on a contract is not here, nor firing.  *)
(*                                                                         *)
(* A batch is a sequence of legs; its id is a function of the request, so  *)
(* a retry is the same batch.  Quantities are signed and counted in lots.  *)
(* Nothing in the code asks that its legs be of different contracts; the   *)
(* key of an order names the batch and the contract.                       *)
(***************************************************************************)
EXTENDS Integers, Sequences, FiniteSets

CONSTANTS Symbols,    \* the option contracts
          Batches,    \* the strategies that may be asked for
          MaxHeld,    \* bound: the largest position before the first call
          MaxFaults   \* bound: faults, crashes, resumes and other orders

Sides == {-1, 1}
Legs  == [sym : Symbols, side : Sides, qty : Nat \ {0}]

ASSUME BatchesAssumption == \A b \in Batches : b \in Seq(Legs) /\ b # <<>>
ASSUME BoundsAssumption == MaxHeld \in Nat /\ MaxFaults \in Nat

VARIABLES
  batch,     \* the strategy of this behaviour
  start,     \* the positions but for it: before its first call, and by other orders since
  approved,  \* history: the sizes its first call was approved for, leg by leg
  pc,        \* where the call stands
  phase,     \* is it placing legs or unwinding them
  work,      \* the orders it still has to send
  cur,       \* the order being sent: size, and the position before it
  reducing,  \* is_reducing
  results,   \* the statuses of the legs so far
  opened,    \* what the call newly opened, leg by leg
  orders,    \* the order manager, by key
  rows,      \* the orders table
  book,      \* the positions in memory
  saved,     \* the positions table
  real,      \* the positions at the broker
  halted,    \* the Redis flag
  underHalt, \* history: the flag as the last call found it
  sent,      \* history: how often each key was sent
  answer,    \* how the last call ended
  lapses,    \* history: what went wrong so far
  faults     \* bound: faults left

callVars   == <<phase, work, cur, reducing, results, opened>>
memoryVars == <<orders, book>>
tableVars  == <<rows, saved>>
fixedVars  == <<batch, start, approved, underHalt>>
vars == <<fixedVars, pc, callVars, memoryVars, tableVars, real, halted, sent, answer, lapses, faults>>

(* Lapses are "partial", "resting", "raised", "interrupted", "resumed".    *)
Keys     == {"leg", "unwind"} \X Symbols
NoOrder  == [size |-> 0, before |-> 0]

Abs(n)      == IF n < 0 THEN -n ELSE n
Least(m, n) == IF m < n THEN m ELSE n

(* Every leg stands against an open position.                              *)
Reduces(b, positions) == \A i \in DOMAIN b : positions[b[i].sym] * b[i].side < 0

(* What the risk engine approves of the legs, a reducing one clamped.      *)
Sizes(b, positions) ==
  [i \in DOMAIN b |-> IF Reduces(b, positions) THEN Least(b[i].qty, Abs(positions[b[i].sym])) ELSE b[i].qty]

Init ==
  /\ batch \in Batches /\ start \in [Symbols -> -MaxHeld .. MaxHeld]
  /\ approved = Sizes(batch, start) /\ underHalt = FALSE
  /\ pc = "idle" /\ phase = "legs" /\ work = <<>> /\ cur = NoOrder
  /\ reducing = FALSE /\ results = <<>> /\ opened = <<>>
  /\ orders = [k \in Keys |-> "none"] /\ rows = orders
  /\ book = start /\ saved = start /\ real = start
  /\ halted \in BOOLEAN
  /\ sent = [k \in Keys |-> 0]
  /\ answer = "none" /\ lapses = {} /\ faults = MaxFaults

Fault    == faults > 0 /\ faults' = faults - 1
Lapse(l) == lapses' = lapses \cup {l}
Sound    == UNCHANGED <<lapses, faults>>

Job == Head(work)
Key(job) == <<job.kind, job.sym>>
-----------------------------------------------------------------------------
(* POST /options/execute passes the halt, when it only reduces, and the    *)
(* risk gate.  The halt is not read again.                                 *)
Begin ==
  /\ pc = "idle" /\ (halted => Reduces(batch, book))
  /\ reducing' = Reduces(batch, book) /\ underHalt' = halted
  /\ approved' = IF \A k \in Keys : orders[k] = "none" THEN Sizes(batch, book) ELSE approved
  /\ phase' = "legs" /\ results' = <<>> /\ opened' = <<>> /\ cur' = NoOrder
  /\ work' = [i \in DOMAIN batch |->
                [kind |-> "leg", sym |-> batch[i].sym, side |-> batch[i].side, qty |-> batch[i].qty]]
  /\ pc' = "next" /\ answer' = "none"
  /\ UNCHANGED <<batch, start, memoryVars, tableVars, real, halted, sent>> /\ Sound

(* The halt or the gate refuses: nothing is created.                       *)
Refuse ==
  /\ pc = "idle" /\ answer' = "refused"
  /\ UNCHANGED <<fixedVars, pc, callVars, memoryVars, tableVars, real, halted, sent>> /\ Sound

(* Mutant: a reducing leg is not clamped to its position.                  *)
SizeUnclamped(job) ==
  IF job.kind = "unwind" THEN Least(job.qty, Abs(book[job.sym])) ELSE job.qty

(* A reducing leg and an unwind are clamped to what is open.  Something    *)
(* always is: no other call touches the positions between two steps.       *)
Size(job) ==
  IF job.kind = "unwind" \/ reducing THEN Least(job.qty, Abs(book[job.sym])) ELSE job.qty

(* Mutant: each call mints a batch id, and so new keys, of its own.        *)
SendAgain ==
  /\ pc = "next" /\ work # <<>>
  /\ orders' = [orders EXCEPT ![Key(Job)] = "SUBMITTED"]
  /\ sent' = [sent EXCEPT ![Key(Job)] = @ + 1]
  /\ cur' = [size |-> Size(Job), before |-> book[Job.sym]]
  /\ pc' = "wait"
  /\ UNCHANGED <<fixedVars, phase, work, reducing, results, opened, book, tableVars, real, halted, answer>>
  /\ Sound

(* The key is new: the order is created and sent.                          *)
Send ==
  /\ pc = "next" /\ work # <<>> /\ orders[Key(Job)] = "none"
  /\ orders' = [orders EXCEPT ![Key(Job)] = "SUBMITTED"]
  /\ sent' = [sent EXCEPT ![Key(Job)] = @ + 1]
  /\ cur' = [size |-> Size(Job), before |-> book[Job.sym]]
  /\ pc' = "wait"
  /\ UNCHANGED <<fixedVars, phase, work, reducing, results, opened, book, tableVars, real, halted, answer>>
  /\ Sound

(* The key is known: its order is saved again and counts as it stands.     *)
Dedupe ==
  /\ pc = "next" /\ work # <<>> /\ orders[Key(Job)] # "none"
  /\ cur' = [size |-> 0, before |-> book[Job.sym]]
  /\ pc' = "order"
  /\ UNCHANGED <<fixedVars, phase, work, reducing, results, opened, memoryVars, tableVars, real, halted, sent, answer>>
  /\ Sound
-----------------------------------------------------------------------------
Settle(status, filled) ==
  /\ pc = "wait" /\ pc' = "order"
  /\ orders' = [orders EXCEPT ![Key(Job)] = status]
  /\ book' = [book EXCEPT ![Job.sym] = @ + Job.side * filled]
  /\ UNCHANGED <<fixedVars, callVars, tableVars, halted, sent, answer>>

Executes(n) == real' = [real EXCEPT ![Job.sym] = @ + Job.side * n]

(* The broker fills the order, wholly or in part.                          *)
Fills ==
  /\ Settle("MONITORING", cur.size) /\ Executes(cur.size)
  /\ Sound

FillsPartly(n) ==
  /\ Settle("PARTIALLY_FILLED", n) /\ n < cur.size /\ Executes(n)
  /\ Lapse("partial") /\ UNCHANGED faults

(* The broker takes the order and has not filled it yet (SUBMITTED from    *)
(* UpstoxBroker, which execution.py records as ACKNOWLEDGED).              *)
Acknowledges ==
  /\ Settle("ACKNOWLEDGED", 0)
  /\ Executes(0) \/ Executes(cur.size)
  /\ Lapse("resting") /\ UNCHANGED faults

Rejects == Settle("REJECTED", 0) /\ Executes(0) /\ Sound

(* No answer: the order may have been executed.                            *)
Unanswered ==
  /\ Fault /\ Settle("FAILED", 0)
  /\ Executes(0) \/ Executes(cur.size)
  /\ UNCHANGED lapses

Leave(a) == pc' = "idle" /\ answer' = a

(* Any other exception leaves the call, and the order at SUBMITTED.        *)
SubmitRaises ==
  /\ pc = "wait" /\ Fault /\ Leave("failed") /\ Lapse("raised")
  /\ Executes(0) \/ Executes(cur.size)
  /\ UNCHANGED <<fixedVars, callVars, memoryVars, tableVars, halted, sent>>

(* persist_order commits.                                                  *)
SaveOrder ==
  /\ pc = "order" /\ pc' = "position"
  /\ rows' = [rows EXCEPT ![Key(Job)] = orders[Key(Job)]]
  /\ UNCHANGED <<fixedVars, callVars, memoryVars, saved, real, halted, sent, answer>> /\ Sound

(* Mutant: everything held now counts as newly opened.                     *)
HeldNow(before, after) == Abs(after)

(* How much of the position the fill newly opened.                         *)
NewlyOpened(before, after) ==
  IF before * after <= 0 THEN Abs(after)
  ELSE IF Abs(after) > Abs(before) THEN Abs(after) - Abs(before) ELSE 0

(* persist_position commits, and the leg is done.                          *)
SavePosition ==
  LET status == orders[Key(Job)]
      n == IF cur.size > 0 /\ status \in {"MONITORING", "PARTIALLY_FILLED"}
           THEN NewlyOpened(cur.before, book[Job.sym]) ELSE 0
  IN
  /\ pc = "position" /\ pc' = "next"
  /\ saved' = [saved EXCEPT ![Job.sym] = book[Job.sym]]
  /\ work' = Tail(work)
  /\ IF phase = "legs"
     THEN /\ results' = Append(results, status)
          /\ opened' = IF n > 0 THEN Append(opened,
                          [kind |-> "unwind", sym |-> Job.sym, side |-> -Job.side, qty |-> n])
                       ELSE opened
     ELSE UNCHANGED <<results, opened>>
  /\ UNCHANGED <<fixedVars, phase, cur, reducing, memoryVars, rows, real, halted, sent, answer>> /\ Sound

(* A write raises, or setting the halt does: the call ends there.          *)
WriteRaises ==
  /\ pc \in {"order", "position", "halt"} /\ Fault
  /\ Leave("failed") /\ Lapse("raised")
  /\ UNCHANGED <<fixedVars, callVars, memoryVars, tableVars, real, halted, sent>>
-----------------------------------------------------------------------------
LegsDone == pc = "next" /\ phase = "legs" /\ work = <<>>

Established == {i \in DOMAIN results : results[i] = "MONITORING"}
Unknown     == {i \in DOMAIN results : results[i] = "FAILED"}

(* Mutant: one established leg makes the strategy.                         *)
IntactBySome ==
  /\ LegsDone /\ Unknown = {} /\ Established # {}
  /\ Leave("intact")
  /\ UNCHANGED <<fixedVars, callVars, memoryVars, tableVars, real, halted, sent>> /\ Sound

(* Every leg is established.                                               *)
Intact ==
  /\ LegsDone /\ Unknown = {} /\ Established = DOMAIN results
  /\ Leave("intact")
  /\ UNCHANGED <<fixedVars, callVars, memoryVars, tableVars, real, halted, sent>> /\ Sound

(* Mutant: a leg of unknown fate counts as rejected.                       *)
NothingUnlessEstablished ==
  /\ LegsDone /\ Established = {}
  /\ Leave("nothing")
  /\ UNCHANGED <<fixedVars, callVars, memoryVars, tableVars, real, halted, sent>> /\ Sound

(* No leg is established and none unknown: taken for "nothing reached the  *)
(* exchange".                                                              *)
NothingReached ==
  /\ LegsDone /\ Unknown = {} /\ Established = {}
  /\ Leave("nothing")
  /\ UNCHANGED <<fixedVars, callVars, memoryVars, tableVars, real, halted, sent>> /\ Sound

(* Mutant: filled legs are unwound whatever became of the others.          *)
RemediateAlways ==
  /\ LegsDone /\ Established # DOMAIN results /\ Established \cup Unknown # {}
  /\ phase' = "unwind" /\ work' = opened
  /\ UNCHANGED <<fixedVars, pc, cur, reducing, results, opened, memoryVars, tableVars, real, halted, sent, answer>>
  /\ Sound

(* The strategy is only partly there: what was opened is unwound, unless   *)
(* the fate of a leg is unknown.                                           *)
Remediate ==
  /\ LegsDone /\ Established # DOMAIN results /\ Established \cup Unknown # {}
  /\ phase' = "unwind" /\ work' = IF Unknown = {} THEN opened ELSE <<>>
  /\ UNCHANGED <<fixedVars, pc, cur, reducing, results, opened, memoryVars, tableVars, real, halted, sent, answer>>
  /\ Sound

Unwound ==
  /\ pc = "next" /\ phase = "unwind" /\ work = <<>>
  /\ pc' = "halt"
  /\ UNCHANGED <<fixedVars, callVars, memoryVars, tableVars, real, halted, sent, answer>> /\ Sound

(* halt_account, then the notification, the audit record and the answer.   *)
Halt ==
  /\ pc = "halt" /\ Leave("partly")
  /\ halted' = TRUE
  /\ UNCHANGED <<fixedVars, callVars, memoryVars, tableVars, real, sent>> /\ Sound

(* A reconciliation pass halts the account, whoever is at work on it; so   *)
(* may, between two calls, another order of the user.                      *)
HaltElsewhere ==
  /\ ~halted /\ halted' = TRUE
  /\ UNCHANGED <<fixedVars, pc, callVars, memoryVars, tableVars, real, sent, answer>> /\ Sound

(* POST /admin/accounts/{id}/resume.                                       *)
Resume ==
  /\ halted /\ Fault
  /\ halted' = FALSE /\ Lapse("resumed")
  /\ UNCHANGED <<fixedVars, pc, callVars, memoryVars, tableVars, real, sent, answer>>

(* Another order of the user (POST /orders, another strategy) trades n     *)
(* lots of one contract between two calls, a halted account's only         *)
(* towards flat.                                                           *)
Elsewhere(s, n) ==
  /\ pc = "idle" /\ Fault
  /\ halted => book[s] * n < 0 /\ Abs(n) <= Abs(book[s])
  /\ start' = [start EXCEPT ![s] = @ + n]
  /\ book' = [book EXCEPT ![s] = @ + n]
  /\ real' = [real EXCEPT ![s] = @ + n]
  /\ saved' = [saved EXCEPT ![s] = book'[s]]
  /\ UNCHANGED <<batch, approved, underHalt, pc, callVars, orders, rows, halted, sent, answer, lapses>>

(* The process dies; orders and positions come back from their tables.  An *)
(* order on its way may have been executed.                                *)
Crash ==
  /\ Fault
  /\ orders' = rows /\ book' = saved
  /\ \/ UNCHANGED real
     \/ pc = "wait" /\ Executes(cur.size)
  /\ IF pc = "idle" THEN UNCHANGED <<pc, answer, lapses>>
                    ELSE Leave("failed") /\ Lapse("interrupted")
  /\ UNCHANGED <<fixedVars, callVars, tableVars, halted, sent>>
-----------------------------------------------------------------------------
Next ==
  \/ Begin \/ Refuse
  \/ Send \/ Dedupe
  \/ Fills \/ (\E n \in 1 .. cur.size : FillsPartly(n)) \/ Acknowledges \/ Rejects \/ Unanswered
  \/ SaveOrder \/ SavePosition
  \/ Intact \/ NothingReached \/ Remediate \/ Unwound \/ Halt
  \/ SubmitRaises \/ WriteRaises \/ Crash
  \/ HaltElsewhere \/ Resume \/ (\E s \in Symbols, n \in -MaxHeld .. MaxHeld : Elsewhere(s, n))

Spec == Init /\ [][Next]_vars
-----------------------------------------------------------------------------
(* Two legs of one contract share a key: the second is never sent and      *)
(* counts as established with the first.                                   *)
EachContractOnce == \A i, j \in DOMAIN batch : batch[i].sym = batch[j].sym => i = j

(* The positions once the strategy has been executed as approved.          *)
Approved ==
  [s \in Symbols |->
     LET legs == {i \in DOMAIN batch : batch[i].sym = s}
         leg  == CHOOSE i \in legs : TRUE
     IN IF legs = {} THEN start[s] ELSE start[s] + batch[leg].side * approved[leg]]

(* A strategy reported intact was executed as it was approved, each leg    *)
(* whole and once, also when a retry, a resumed account or a call after    *)
(* other orders asked: the positions are those the user's other orders     *)
(* left and the strategy's own on top (_remediate_partial_batch's verdict; *)
(* what those other orders closed of it, it does not see).                 *)
IntactMeansExecuted ==
  answer = "intact" /\ EachContractOnce /\ lapses \cap {"raised", "interrupted"} = {}
    => real = Approved

(* A call that returns leaves the approved strategy, or the positions as   *)
(* they are without it, or a halted account: nothing in between is kept    *)
(* quietly, whoever halts, resumes or trades meanwhile.                    *)
NothingKeptQuietly ==
  [][pc # "idle" /\ pc' = "idle" /\ EachContractOnce /\ lapses' \subseteq {"resumed"} =>
       halted' \/ real' \in {start, Approved}]_vars

(* Unwinding gives back what the call opened and no more: no position is   *)
(* sold below what was held before, or through zero to the other side      *)
(* (_submit_leg: "unwinding 50 would open a fresh position of its own").   *)
UnwindStopsAtStart ==
  [][pc # "idle" /\ phase = "unwind" /\ lapses' \cap {"raised", "interrupted"} = {} =>
       \A s \in Symbols :
         \/ book'[s] = book[s]
         \/ /\ Abs(book'[s]) < Abs(book[s]) /\ book[s] * book'[s] >= 0
            /\ book[s] * start[s] > 0 => Abs(book'[s]) >= Abs(start[s])]_vars

(* Unwind orders go out only while the book is what the broker holds, but  *)
(* for unwind orders that were themselves left unanswered                  *)
(* (_remediate_partial_batch: an unknown leg is never unwound).            *)
UnwindKnowsTheMarket ==
  [][lapses \cap {"resting", "raised", "interrupted"} = {} =>
       \A s, t \in Symbols :
         sent'[<<"unwind", s>>] > sent[<<"unwind", s>>] /\ orders[<<"unwind", t>>] # "FAILED"
           => real[t] = book[t]]_vars

(* A retry sends nothing again (the batch id is derived from the request). *)
OneSubmissionPerLeg ==
  lapses \cap {"raised", "interrupted"} = {} => \A k \in Keys : sent[k] <= 1

(* A call let through a halt turns over and grows no position, however     *)
(* long it takes and whoever resumes the account meanwhile                 *)
(* (execute_options_strategy's is_reducing).  A halt that comes while a    *)
(* call is under way does not bind that call.                              *)
HaltedOnlyReduces ==
  [][pc # "idle" /\ underHalt /\ lapses' \cap {"resting", "raised", "interrupted"} = {} =>
       \A s \in Symbols : Abs(real'[s]) <= Abs(real[s]) /\ real[s] * real'[s] >= 0]_vars

(* When something executed and the strategy is not whole the account is    *)
(* halted, partial fills included (options.py:584, "Either way the account *)
(* is halted [...] whenever anything executed").                           *)
HaltedWhenAnythingExecuted ==
  [][pc # "idle" /\ pc' = "idle" /\ lapses' \subseteq {"partial"} =>
       halted' \/ real' \in {start, Approved}]_vars
=============================================================================
