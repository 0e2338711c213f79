----------------------------- MODULE SaldoPoll -----------------------------
(***************************************************************************)
(* The Telegram listener (saldo.poll): cron starts one process a minute,   *)
(* each reads the update offset from a file, asks Telegram for what is     *)
(* new, answers it and writes the offset back.  No lock keeps two of them  *)
(* apart, and a poll that meets a slow exchange may last for minutes.      *)
(*                                                                         *)
(* Updates are numbered from 1 in the order they arrive.  Which of them    *)
(* are commands from an allowed chat is left open.                         *)
(***************************************************************************)
EXTENDS Integers, Sequences, FiniteSets

CONSTANTS
    Poller,         \* runs of saldo.poll; cron starts each of them for ever
    Limit,          \* how many updates getUpdates returns at most
    MaxUpdates,     \* bound: updates that arrive
    MaxTroubles     \* bound: crashes, failed writes and failed requests

ASSUME LimitAssumption == Limit \in Nat \ {0}
ASSUME BoundAssumption == MaxUpdates \in Nat /\ MaxTroubles \in Nat

VARIABLES
    newest,         \* the number of the latest update
    confirmed,      \* updates below this are forgotten by Telegram
    stored,         \* the offset in telegram_state.json
    torn,           \* the file is truncated
    pc,             \* where each process is
    offset,         \* the offset it has in memory
    todo,           \* the updates of its batch it has not looked at
    handled,        \* updates a poll has looked at
    answers,        \* how often each update was answered, 2 for more than once
    overlap,        \* history: two processes were running at once
    troubles        \* how many crashes and failures there were

pollVars == <<newest, confirmed, stored, torn, pc, offset, todo, handled, answers,
          overlap, troubles>>
telegram == <<newest, confirmed, handled, answers>>
state    == <<stored, torn>>
memory   == <<offset, todo>>

Larger(a, b) == IF a < b THEN b ELSE a
More(n) == IF n < 2 THEN n + 1 ELSE 2

PollInit ==
    /\ newest = 0
    /\ confirmed = 1
    /\ stored = 0 /\ torn = FALSE
    /\ pc = [p \in Poller |-> "idle"]
    /\ offset = [p \in Poller |-> 0]
    /\ todo = [p \in Poller |-> {}]
    /\ handled = {}
    /\ answers = <<>>
    /\ overlap = FALSE
    /\ troubles = 0

Goto(p, l) == pc' = [pc EXCEPT ![p] = l]

End(p) ==
    /\ Goto(p, "idle")
    /\ offset' = [offset EXCEPT ![p] = 0]
    /\ todo' = [todo EXCEPT ![p] = {}]

Trouble ==
    /\ troubles < MaxTroubles
    /\ troubles' = troubles + 1

-----------------------------------------------------------------------------
Arrive ==
    /\ newest < MaxUpdates
    /\ newest' = newest + 1
    /\ answers' = Append(answers, 0)
    /\ UNCHANGED <<confirmed, handled, state, pc, memory, overlap, troubles>>

\* Mutant: a state file that does not parse keeps the poll from starting.
StartIntact(p) ==
    /\ pc[p] = "idle"
    /\ ~torn
    /\ Goto(p, "asking")
    /\ offset' = [offset EXCEPT ![p] = stored]
    /\ overlap' = (overlap \/ \E q \in Poller : pc[q] # "idle")
    /\ UNCHANGED <<telegram, state, todo, troubles>>

\* A state file that does not parse counts as offset 0.
Start(p) ==
    /\ pc[p] = "idle"
    /\ Goto(p, "asking")
    /\ offset' = [offset EXCEPT ![p] = IF torn THEN 0 ELSE stored]
    /\ overlap' = (overlap \/ \E q \in Poller : pc[q] # "idle")
    /\ UNCHANGED <<telegram, state, todo, troubles>>

\* Telegram forgets what is below the offset and returns the oldest of the rest.
Confirm(p) == confirmed' = Larger(confirmed, offset[p])

Batch == {u \in 1..newest : confirmed' <= u /\ u < confirmed' + Limit}

GetUpdates(p) ==
    /\ pc[p] = "asking"
    /\ Confirm(p)
    /\ todo' = [todo EXCEPT ![p] = Batch]
    /\ Goto(p, "handling")
    /\ UNCHANGED <<newest, handled, answers, state, offset, overlap, troubles>>

\* No answer, or not in time: the poll ends; Telegram may have seen the offset.
GetUpdatesFails(p) ==
    /\ Trouble
    /\ pc[p] = "asking"
    /\ Confirm(p) \/ UNCHANGED confirmed
    /\ End(p)
    /\ UNCHANGED <<newest, handled, answers, state, overlap>>

\* The next update of the batch.  It is answered if it is a command of an
\* allowed chat; a reply that cannot be sent is not retried.
Handle(p) ==
    /\ pc[p] = "handling"
    /\ \E u \in todo[p] :
          /\ \A v \in todo[p] : u <= v
          /\ offset' = [offset EXCEPT ![p] = u + 1]
          /\ todo' = [todo EXCEPT ![p] = @ \ {u}]
          /\ handled' = handled \cup {u}
          /\ answers' \in {answers, [answers EXCEPT ![u] = More(@)]}
    /\ UNCHANGED <<newest, confirmed, state, pc, overlap, troubles>>

\* _save_state: write_text truncates the file, then writes it.
SaveTruncate(p) ==
    /\ pc[p] = "handling"
    /\ todo[p] = {}
    /\ torn' = TRUE
    /\ Goto(p, "saving")
    /\ UNCHANGED <<telegram, stored, memory, overlap, troubles>>

\* Mutant: the poll writes back the offset it has read.
SaveOld(p) ==
    /\ pc[p] = "saving"
    /\ torn' = FALSE
    /\ End(p)
    /\ UNCHANGED <<telegram, stored, overlap, troubles>>

\* Mutant: the offset saved is one too high.
SaveNext(p) ==
    /\ pc[p] = "saving"
    /\ stored' = offset[p] + 1
    /\ torn' = FALSE
    /\ End(p)
    /\ UNCHANGED <<telegram, overlap, troubles>>

Save(p) ==
    /\ pc[p] = "saving"
    /\ stored' = offset[p]
    /\ torn' = FALSE
    /\ End(p)
    /\ UNCHANGED <<telegram, overlap, troubles>>

\* The write raises OSError, which is logged; a file that could be opened is
\* left truncated.
SaveFails(p) ==
    /\ Trouble
    /\ \/ pc[p] = "saving"
       \/ pc[p] = "handling" /\ todo[p] = {}
    /\ End(p)
    /\ UNCHANGED <<telegram, state, overlap>>

Crash(p) ==
    /\ Trouble
    /\ pc[p] # "idle"
    /\ End(p)
    /\ UNCHANGED <<telegram, state, overlap>>

Poll(p) ==
    \/ Start(p) \/ GetUpdates(p) \/ Handle(p) \/ SaveTruncate(p) \/ Save(p)

PollNext ==
    \/ Arrive
    \/ \E p \in Poller : Poll(p) \/ GetUpdatesFails(p) \/ SaveFails(p) \/ Crash(p)

PollSpec == PollInit /\ [][PollNext]_pollVars

\* cron never stops, a process goes on, failures are finitely many, and not
\* every poll of the future starts in the instant another one writes the file.
FairSpec ==
    /\ PollSpec
    /\ \A p \in Poller : WF_pollVars(Poll(p)) /\ SF_pollVars(~torn /\ Start(p))

-----------------------------------------------------------------------------
\* The types of all variables.
PollTypeOK ==
    /\ newest \in Nat
    /\ confirmed \in Nat
    /\ stored \in Nat /\ torn \in BOOLEAN
    /\ pc \in [Poller -> {"idle", "asking", "handling", "saving"}]
    /\ offset \in [Poller -> Nat]
    /\ todo \in [Poller -> SUBSET Nat]
    /\ handled \subseteq Nat
    /\ answers \in Seq(0..2)
    /\ overlap \in BOOLEAN
    /\ troubles \in Nat

\* Telegram forgets no update that no poll has looked at, whatever overlaps,
\* crashes, fails to save or reads a torn file (saldo.poll: the offset moves
\* with the loop and is saved after it).
NothingLost == \A u \in 1..newest : u < confirmed => u \in handled

Below(o) == 1..(o - 1)

\* The inductive invariant behind NothingLost: no offset, in the file, in a
\* process or at Telegram, is ahead of what was looked at, and a batch has no
\* gaps (saldo.poll takes the updates in order).
IInv ==
    /\ PollTypeOK
    /\ Len(answers) = newest
    /\ Below(confirmed) \subseteq handled
    /\ Below(stored) \subseteq handled
    /\ \A p \in Poller :
          /\ todo[p] \subseteq 1..newest
          /\ Below(offset[p]) \subseteq handled
          /\ \A u \in todo[p] : Below(u) \subseteq handled \cup todo[p]

\* Polls that neither overlap nor fail answer a command once (_save_state:
\* without the offset "commands may be answered twice").
AnsweredOnce ==
    ~overlap /\ troubles = 0 => \A u \in DOMAIN answers : answers[u] <= 1

\* The inductive invariant behind AnsweredOnce: of polls that neither overlap nor
\* fail one runs at a time, what was looked at is below its offset or, between
\* two of them, below the stored one, and its batch is not.
AloneOK ==
    ~overlap /\ troubles = 0 =>
        /\ \A p, q \in Poller : pc[p] # "idle" /\ pc[q] # "idle" => p = q
        /\ torn => \E p \in Poller : pc[p] = "saving"
        /\ (\A p \in Poller : pc[p] = "idle") => handled \subseteq Below(stored)
        /\ \A p \in Poller :
              /\ pc[p] # "idle" => handled \subseteq Below(offset[p])
              /\ pc[p] = "handling" => todo[p] \cap Below(offset[p]) = {}
        /\ \A u \in DOMAIN answers :
              /\ answers[u] <= 1
              /\ answers[u] > 0 => u \in handled

\* Every update is looked at in the end: neither a torn state file nor an offset
\* that an overlapping poll has set back keeps one from being reached
\* (saldo.py: "a missed minute self-heals on the next run").
EveryUpdateHandled ==
    \A u \in 1..MaxUpdates : (u <= newest) ~> (u \in handled)
=============================================================================
