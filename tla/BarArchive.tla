----------------------------- MODULE BarArchive -----------------------------
(***************************************************************************)
(* The archive of one-minute bars (bars1m.py) of one coin, and the way its *)
(* bars come through data.fetch_bars.  The exchange serves a bar while its *)
(* minute still runs, and forgets it after about a week; the archive has a *)
(* file for each day, which every run that can still see the day rewrites. *)
(*                                                                         *)
(* A bar is forming or final.  A truncated file and a missing one are read *)
(* alike, so the archive is a function from minutes.  Every minute has a   *)
(* bar, and the runs follow one another.                                   *)
(***************************************************************************)
EXTENDS Integers

CONSTANTS
    DayLength,      \* minutes of a day
    Window,         \* what a run asks for, in minutes (days=7)
    Served,         \* what the exchange still has, in minutes
    Retention,      \* RETENTION_DAYS
    MaxMinute,      \* bound: minutes that pass
    MaxTroubles     \* bound: crashes and failed requests

ASSUME ArchiveAssumption ==
    /\ DayLength \in Nat \ {0}
    /\ Window \in Nat \ {0} /\ Served \in Nat \ {0}
    /\ Retention \in Nat
    /\ MaxMinute \in Nat /\ MaxTroubles \in Nat

Minute == 0..MaxMinute
Day(m) == m \div DayLength
Bar == {"none", "forming", "final"}

VARIABLES
    clock,          \* the minute that is running
    kept,           \* the archive: what it has of each minute
    pc,             \* where the run is
    now,            \* the clock when it was started
    got,            \* the bars it was sent, then those not written yet
    file,           \* the day it has opened for writing, as merged
    taken,          \* history: the minutes that were ever archived,
    gap,            \* a run was sent only bars after the archive's newest,
    dropped,        \* a run died inside a write
    troubles        \* and how many crashes and failures there were

vars == <<clock, kept, pc, now, got, file, taken, gap, dropped, troubles>>
run  == <<pc, now, got, file>>
past == <<taken, gap, dropped, troubles>>

Nothing == [m \in Minute |-> "none"]
Having(bars) == {m \in Minute : bars[m] # "none"}

Init ==
    /\ clock = 0
    /\ kept = Nothing
    /\ pc = "idle"
    /\ now = 0 /\ got = Nothing /\ file = Nothing
    /\ taken = {} /\ gap = FALSE /\ dropped = FALSE
    /\ troubles = 0

End ==
    /\ pc' = "idle"
    /\ now' = 0 /\ got' = Nothing /\ file' = Nothing

Trouble ==
    /\ troubles < MaxTroubles
    /\ troubles' = troubles + 1

-----------------------------------------------------------------------------
\* A minute passes, in the middle of a run too.
Tick ==
    /\ clock < MaxMinute
    /\ clock' = clock + 1
    /\ UNCHANGED <<kept, run, past>>

Start ==
    /\ pc = "idle"
    /\ pc' = "asking"
    /\ now' = clock
    /\ UNCHANGED <<clock, kept, got, file, past>>

\* What the exchange answers to a request for the window up to now.
Answer ==
    [m \in Minute |->
        CASE m > now \/ m <= now - Window \/ m <= clock - Served -> "none"
          [] m = clock /\ m <= now                               -> "forming"
          [] OTHER                                               -> "final"]

\* The run is too late for a minute: it is not archived, or only as it was
\* forming, and is not served any more.
Late == \E m \in Minute : /\ m <= now /\ Answer[m] = "none"
                          /\ m \notin taken \/ kept[m] = "forming"

Fetch ==
    /\ pc = "asking"
    /\ got' = Answer
    /\ gap' = (gap \/ Late)
    /\ pc' = "fetched"
    /\ UNCHANGED <<clock, kept, now, file, taken, dropped, troubles>>

\* The request fails: the coin is passed over.
FetchFails ==
    /\ Trouble
    /\ pc = "asking"
    /\ pc' = "pruning"
    /\ UNCHANGED <<clock, kept, now, got, file, taken, gap, dropped>>

\* Mutant: the forming bar is not dropped.
FilterNone ==
    /\ pc = "fetched"
    /\ pc' = "merging"
    /\ UNCHANGED <<clock, kept, now, got, file, past>>

\* drop_forming_bar, by the clock after the answer: a bar that was forming when
\* it was sent is kept if its minute has ended meanwhile.
Filter ==
    /\ pc = "fetched"
    /\ got' = [m \in Minute |-> IF m < clock THEN got[m] ELSE "none"]
    /\ pc' = "merging"
    /\ UNCHANGED <<clock, kept, now, file, past>>

\* Mutant: what is archived wins.
MergeOldest(m) == IF kept[m] # "none" THEN kept[m] ELSE got[m]

\* Mutant: only what was sent is written.
MergeForgets(m) == got[m]

\* bars1m.merge: the newest write wins.
Merge(m) == IF got[m] # "none" THEN got[m] ELSE kept[m]

\* Mutant: the newest day is written first.
OpenDayNewest(d) ==
    /\ pc = "merging"
    /\ \E m \in Having(got) : Day(m) = d
    /\ \A m \in Having(got) : d >= Day(m)
    /\ file' = [m \in Minute |-> IF Day(m) = d THEN Merge(m) ELSE "none"]
    /\ kept' = [m \in Minute |-> IF Day(m) = d THEN "none" ELSE kept[m]]
    /\ pc' = "writing"
    /\ UNCHANGED <<clock, now, got, past>>

\* The oldest day that was sent is read, and its file truncated.
OpenDay(d) ==
    /\ pc = "merging"
    /\ \E m \in Having(got) : Day(m) = d
    /\ \A m \in Having(got) : d <= Day(m)
    /\ file' = [m \in Minute |-> IF Day(m) = d THEN Merge(m) ELSE "none"]
    /\ kept' = [m \in Minute |-> IF Day(m) = d THEN "none" ELSE kept[m]]
    /\ pc' = "writing"
    /\ UNCHANGED <<clock, now, got, past>>

WriteDay ==
    /\ pc = "writing"
    /\ kept' = [m \in Minute |-> IF file[m] # "none" THEN file[m] ELSE kept[m]]
    /\ got' = [m \in Minute |-> IF file[m] # "none" THEN "none" ELSE got[m]]
    /\ taken' = taken \cup Having(file)
    /\ file' = Nothing
    /\ pc' = "merging"
    /\ UNCHANGED <<clock, now, gap, dropped, troubles>>

Written ==
    /\ pc = "merging"
    /\ Having(got) = {}
    /\ pc' = "pruning"
    /\ UNCHANGED <<clock, kept, now, got, file, past>>

\* Day folders beyond the retention are removed, and the run ends.
Prune ==
    /\ pc = "pruning"
    /\ kept' = [m \in Minute |-> IF Day(m) < Day(now) - Retention THEN "none" ELSE kept[m]]
    /\ End
    /\ UNCHANGED <<clock, past>>

Crash ==
    /\ Trouble
    /\ pc # "idle"
    /\ dropped' = (dropped \/ pc = "writing")
    /\ End
    /\ UNCHANGED <<clock, kept, taken, gap>>

Step ==
    \/ Start \/ Fetch \/ Filter \/ WriteDay \/ Written \/ Prune
    \/ \E d \in {Day(m) : m \in Minute} : OpenDay(d)

Next == Tick \/ Step \/ FetchFails \/ Crash

Spec == Init /\ [][Next]_vars

\* The archive is run again and again, and a run goes on.
FairSpec == Spec /\ WF_vars(Step)

-----------------------------------------------------------------------------
\* The types of all variables.
TypeOK ==
    /\ clock \in Minute /\ now \in Minute
    /\ kept \in [Minute -> Bar]
    /\ pc \in {"idle", "asking", "fetched", "merging", "writing", "pruning"}
    /\ got \in [Minute -> Bar] /\ file \in [Minute -> Bar]
    /\ taken \in SUBSET Minute
    /\ gap \in BOOLEAN /\ dropped \in BOOLEAN
    /\ troubles \in Nat

Retained(m) == Day(m) >= Day(clock) - Retention

\* Runs that come in time archive every minute, and what is archived stays for
\* the retention although its file is rewritten when most of its day is served
\* no more (bars1m.archive: "merged by bar time, so a missed day self-heals").
Complete ==
    ~gap /\ ~dropped /\ pc # "writing" =>
        \A m \in taken : \A n \in 0..m : Retained(n) => kept[n] # "none"

\* A bar archived before its minute was over, because the minute ended between
\* the answer and the filter, is the newest of the archive: the run after
\* replaces it before it adds another (bars1m.merge: "newest write winning").
FormingIsNewest ==
    ~gap => \A m, n \in Minute : kept[m] = "forming" /\ m < n => kept[n] = "none"

\* The archive as it will be once the open file is written.
Archived(m) == IF file[m] # "none" THEN file[m] ELSE kept[m]

\* What was archived has ended, and has no holes unless a run came too late.
TakenOK ==
    /\ \A m \in taken : m < clock /\ (pc # "idle" => m <= now)
    /\ ~gap => \A m \in taken : 0..m \subseteq taken
    /\ Having(kept) \subseteq taken

\* A run holds bars up to its start, after the filter only of minutes that have
\* ended, and every older minute that is not archived for good.
GotOK ==
    /\ now <= clock
    /\ pc \in {"idle", "asking"} => Having(got) = {}
    /\ \A m \in Having(got) : m <= now
    /\ pc \in {"merging", "writing"} => \A m \in Having(got) : m < clock
    /\ \A m \in Minute : got[m] = "forming" => m = now
    /\ ~gap => \A m \in Having(got) : \A n \in 0..m :
                   got[n] # "none" \/ (n \in taken /\ Archived(n) # "forming")

\* The open file has what was archived of its day and what was sent of it, and
\* what is left to write is newer.
FileOK ==
    /\ pc # "writing" => Having(file) = {}
    /\ \A m \in Having(file) :
          /\ kept[m] = "none"
          /\ m \in taken \/ got[m] # "none"
          /\ got[m] # "none" => got[m] = file[m]
          /\ \A n \in Having(got) : file[n] = "none" => m < n

\* A bar that is not final is the newest, once the open file is written.
NewestOK ==
    ~gap => \A m, n \in Minute : Archived(m) = "forming" /\ m < n => Archived(n) = "none"

\* Nothing that was archived is lost within the retention.
WholeOK ==
    ~gap /\ ~dropped => \A n \in taken : Retained(n) => Archived(n) # "none"

\* The inductive invariant behind Complete and FormingIsNewest: the archive and
\* what a run (bars1m.archive) is about to add to it leave no holes.
IInv ==
    /\ TypeOK
    /\ TakenOK
    /\ GotOK
    /\ FileOK
    /\ NewestOK
    /\ WholeOK

\* Every minute comes to be archived as it ended, unless a run comes too late
\* for it or dies while it writes.
EveryMinuteKept ==
    \A m \in Minute : (m < clock) ~> (kept[m] = "final" \/ gap \/ dropped \/ ~Retained(m))
=============================================================================
