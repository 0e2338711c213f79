-------------------------- MODULE BarArchive_proofs --------------------------
(***************************************************************************)
(* The minute archive loses no minute and keeps only the newest bar        *)
(* unfinished, for any length of day, window and retention (module         *)
(* BarArchive).                                                            *)
(***************************************************************************)
EXTENDS BarArchive, TLAPS

\* A later minute is not of an earlier day.
LEMMA DayMono ==
  ASSUME NEW m \in Nat, NEW n \in Nat, m <= n
  PROVE  Day(m) \in Int /\ Day(n) \in Int /\ Day(m) <= Day(n)
  BY ArchiveAssumption DEF Day

\* Days are integers, so the retention is a comparison of integers.
LEMMA DayInt == \A m \in Minute : Day(m) \in Int
  BY DayMono, ArchiveAssumption DEF Minute

\* The minutes before a minute of the model are of the model.
LEMMA Earlier == Minute \subseteq Int /\ \A m \in Minute : \A n \in 0..m : n \in Minute /\ n <= m
  BY ArchiveAssumption DEF Minute

\* The clock starts in range, and no bars are a function to bars.
LEMMA InRange == 0 \in Minute /\ Nothing \in [Minute -> Bar] /\ Having(Nothing) = {}
  <1>1. 0 \in Minute
    BY ArchiveAssumption DEF Minute
  <1>2. Nothing \in [Minute -> Bar] /\ Having(Nothing) = {}
    BY DEF Nothing, Bar, Having
  <1> QED
    BY <1>1, <1>2

\* The archive is empty at first.
LEMMA InitInv == Init => IInv
  <1> SUFFICES ASSUME Init PROVE IInv
    OBVIOUS
  <1> USE InRange DEF Init
  <1>1. TypeOK
    BY DEF TypeOK
  <1>2. TakenOK
    BY DEF TakenOK
  <1>3. GotOK /\ FileOK
    BY DEF GotOK, FileOK, Nothing
  <1>4. NewestOK /\ WholeOK
    BY DEF NewestOK, WholeOK, Archived, Nothing
  <1> QED
    BY <1>1, <1>2, <1>3, <1>4 DEF IInv

\* Every step keeps the types.
LEMMA TypeStep == TypeOK /\ [Next]_vars => TypeOK'
  <1> SUFFICES ASSUME TypeOK, [Next]_vars PROVE TypeOK'
    OBVIOUS
  <1> USE InRange DEF TypeOK, run, past
  <1>1. CASE Tick
    BY <1>1, ArchiveAssumption DEF Tick, Minute
  <1>2. CASE Start
    BY <1>2 DEF Start
  <1>3. CASE Fetch
    <2>1. Answer \in [Minute -> Bar]
      BY DEF Answer, Bar
    <2> QED
      BY <1>3, <2>1 DEF Fetch, Late
  <1>4. CASE Filter
    BY <1>4 DEF Filter, Bar
  <1>5. ASSUME NEW d, OpenDay(d) PROVE TypeOK'
    BY <1>5 DEF OpenDay, Merge, Bar
  <1>6. CASE WriteDay
    BY <1>6 DEF WriteDay, Having, Bar
  <1>7. CASE Written
    BY <1>7 DEF Written
  <1>8. CASE Prune
    BY <1>8 DEF Prune, End, Bar
  <1>9. CASE FetchFails
    BY <1>9 DEF FetchFails, Trouble
  <1>10. CASE Crash
    BY <1>10 DEF Crash, End, Trouble
  <1>11. CASE UNCHANGED vars
    BY <1>11 DEF vars
  <1> QED
    BY <1>1, <1>2, <1>3, <1>4, <1>5, <1>6, <1>7, <1>8, <1>9, <1>10, <1>11 DEF Next, Step

\* A step that leaves the archive and the open file alone, and does not end a
\* run, keeps what the archive promises: time only shortens the retention.
LEMMA ArchiveUntouched ==
  ASSUME IInv, TypeOK', UNCHANGED <<kept, file, taken, dropped>>,
         gap => gap', clock <= clock'
  PROVE  NewestOK' /\ WholeOK'
  <1>1. \A m \in Minute : Archived(m)' = Archived(m)
    BY DEF Archived
  <1>2. \A m \in Minute : Retained(m)' => Retained(m)
    <2>1. Day(clock) \in Int /\ Day(clock') \in Int /\ Day(clock) <= Day(clock')
      BY DayMono, ArchiveAssumption DEF IInv, TypeOK, Minute
    <2> QED
      BY <2>1, DayInt, ArchiveAssumption DEF Retained
  <1>3. taken \subseteq Minute
    BY DEF IInv, TypeOK
  <1> QED
    BY <1>1, <1>2, <1>3 DEF IInv, NewestOK, WholeOK

\* While no file is open the archive is what is kept.
LEMMA Closed == ASSUME IInv, pc # "writing"
                PROVE  \A m \in Minute : file[m] = "none" /\ Archived(m) = kept[m]
  BY DEF IInv, FileOK, Having, Archived

\* The steps of a run before it writes, and those of its end, and time.
LEMMA QuietStep ==
  ASSUME IInv, TypeOK', Tick \/ Start \/ Fetch \/ FetchFails \/ Filter \/ Written
  PROVE  IInv'
  <1> USE DEF IInv, TypeOK, run, past
  <1>1. UNCHANGED <<kept, file, taken, dropped>> /\ (gap => gap') /\ clock <= clock'
    <2>1. CASE Tick
      BY <2>1, ArchiveAssumption DEF Tick, Minute
    <2>2. CASE ~Tick
      BY <2>2, ArchiveAssumption DEF Start, Fetch, FetchFails, Filter, Written, Minute
    <2> QED
      BY <2>1, <2>2
  <1>2. NewestOK' /\ WholeOK'
    BY <1>1, ArchiveUntouched
  <1>3. \A m \in Minute : Archived(m)' = Archived(m)
    BY <1>1 DEF Archived
  <1>4. Minute \subseteq Int
    BY DEF Minute
  <1>5. CASE Tick
    <2>1. TakenOK' /\ GotOK'
      BY <1>3, <1>4, <1>5 DEF Tick, TakenOK, GotOK, Having
    <2>2. FileOK'
      BY <1>5 DEF Tick, FileOK, Having
    <2> QED
      BY <1>2, <2>1, <2>2
  <1>6. CASE Start
    <2>1. TakenOK' /\ GotOK'
      BY <1>3, <1>4, <1>6 DEF Start, TakenOK, GotOK, Having
    <2>2. FileOK'
      BY <1>6 DEF Start, FileOK, Having
    <2> QED
      BY <1>2, <2>1, <2>2
  <1>7. CASE Fetch
    <2>1. TakenOK'
      BY <1>7 DEF Fetch, TakenOK, Having
    <2>2. \A m \in Having(got') : m \in Minute /\ m <= now
      BY <1>4, <1>7 DEF Fetch, Answer, Having
    <2>3. \A m \in Minute : got'[m] = "forming" => m = now
      BY <1>4, <1>7 DEF Fetch, Answer, GotOK
    <2>4. ASSUME ~gap', NEW m \in Having(got'), NEW n \in 0..m
          PROVE  got'[n] # "none" \/ (n \in taken /\ Archived(n) # "forming")
      <3>0. m \in Minute /\ m <= now
        BY <2>2
      <3>1. n \in Minute /\ n <= now
        BY <3>0, Earlier
      <3>2. ~Late
        BY <1>7, <2>4 DEF Fetch
      <3>3. Archived(n) = kept[n]
        BY <1>7, <3>1, Closed DEF Fetch
      <3> QED
        BY <1>7, <3>1, <3>2, <3>3 DEF Fetch, Late
    <2>5. \A m \in Having(got') : 0..m \subseteq Minute
      BY <2>2, Earlier
    <2>6. GotOK'
      BY <1>3, <1>7, <2>2, <2>3, <2>4, <2>5 DEF Fetch, GotOK
    <2>7. FileOK'
      BY <1>7, Closed DEF Fetch, FileOK, Having
    <2> QED
      BY <1>2, <2>1, <2>6, <2>7
  <1>8. CASE FetchFails
    BY <1>2, <1>3, <1>4, <1>8, Closed
    DEF FetchFails, Trouble, TakenOK, GotOK, FileOK, Having
  <1>9. CASE Filter
    <2>1. TakenOK'
      BY <1>9 DEF Filter, TakenOK, Having
    <2>2. \A m \in Having(got') : m \in Having(got) /\ m < clock
      BY <1>9 DEF Filter, Having
    <2>3. \A m \in Minute : m < clock => got'[m] = got[m]
      BY <1>9 DEF Filter
    <2>4. ASSUME ~gap', NEW m \in Having(got'), NEW n \in 0..m
          PROVE  got'[n] # "none" \/ (n \in taken' /\ Archived(n)' # "forming")
      <3>1. n \in Minute /\ n < clock
        BY <2>2, <1>4, Earlier DEF Having
      <3>2. got[n] # "none" \/ (n \in taken /\ Archived(n) # "forming")
        BY <1>9, <2>2, <2>4 DEF Filter, GotOK
      <3> QED
        BY <1>1, <1>3, <2>3, <3>1, <3>2
    <2>5. GotOK'
      BY <1>9, <2>2, <2>4 DEF Filter, GotOK
    <2>6. FileOK'
      BY <1>9, Closed DEF Filter, FileOK, Having
    <2> QED
      BY <1>2, <2>1, <2>5, <2>6
  <1>10. CASE Written
    BY <1>2, <1>3, <1>10, Closed DEF Written, TakenOK, GotOK, FileOK, Having
  <1> QED
    BY <1>5, <1>6, <1>7, <1>8, <1>9, <1>10

\* A day is opened: what is sent of it is merged into what was archived of it.
LEMMA OpenStep ==
  ASSUME IInv, TypeOK', NEW d, OpenDay(d)
  PROVE  IInv'
  <1> USE DEF IInv, TypeOK, run, past
  <1>1. /\ pc = "merging" /\ pc' = "writing"
        /\ UNCHANGED <<clock, now, got, taken, gap, dropped, troubles>>
        /\ file' = [m \in Minute |-> IF Day(m) = d THEN Merge(m) ELSE "none"]
        /\ kept' = [m \in Minute |-> IF Day(m) = d THEN "none" ELSE kept[m]]
        /\ \E m \in Having(got) : Day(m) = d
        /\ \A m \in Having(got) : d <= Day(m)
    BY DEF OpenDay
  <1>2. \A m \in Minute : Archived(m)' = IF Day(m) = d THEN Merge(m) ELSE kept[m]
    BY <1>1 DEF Archived, Merge
  <1>3. \A m \in Minute : Archived(m) = kept[m]
    BY <1>1, Closed
  <1>4. d \in Int
    BY <1>1, DayInt DEF Having
  <1>5. TakenOK'
    BY <1>1 DEF TakenOK, Having
  <1>6. GotOK'
    <2>1. ASSUME ~gap, NEW m \in Having(got), NEW n \in 0..m
          PROVE  got[n] # "none" \/ (n \in taken /\ Archived(n)' # "forming")
      <3>1. n \in Minute
        BY Earlier DEF Having
      <3>2. got[n] # "none" \/ (n \in taken /\ Archived(n) # "forming")
        BY <2>1 DEF GotOK
      <3> QED
        BY <1>2, <1>3, <3>1, <3>2 DEF Merge
    <2> QED
      BY <1>1, <2>1 DEF GotOK, Having
  <1>7. FileOK'
    <2> SUFFICES ASSUME NEW m \in Having(file')
                 PROVE  /\ kept'[m] = "none"
                        /\ m \in taken \/ got[m] # "none"
                        /\ got[m] # "none" => got[m] = file'[m]
                        /\ \A n \in Having(got) : file'[n] = "none" => m < n
      BY <1>1 DEF FileOK, Having
    <2>1. m \in Minute /\ Day(m) = d /\ file'[m] = Merge(m) /\ Merge(m) # "none"
      BY <1>1 DEF Having
    <2>2. kept'[m] = "none" /\ (got[m] # "none" => got[m] = file'[m])
      BY <1>1, <2>1 DEF Merge
    <2>3. m \in taken \/ got[m] # "none"
      BY <2>1 DEF Merge, TakenOK, Having
    <2>4. ASSUME NEW n \in Having(got), file'[n] = "none"
          PROVE  m < n
      <3>1. n \in Minute /\ got[n] # "none"
        BY DEF Having
      <3>2. Day(n) # d
        BY <1>1, <2>4, <3>1 DEF Merge
      <3>3. Day(m) < Day(n)
        BY <1>1, <1>4, <2>1, <3>1, <3>2, DayInt
      <3>4. m \in Nat /\ n \in Nat
        BY <2>1, <3>1 DEF Minute
      <3> QED
        BY <3>3, <3>4, DayMono
    <2> QED
      BY <2>2, <2>3, <2>4
  <1>8. NewestOK'
    <2> SUFFICES ASSUME ~gap, NEW m \in Minute, NEW n \in Minute,
                        Archived(m)' = "forming", m < n, Archived(n)' # "none"
                 PROVE  FALSE
      BY <1>1 DEF NewestOK
    <2>1. m \in Nat /\ n \in Nat /\ m <= n /\ m \in 0..n
      BY DEF Minute
    <2>2. kept[m] = "forming" => kept[n] = "none"
      BY <1>3 DEF NewestOK
    <2>3. CASE Day(m) = d /\ got[m] # "none"
      <3>1. m = now /\ n \notin Having(got)
        BY <1>2, <2>1, <2>3, Earlier DEF Merge, GotOK
      <3>2. n \notin taken
        BY <1>1, <2>1, <3>1, Earlier DEF TakenOK
      <3> QED
        BY <1>2, <3>1, <3>2 DEF Merge, TakenOK, Having
    <2>4. CASE ~(Day(m) = d /\ got[m] # "none")
      <3>1. kept[m] = "forming"
        BY <1>2, <2>4 DEF Merge
      <3>2. Day(n) = d /\ n \in Having(got)
        BY <1>2, <2>2, <3>1 DEF Merge, Having
      <3>3. m \in Having(got)
        BY <1>3, <2>1, <3>1, <3>2 DEF GotOK, Having
      <3>4. d <= Day(m) /\ Day(m) <= d /\ Day(m) \in Int
        BY <1>1, <2>1, <3>2, <3>3, DayMono
      <3> QED
        BY <1>4, <2>4, <3>3, <3>4 DEF Having
    <2> QED
      BY <2>3, <2>4
  <1>9. WholeOK'
    <2>1. \A n \in Minute : kept[n] # "none" => Archived(n)' # "none"
      BY <1>2 DEF Merge
    <2> QED
      BY <1>1, <1>3, <2>1 DEF WholeOK, Retained
  <1> QED
    BY <1>5, <1>6, <1>7, <1>8, <1>9

\* The day is written: the archive is what the open file promised.
LEMMA WriteStep ==
  ASSUME IInv, TypeOK', WriteDay
  PROVE  IInv'
  <1> USE DEF IInv, TypeOK, run, past
  <1>1. /\ pc = "writing" /\ pc' = "merging"
        /\ UNCHANGED <<clock, now, gap, dropped, troubles>>
        /\ kept' = [m \in Minute |-> IF file[m] # "none" THEN file[m] ELSE kept[m]]
        /\ got' = [m \in Minute |-> IF file[m] # "none" THEN "none" ELSE got[m]]
        /\ taken' = taken \cup Having(file)
        /\ \A m \in Minute : file'[m] = "none"
    BY DEF WriteDay, Nothing
  <1>2. \A m \in Minute : Archived(m)' = Archived(m) /\ kept'[m] = Archived(m)
    BY <1>1 DEF Archived
  <1>3. ASSUME ~gap, NEW m \in Having(file), NEW n \in 0..m
        PROVE  n \in taken'
    <2>1. m \in Minute /\ m \in Int
      BY Earlier DEF Having
    <2>2. n \in Minute /\ n <= m /\ n \in Int
      BY <2>1, Earlier
    <2>3. m \in taken \/ m \in Having(got)
      BY <2>1 DEF FileOK, Having
    <2>4. CASE m \in taken
      BY <1>1, <1>3, <2>4 DEF TakenOK
    <2>5. CASE m \in Having(got)
      <3>1. n \in taken \/ got[n] # "none"
        BY <1>3, <2>5 DEF GotOK
      <3>2. got[n] # "none" => n \in Having(file)
        BY <2>1, <2>2 DEF FileOK, Having
      <3> QED
        BY <1>1, <3>1, <3>2
    <2> QED
      BY <2>3, <2>4, <2>5
  <1>4. TakenOK'
    <2>1. \A m \in taken' : m < clock /\ m <= now
      BY <1>1 DEF TakenOK, FileOK, GotOK, Having
    <2>2. ASSUME ~gap, NEW m \in taken' PROVE 0..m \subseteq taken'
      BY <1>1, <1>3, <2>2 DEF TakenOK
    <2>3. Having(kept') \subseteq taken'
      BY <1>1 DEF TakenOK, Having
    <2> QED
      BY <1>1, <2>1, <2>2, <2>3 DEF TakenOK
  <1>5. GotOK'
    <2>1. \A m \in Having(got') : m \in Having(got) /\ file[m] = "none"
      BY <1>1 DEF Having
    <2>2. ASSUME ~gap, NEW m \in Having(got'), NEW n \in 0..m
          PROVE  got'[n] # "none" \/ (n \in taken' /\ Archived(n)' # "forming")
      <3>1. m \in Minute /\ m \in Int /\ m <= now
        BY <2>1, Earlier DEF Having, GotOK
      <3>2. n \in Minute /\ n \in Int /\ n <= m
        BY <3>1, Earlier
      <3>3. got[n] # "none" \/ (n \in taken /\ Archived(n) # "forming")
        BY <2>1, <2>2 DEF GotOK
      <3>4. CASE got[n] # "none" /\ file[n] # "none"
        <4>1. n \in taken' /\ Archived(n) = got[n]
          BY <1>1, <3>2, <3>4 DEF FileOK, Having, Archived
        <4>2. n # m
          BY <2>1, <3>4
        <4>3. n # now
          BY <3>1, <3>2, <4>2, Earlier
        <4> QED
          BY <1>2, <3>2, <4>1, <4>3 DEF GotOK
      <3>5. CASE got[n] # "none" /\ file[n] = "none"
        BY <1>1, <3>2, <3>5
      <3>6. CASE n \in taken /\ Archived(n) # "forming"
        BY <1>1, <1>2, <3>2, <3>6
      <3> QED
        BY <3>3, <3>4, <3>5, <3>6
    <2>3. \A m \in Minute : got'[m] = "forming" => m = now
      BY <1>1 DEF GotOK
    <2> QED
      BY <1>1, <2>1, <2>2, <2>3 DEF GotOK
  <1>6. FileOK'
    BY <1>1 DEF FileOK, Having
  <1>7. NewestOK'
    BY <1>1, <1>2 DEF NewestOK
  <1>8. WholeOK'
    <2>1. \A n \in Having(file) : n \in Minute /\ Archived(n) # "none"
      BY DEF Having, Archived
    <2> QED
      BY <1>1, <1>2, <2>1 DEF WholeOK, Retained
  <1> QED
    BY <1>4, <1>5, <1>6, <1>7, <1>8

\* Only days that the retention has passed are pruned, by the clock the run
\* started with, which is not ahead.
LEMMA PruneStep ==
  ASSUME IInv, TypeOK', Prune
  PROVE  IInv'
  <1> USE DEF IInv, TypeOK
  <1>1. /\ pc = "pruning" /\ pc' = "idle" /\ now' = 0
        /\ UNCHANGED <<clock, taken, gap, dropped, troubles>>
        /\ kept' = [m \in Minute |-> IF Day(m) < Day(now) - Retention THEN "none" ELSE kept[m]]
        /\ Having(got') = {} /\ Having(file') = {}
    BY InRange DEF Prune, End, past
  <1>2. \A m \in Minute : Archived(m)' = kept'[m] /\ Archived(m) = kept[m]
    BY <1>1, Closed DEF Archived, Having
  <1>3. now \in Nat /\ clock \in Nat /\ now <= clock
    BY DEF GotOK, Minute
  <1>4. \A m \in Minute : Retained(m) => kept'[m] = kept[m]
    BY <1>1, <1>3, DayInt, DayMono, ArchiveAssumption DEF Retained
  <1>5. TakenOK'
    BY <1>1 DEF TakenOK, Having
  <1>6. GotOK' /\ FileOK'
    BY <1>1, <1>3 DEF GotOK, FileOK, Having
  <1>7. NewestOK'
    BY <1>1, <1>2 DEF NewestOK
  <1>8. WholeOK'
    BY <1>1, <1>2, <1>4 DEF WholeOK, Retained
  <1> QED
    BY <1>5, <1>6, <1>7, <1>8

\* A run that dies leaves what is kept; only inside a write that is less.
LEMMA CrashStep ==
  ASSUME IInv, TypeOK', Crash
  PROVE  IInv'
  <1> USE DEF IInv, TypeOK
  <1>1. /\ pc' = "idle" /\ now' = 0
        /\ UNCHANGED <<clock, kept, taken, gap>>
        /\ dropped' = (dropped \/ pc = "writing")
        /\ Having(got') = {} /\ Having(file') = {}
    BY InRange DEF Crash, End
  <1>2. \A m \in Minute : /\ Archived(m)' = kept[m]
                          /\ kept[m] # "none" => Archived(m) = kept[m]
                          /\ pc # "writing" => Archived(m) = kept[m]
    BY <1>1, Closed DEF Archived, FileOK, Having
  <1>3. clock \in Nat
    BY DEF Minute
  <1>4. TakenOK'
    BY <1>1 DEF TakenOK, Having
  <1>5. GotOK' /\ FileOK'
    BY <1>1, <1>3 DEF GotOK, FileOK, Having
  <1>6. NewestOK'
    <2> SUFFICES ASSUME ~gap, NEW m \in Minute, NEW n \in Minute,
                        kept[m] = "forming", m < n
                 PROVE  kept[n] = "none"
      BY <1>1, <1>2 DEF NewestOK
    <2>1. Archived(n) = "none"
      BY <1>2 DEF NewestOK
    <2> QED
      BY <1>2, <2>1
  <1>7. WholeOK'
    BY <1>1, <1>2 DEF WholeOK, Retained
  <1> QED
    BY <1>4, <1>5, <1>6, <1>7

\* The archive and what a run (bars1m.archive) is about to add to it leave no
\* holes, whatever crashes and failed requests come between.
THEOREM Archive == Spec => []IInv
  <1>1. IInv /\ [Next]_vars => IInv'
    <2> SUFFICES ASSUME IInv, [Next]_vars PROVE IInv'
      OBVIOUS
    <2>1. TypeOK'
      BY TypeStep DEF IInv
    <2>2. CASE Tick \/ Start \/ Fetch \/ FetchFails \/ Filter \/ Written
      BY <2>1, <2>2, QuietStep
    <2>3. ASSUME NEW d, OpenDay(d) PROVE IInv'
      BY <2>1, <2>3, OpenStep
    <2>4. CASE WriteDay
      BY <2>1, <2>4, WriteStep
    <2>5. CASE Prune
      BY <2>1, <2>5, PruneStep
    <2>6. CASE Crash
      BY <2>1, <2>6, CrashStep
    <2>7. CASE UNCHANGED vars
      BY <2>7 DEF vars, IInv, TypeOK, TakenOK, GotOK, FileOK, NewestOK, WholeOK,
                  Archived, Retained, Having
    <2> QED
      BY <2>2, <2>3, <2>4, <2>5, <2>6, <2>7 DEF Next, Step
  <1> QED
    BY InitInv, <1>1, PTL DEF Spec

\* Runs that come in time and do not die in a write archive every minute, and
\* what is archived stays for the retention (bars1m.archive and prune).
THEOREM NoHoles == Spec => []Complete
  <1>1. IInv => Complete
    <2> SUFFICES ASSUME IInv, ~gap, ~dropped, pc # "writing",
                        NEW m \in taken, NEW n \in 0..m, Retained(n)
                 PROVE  kept[n] # "none"
      BY DEF Complete
    <2>1. n \in taken
      BY DEF IInv, TakenOK
    <2>2. Archived(n) # "none"
      BY <2>1 DEF IInv, WholeOK
    <2> QED
      BY <2>1, <2>2, Closed DEF IInv, TypeOK
  <1> QED
    BY Archive, <1>1, PTL

\* A bar archived before its minute was over (data.drop_forming_bar keeps it
\* when the minute ends in between) has no newer one beside it (bars1m.merge).
THEOREM NewestMayForm == Spec => []FormingIsNewest
  <1>1. IInv => FormingIsNewest
    <2> SUFFICES ASSUME IInv, ~gap, NEW m \in Minute, NEW n \in Minute,
                        kept[m] = "forming", m < n
                 PROVE  kept[n] = "none"
      BY DEF FormingIsNewest
    <2>1. Archived(m) = "forming"
      BY DEF IInv, TypeOK, FileOK, Having, Archived
    <2>2. Archived(n) = "none"
      BY <2>1 DEF IInv, NewestOK
    <2> QED
      BY <2>2 DEF Archived
  <1> QED
    BY Archive, <1>1, PTL

=============================================================================
