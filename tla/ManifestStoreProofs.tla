------------------------ MODULE ManifestStoreProofs -------------------------
(***************************************************************************)
(* The store keeps StoreInvariant, for any number of processes and of      *)
(* updates, and with it the properties that the store run checks.  First   *)
(* what each step does to the process that takes it and to the event log,  *)
(* then one lemma per step.                                                *)
(***************************************************************************)
EXTENDS ManifestStore, SequenceTheorems, TLAPS

\* A torn line is not mistaken for the event of an update.
LEMMA TornIsNoUpdate == Torn \notin Update
  BY DEF Torn, Update

\* What the store writes has the type of a file's contents.
LEMMA ContentTypes ==
    /\ Absent \in Contents
    /\ \A ups \in SUBSET Update :
          /\ Content(ups) \in Contents
          /\ [Content(ups) EXCEPT !.safe = TRUE] \in Contents
  BY DEF Absent, Content, Contents

\* A process outside the store is a process.
LEMMA IdleType == Idle \in Process
  BY ContentTypes, TornIsNoUpdate DEF Idle, Process, Steps, Files

\* The lists that Create and Update work through.
LEMMA ListsOfFiles ==
    /\ CreateFiles \in Seq(Files)
    /\ AfterConfig \in Seq(Files)
  BY DEF CreateFiles, AfterConfig, Files

\* Create works its list off from the front.
LEMMA CreateOrder ==
    /\ CreateFiles \notin {AfterEvents, AfterLog, AfterPlan, AfterConfig, <<>>}
    /\ AfterEvents \notin {AfterLog, AfterPlan, AfterConfig, <<>>}
    /\ AfterLog \notin {AfterPlan, AfterConfig, <<>>}
    /\ AfterPlan \notin {AfterConfig, <<>>}
    /\ AfterConfig # <<>>
    /\ Head(CreateFiles) = "events" /\ Tail(CreateFiles) = AfterEvents
    /\ Head(AfterEvents) = "runlog" /\ Tail(AfterEvents) = AfterLog
    /\ Head(AfterLog) = "plan" /\ Tail(AfterLog) = AfterPlan
    /\ Head(AfterPlan) = "config" /\ Tail(AfterPlan) = AfterConfig
    /\ Head(AfterConfig) = "manifest" /\ Tail(AfterConfig) = <<>>
  BY DEF CreateFiles, AfterEvents, AfterLog, AfterPlan, AfterConfig

\* Process p takes a step and is at a, with the list t, the copy c and the
\* update u.
Moves(p, a, t, c, u) ==
    /\ proc' \in [Processes -> Process]
    /\ proc'[p].at = a /\ proc'[p].todo = t /\ proc'[p].copy = c
    /\ proc'[p].up = u
    /\ \A q \in Processes \ {p} : proc'[q] = proc[q]

\* A step of one process leaves the others alone.
LEMMA MovesTo ==
    ASSUME TypeOK, NEW p \in Processes, NEW r \in Process,
           proc' = [proc EXCEPT ![p] = r]
    PROVE  Moves(p, r.at, r.todo, r.copy, r.up)
  BY DEF TypeOK, Moves

\* A process from its parts.
LEMMA RecordOf ==
    ASSUME NEW a \in Steps, NEW t \in Seq(Files), NEW c \in Contents,
           NEW u \in Update \cup {Torn}
    PROVE  [at |-> a, todo |-> t, copy |-> c, up |-> u] \in Process
  BY DEF Process

\* What a process holds at the start of a step.
LEMMA Fields ==
    ASSUME TypeOK, NEW p \in Processes
    PROVE  /\ proc[p] \in Process
           /\ proc[p].at \in Steps /\ proc[p].todo \in Seq(Files)
           /\ proc[p].copy \in Contents
           /\ proc[p].up \in Update \cup {Torn}
           /\ proc[p] = [at |-> proc[p].at, todo |-> proc[p].todo,
                         copy |-> proc[p].copy, up |-> proc[p].up]
  BY DEF TypeOK, Process

\* A step that only goes on to the next system call.
LEMMA GotoMoves ==
    ASSUME TypeOK, NEW p \in Processes, NEW a \in Steps, Goto(p, a)
    PROVE  Moves(p, a, proc[p].todo, proc[p].copy, proc[p].up)
  BY Fields DEF TypeOK, Moves, Goto, Process

\* Create begins with its whole list.
LEMMA CreateMoves ==
    ASSUME TypeOK, NEW p \in Processes, Create(p)
    PROVE  Moves(p, "next", CreateFiles, Absent, Torn)
<1> DEFINE r == [Idle EXCEPT !.at = "next", !.todo = CreateFiles]
<1>1. r \in Process
  BY IdleType, ListsOfFiles DEF Process, Steps
<1>2. r.at = "next" /\ r.todo = CreateFiles /\ r.copy = Absent /\ r.up = Torn
  BY DEF Idle
<1>3. proc' = [proc EXCEPT ![p] = r]
  BY DEF Create
<1> HIDE DEF r
<1> QED
  BY <1>1, <1>2, <1>3, MovesTo

\* An empty file is taken off Create's list.
LEMMA CreateEmptyFileMoves ==
    ASSUME TypeOK, NEW p \in Processes, CreateEmptyFile(p)
    PROVE  Moves(p, "next", Tail(proc[p].todo), proc[p].copy, proc[p].up)
<1>1. Tail(proc[p].todo) \in Seq(Files)
  BY Fields, HeadTailProperties DEF CreateEmptyFile
<1> QED
  BY <1>1, Fields DEF CreateEmptyFile, At, TypeOK, Moves, Process

\* Create writes the next file of its list.
LEMMA CreateFileMoves ==
    ASSUME TypeOK, NEW p \in Processes, CreateFile(p)
    PROVE  Moves(p, "write", proc[p].todo, Content({}), proc[p].up)
<1>1. Content({}) \in Contents /\ "write" \in Steps
  BY ContentTypes DEF Steps
<1> QED
  BY <1>1, Fields DEF CreateFile, TypeOK, Moves, Process

\* Update holds what it read and its own mutation.
LEMMA LoadMoves ==
    ASSUME TypeOK, NEW p \in Processes, Load(p)
    PROVE  LET u == <<p, issued[p] + 1>>
           IN /\ u \in Update
              /\ Moves(p, "write", AfterConfig,
                       Content(disk["manifest"].ups \cup {u}), u)
<1> DEFINE u == <<p, issued[p] + 1>>
           c == Content(disk["manifest"].ups \cup {u})
<1>1. u \in Update
  BY MaxUpdatesAssumption DEF Load, TypeOK, Update
<1>2. disk["manifest"].ups \in SUBSET Update
  BY DEF TypeOK, Contents, Files
<1>3. c \in Contents
  BY <1>1, <1>2, ContentTypes
<1>4. proc' = [proc EXCEPT ![p] = [at |-> "write", todo |-> AfterConfig,
                                   copy |-> c, up |-> u]]
  BY DEF Load, AfterConfig
<1> HIDE DEF u, c
<1>5. [at |-> "write", todo |-> AfterConfig, copy |-> c, up |-> u] \in Process
  BY <1>1, <1>3, RecordOf, ListsOfFiles DEF Steps
<1>6. Moves(p, "write", AfterConfig, c, u)
  BY <1>4, <1>5, MovesTo
<1> QED
  BY <1>1, <1>6 DEF u, c

\* Sync makes the temporary file safe.
LEMMA SyncTempMoves ==
    ASSUME TypeOK, NEW p \in Processes, SyncTemp(p)
    PROVE  Moves(p, "rename", proc[p].todo, [proc[p].copy EXCEPT !.safe = TRUE],
                 proc[p].up)
<1>1. [proc[p].copy EXCEPT !.safe = TRUE] \in Contents /\ "rename" \in Steps
  BY Fields DEF Contents, Steps
<1> QED
  BY <1>1, Fields DEF SyncTemp, TypeOK, Moves, Process

\* After a save Update goes on to its event, Create to its next file.
LEMMA SavedMoves ==
    ASSUME TypeOK, NEW p \in Processes, Saved(p), proc[p].todo # <<>>
    PROVE  Moves(p, IF proc[p].up = Torn THEN "next" ELSE "append",
                 Tail(proc[p].todo), proc[p].copy, proc[p].up)
<1>1. Tail(proc[p].todo) \in Seq(Files) /\ "next" \in Steps /\ "append" \in Steps
  BY Fields, HeadTailProperties DEF Steps
<1> QED
  BY <1>1, Fields DEF Saved, TypeOK, Moves, Process

\* A process leaves the store.
LEMMA IdleMoves ==
    ASSUME TypeOK, NEW p \in Processes, proc' = [proc EXCEPT ![p] = Idle]
    PROVE  Moves(p, "idle", <<>>, Absent, Torn)
  BY IdleType, MovesTo DEF Idle

-----------------------------------------------------------------------------
\* Inside atomicWrite there is a file to write.
LEMMA FileIsListed ==
    ASSUME StoreInvariant, NEW p \in Processes,
           proc[p].at \in {"write", "sync", "rename", "dirsync"}
    PROVE  /\ proc[p].todo \in {AfterLog, AfterPlan, AfterConfig}
           /\ proc[p].todo # <<>> /\ Head(proc[p].todo) \in Files
<1>1. proc[p].up = Torn =>
          proc[p].todo \in {AfterLog, AfterPlan, AfterConfig}
  BY DEF StoreInvariant, CreationIsOrdered, Creates, At
<1>2. proc[p].up # Torn => proc[p].todo = AfterConfig
  BY DEF StoreInvariant, UpdatesAreLoaded
<1> QED
  BY <1>1, <1>2, CreateOrder DEF Files

\* Appending to the log keeps what is there; the new line is there, or was
\* swallowed by a torn one.
LEMMA LineIsAdded ==
    ASSUME TypeOK, NEW u \in Update \cup {Torn}
    PROVE  /\ WithLine(u) \in Seq(Update \cup {Torn})
           /\ Len(log) <= Len(WithLine(u))
           /\ \A i \in 1..Len(log) : WithLine(u)[i] = log[i]
           /\ \A i \in 1..Len(WithLine(u)) : WithLine(u)[i] # u => i \in 1..Len(log)
           /\ \E i \in 1..Len(WithLine(u)) : WithLine(u)[i] \in {u, Torn}
<1>1. log \in Seq(Update \cup {Torn}) /\ Len(log) \in Nat
  BY DEF TypeOK
<1>2. CASE log # <<>> /\ log[Len(log)] = Torn
  <2>1. WithLine(u) = log /\ Len(log) \in 1..Len(log)
    BY <1>1, <1>2 DEF WithLine
  <2> QED
    BY <1>1, <1>2, <2>1
<1>3. CASE ~(log # <<>> /\ log[Len(log)] = Torn)
  <2>1. WithLine(u) = Append(log, u)
    BY <1>3 DEF WithLine
  <2>2. /\ Append(log, u) \in Seq(Update \cup {Torn})
        /\ Len(Append(log, u)) = Len(log) + 1
        /\ \A i \in 1..Len(log) : Append(log, u)[i] = log[i]
        /\ Append(log, u)[Len(log) + 1] = u
    BY <1>1, AppendProperties
  <2>3. Len(log) + 1 \in 1..Len(Append(log, u))
    BY <1>1, <2>2
  <2>4. \E i \in 1..Len(WithLine(u)) : WithLine(u)[i] \in {u, Torn}
    BY <2>1, <2>2, <2>3
  <2>5. \A i \in 1..Len(WithLine(u)) : WithLine(u)[i] # u => i \in 1..Len(log)
    BY <1>1, <2>1, <2>2
  <2> QED
    BY <1>1, <2>1, <2>2, <2>4, <2>5
<1> QED
  BY <1>2, <1>3

\* A loss of power keeps the flushed lines and invents none.
LEMMA LogIsCut ==
    ASSUME TypeOK, PowerLoss
    PROVE  /\ log' \in Seq(Update \cup {Torn})
           /\ flushed' = Len(log') /\ flushed <= Len(log')
           /\ \A i \in 1..flushed : log'[i] = log[i]
           /\ \A i \in 1..Len(log') :
                 log'[i] = Torn \/ (i \in 1..Len(log) /\ log'[i] = log[i])
<1>1. log \in Seq(Update \cup {Torn}) /\ Len(log) \in Nat /\ flushed \in 0..Len(log)
  BY DEF TypeOK
<1>2. PICK n \in flushed..Len(log) :
          /\ \/ log' = SubSeq(log, 1, n)
             \/ n < Len(log) /\ log' = Append(SubSeq(log, 1, n), Torn)
          /\ flushed' = Len(log')
  BY DEF PowerLoss
<1> DEFINE kept == SubSeq(log, 1, n)
<1>3. n \in Nat /\ n <= Len(log) /\ flushed <= n
  BY <1>1, <1>2
<1>4. /\ kept \in Seq(Update \cup {Torn}) /\ Len(kept) = n
      /\ \A i \in 1..n : kept[i] = log[i]
  BY <1>1, <1>3, SubSeqProperties
<1>5. log' = kept \/ log' = Append(kept, Torn)
  BY <1>2
<1> HIDE DEF kept
<1>6. CASE log' = kept
  BY <1>1, <1>2, <1>3, <1>4, <1>6
<1>7. CASE log' = Append(kept, Torn)
  <2>1. /\ log' \in Seq(Update \cup {Torn}) /\ Len(log') = n + 1
        /\ \A i \in 1..n : log'[i] = kept[i]
        /\ log'[n + 1] = Torn
    BY <1>4, <1>7, AppendProperties
  <2> QED
    BY <1>1, <1>2, <1>3, <1>4, <2>1
<1> QED
  BY <1>5, <1>6, <1>7
-----------------------------------------------------------------------------
\* One lemma per step: the invariant is kept.

LEMMA CreateKeeps ==
    ASSUME StoreInvariant, NEW p \in Processes, Create(p)
    PROVE  StoreInvariant'
<1>1. TypeOK
  BY DEF StoreInvariant
<1>2. Moves(p, "next", CreateFiles, Absent, Torn)
  BY <1>1, CreateMoves
<1>3. /\ acked = {} /\ \A f \in Files : possible[f] = {Absent}
      /\ \A q \in Processes : proc[q].at = "idle"
  BY DEF StoreInvariant, TypeOK, CreationIsOrdered, Create, At
<1>10. TypeOK'
  BY <1>1, <1>2
     DEF StoreInvariant, TypeOK, Moves, Create, events, history, At,
         Process, Contents
<1>11. NamedFilesAreSynced'
  BY <1>1, <1>2
     DEF StoreInvariant, NamedFilesAreSynced, Moves, Create, events,
         history, At
<1>12. CreationIsOrdered'
  <2>1. \A q \in Processes : Creates(q)' => q = p
    BY <1>2, <1>3 DEF Creates, Moves
  <2>2. made' /\ acked' = {} /\ \A c \in possible'["manifest"] : ~c.here
    BY <1>3 DEF Create, history, Absent, Files
  <2>3. \A q \in Processes \ {p} : At(q, "idle")'
    BY <1>2, <1>3 DEF At, Moves
  <2>4. proc'[p].todo = CreateFiles /\ proc'[p].at = "next"
    BY <1>2 DEF Moves
  <2> QED
    BY <2>1, <2>2, <2>3, <2>4, CreateOrder DEF CreationIsOrdered, At
<1>13. UpdatesAreLoaded'
  BY <1>1, <1>2
     DEF StoreInvariant, UpdatesAreLoaded, Moves, Create, events, history, At
<1>14. UpdatesAreKept'
  BY <1>1, <1>2
     DEF StoreInvariant, UpdatesAreKept, Moves, Create, events, history,
         Visible, Loaded, At
<1>15. EventsAreSafe'
  BY <1>1, <1>2
     DEF StoreInvariant, EventsAreSafe, Moves, Create, events, history, At
<1> QED
  BY <1>10, <1>11, <1>12, <1>13, <1>14, <1>15 DEF StoreInvariant

\* The empty event log and the empty run log, whose names are not yet safe.
LEMMA CreateEmptyFileKeeps ==
    ASSUME StoreInvariant, NEW p \in Processes, CreateEmptyFile(p)
    PROVE  StoreInvariant'
<1>1. TypeOK
  BY DEF StoreInvariant
<1>2. Moves(p, "next", Tail(proc[p].todo), proc[p].copy, proc[p].up)
  BY <1>1, CreateEmptyFileMoves
<1> DEFINE f == Head(proc[p].todo)
           empty == [Content({}) EXCEPT !.safe = TRUE]
<1>3. /\ disk' = [disk EXCEPT ![f] = empty]
      /\ possible' = [possible EXCEPT ![f] = @ \cup {empty}]
  BY DEF CreateEmptyFile
<1>4. empty \in Contents /\ empty.here /\ empty.whole /\ empty.safe
  BY ContentTypes DEF Content
<1>5. proc[p].at = "next" /\ proc[p].up = Torn /\ made
  BY <1>1 DEF CreateEmptyFile, StoreInvariant, UpdatesAreLoaded, TypeOK, At
<1>6. \/ /\ proc[p].todo = CreateFiles /\ f = "events"
         /\ Tail(proc[p].todo) = AfterEvents
      \/ /\ proc[p].todo = AfterEvents /\ f = "runlog"
         /\ Tail(proc[p].todo) = AfterLog /\ disk["events"].here
  BY <1>5, CreateOrder
     DEF CreateEmptyFile, EmptyFiles, StoreInvariant, CreationIsOrdered, Creates
<1>8. \A g \in Files : /\ disk'[g] = IF g = f THEN empty ELSE disk[g]
                       /\ possible'[g] = IF g = f THEN possible[g] \cup {empty}
                                         ELSE possible[g]
  BY <1>1, <1>3, <1>6 DEF TypeOK, Files
<1>9. f \in Files /\ f # "manifest"
  BY <1>6 DEF Files
<1> HIDE DEF f, empty
<1>7. UNCHANGED <<made, log, flushed, issued, acked, contested, noted, outage>>
  BY DEF CreateEmptyFile, events, history
<1>10. TypeOK'
  BY <1>1, <1>2, <1>3, <1>4, <1>5, <1>7, <1>9 DEF TypeOK, Moves
<1>11. NamedFilesAreSynced'
  <2>1. \A g \in Files :
           /\ disk'[g] \in possible'[g]
           /\ \A c \in possible'[g] : c.whole /\ c.safe
    BY <1>4, <1>8 DEF StoreInvariant, NamedFilesAreSynced
  <2>2. \A g \in Files : disk[g].here => disk'[g].here
    BY <1>4, <1>8
  <2>3. \A q \in Processes \ {p} : proc[q].at = "dirsync" =>
                                    Head(proc[q].todo) \in Files
    BY FileIsListed
  <2> QED
    BY <1>2, <2>1, <2>2, <2>3
       DEF StoreInvariant, NamedFilesAreSynced, Moves, At
<1>12. CreationIsOrdered'
  <2>1. Unpublished(p)
    BY <1>5, <1>6, CreateOrder DEF Unpublished, Creates, At
  <2>2. /\ acked = {} /\ \A q \in Processes \ {p} : proc[q].at = "idle"
        /\ \A c \in possible["manifest"] : ~c.here
    BY <1>5, <2>1 DEF StoreInvariant, CreationIsOrdered, Creates, At
  <2>3. \A q \in Processes : Creates(q)' => q = p
    BY <1>2, <2>2 DEF Creates, Moves
  <2>4. /\ disk'["events"].here /\ possible'["manifest"] = possible["manifest"]
        /\ f = "runlog" => disk'["runlog"].here
    BY <1>4, <1>6, <1>8, <1>9 DEF Files
  <2>5. made' /\ acked' = {} /\ \A c \in possible'["manifest"] : ~c.here
    BY <1>5, <1>7, <2>2, <2>4
  <2>6. \A q \in Processes \ {p} : At(q, "idle")'
    BY <1>2, <2>2 DEF At, Moves
  <2>7. /\ proc'[p].at = "next"
        /\ proc'[p].todo = AfterEvents \/ (proc'[p].todo = AfterLog /\ f = "runlog")
    BY <1>2, <1>6 DEF Moves
  <2> QED
    BY <2>3, <2>4, <2>5, <2>6, <2>7, CreateOrder DEF CreationIsOrdered, At
<1>13. UpdatesAreLoaded'
  BY <1>2, <1>5, <1>7, <1>8, <1>9
     DEF StoreInvariant, UpdatesAreLoaded, Moves, Files
<1>14. UpdatesAreKept'
  <2>1. disk'["manifest"] = disk["manifest"]
        /\ possible'["manifest"] = possible["manifest"]
    BY <1>8, <1>9 DEF Files
  <2> QED
    BY <1>2, <1>5, <1>7, <2>1
       DEF StoreInvariant, UpdatesAreKept, Moves, Visible, Loaded, At
<1>15. EventsAreSafe'
  BY <1>2, <1>5, <1>7 DEF StoreInvariant, EventsAreSafe, Moves, At
<1> QED
  BY <1>10, <1>11, <1>12, <1>13, <1>14, <1>15 DEF StoreInvariant

\* The next file of Create.
LEMMA CreateFileKeeps ==
    ASSUME StoreInvariant, NEW p \in Processes, CreateFile(p)
    PROVE  StoreInvariant'
<1>1. TypeOK
  BY DEF StoreInvariant
<1>2. Moves(p, "write", proc[p].todo, Content({}), proc[p].up)
  BY <1>1, CreateFileMoves
<1>3. /\ proc[p].at = "next" /\ proc[p].up = Torn /\ made
      /\ proc[p].todo \in {AfterLog, AfterPlan, AfterConfig}
  BY <1>1, CreateOrder DEF CreateFile, EmptyFiles, StoreInvariant,
     UpdatesAreLoaded, CreationIsOrdered, Creates, TypeOK, At
<1>4. UNCHANGED <<made, disk, possible, log, flushed, issued, acked, contested,
                  noted, outage>>
  BY DEF CreateFile, files, events, history
<1>5. Content({}).here /\ Content({}).whole
  BY DEF Content
<1>10. TypeOK'
  BY <1>1, <1>2, <1>3, <1>4 DEF TypeOK, Moves
<1>11. NamedFilesAreSynced'
  BY <1>2, <1>4, <1>5 DEF StoreInvariant, NamedFilesAreSynced, Moves, At
<1>12. CreationIsOrdered'
  <2>1. Unpublished(p) /\ Creates(p)
    BY <1>3, CreateOrder DEF Unpublished, Creates, At
  <2>2. /\ acked = {} /\ \A q \in Processes \ {p} : proc[q].at = "idle"
        /\ \A c \in possible["manifest"] : ~c.here
    BY <2>1 DEF StoreInvariant, CreationIsOrdered, At
  <2>3. \A q \in Processes : Creates(q)' => q = p
    BY <1>2, <2>2 DEF Creates, Moves
  <2>4. proc'[p].todo = proc[p].todo /\ proc'[p].at = "write"
    BY <1>2 DEF Moves
  <2>5. \A q \in Processes \ {p} : At(q, "idle")'
    BY <1>2, <2>2 DEF At, Moves
  <2> QED
    BY <1>3, <1>4, <2>1, <2>2, <2>3, <2>4, <2>5, CreateOrder
       DEF StoreInvariant, CreationIsOrdered, At, Safe
<1>13. UpdatesAreLoaded'
  BY <1>2, <1>3, <1>4 DEF StoreInvariant, UpdatesAreLoaded, Moves
<1>14. UpdatesAreKept'
  BY <1>2, <1>3, <1>4
     DEF StoreInvariant, UpdatesAreKept, Moves, Visible, Loaded, At
<1>15. EventsAreSafe'
  BY <1>2, <1>3, <1>4 DEF StoreInvariant, EventsAreSafe, Moves, At
<1> QED
  BY <1>10, <1>11, <1>12, <1>13, <1>14, <1>15 DEF StoreInvariant

\* The end of Create.
LEMMA CreateReturnsKeeps ==
    ASSUME StoreInvariant, NEW p \in Processes, CreateReturns(p)
    PROVE  StoreInvariant'
<1>1. TypeOK
  BY DEF StoreInvariant
<1>2. Moves(p, "idle", <<>>, Absent, Torn)
  BY <1>1, IdleMoves DEF CreateReturns
<1>3. made
  BY <1>1 DEF CreateReturns, TypeOK, At
<1>4. UNCHANGED <<made, disk, possible, log, flushed, issued, acked, contested,
                  noted, outage>>
  BY DEF CreateReturns, files, events, history
<1>10. TypeOK'
  BY <1>2, <1>3, <1>4, <1>1
     DEF StoreInvariant, TypeOK, Moves, CreateReturns, At, Process, Contents
<1>11. NamedFilesAreSynced'
  BY <1>2, <1>3, <1>4
     DEF StoreInvariant, NamedFilesAreSynced, Moves, CreateReturns, At
<1>12. CreationIsOrdered'
  BY <1>2, <1>3, <1>4
     DEF StoreInvariant, CreationIsOrdered, Moves, CreateReturns, At,
         Creates, Unpublished, Safe
<1>13. UpdatesAreLoaded'
  BY <1>2, <1>3, <1>4
     DEF StoreInvariant, UpdatesAreLoaded, Moves, CreateReturns, At
<1>14. UpdatesAreKept'
  BY <1>2, <1>3, <1>4
     DEF StoreInvariant, UpdatesAreKept, Moves, CreateReturns, Visible,
         Loaded, At
<1>15. EventsAreSafe'
  BY <1>2, <1>3, <1>4
     DEF StoreInvariant, EventsAreSafe, Moves, CreateReturns, At
<1> QED
  BY <1>10, <1>11, <1>12, <1>13, <1>14, <1>15 DEF StoreInvariant

\* The load of an Update, which only sees a published manifest.
LEMMA LoadKeeps ==
    ASSUME StoreInvariant, NEW p \in Processes, Load(p)
    PROVE  StoreInvariant'
<1>1. TypeOK
  BY DEF StoreInvariant
<1> DEFINE u == <<p, issued[p] + 1>>
           c == Content(disk["manifest"].ups \cup {u})
<1>2. u \in Update /\ Moves(p, "write", AfterConfig, c, u)
  BY <1>1, LoadMoves
<1>3. c.here /\ c.whole /\ c.ups = disk["manifest"].ups \cup {u}
  BY DEF Content
<1> HIDE DEF u, c
<1>4. UNCHANGED <<made, disk, possible, log, flushed, acked, contested, noted,
                  outage>>
  BY DEF Load, files, events
<1>5. disk["manifest"].here /\ disk["manifest"] \in possible["manifest"]
  BY DEF Load, StoreInvariant, NamedFilesAreSynced, Files
<1>6. made
  BY <1>5 DEF StoreInvariant, CreationIsOrdered, Absent, Files
<1>7. proc[p].at = "idle" /\ u # Torn
  BY <1>2, TornIsNoUpdate DEF Load, At
<1>10. TypeOK'
  <2>1. issued' \in [Processes -> 0..MaxUpdates]
    BY <1>1, MaxUpdatesAssumption DEF Load, TypeOK
  <2> QED
    BY <1>1, <1>2, <1>4, <1>6, <2>1 DEF TypeOK, Moves
<1>11. NamedFilesAreSynced'
  BY <1>2, <1>3, <1>4 DEF StoreInvariant, NamedFilesAreSynced, Moves, At
<1>12. CreationIsOrdered'
  <2>1. \A q \in Processes : ~Unpublished(q)
    BY <1>5 DEF StoreInvariant, CreationIsOrdered, Unpublished
  <2>2. \A q \in Processes : ~Unpublished(q)'
    BY <1>2, <1>7, <2>1 DEF Unpublished, Creates, At, Moves
  <2> QED
    BY <1>2, <1>4, <1>6, <1>7, <2>2
       DEF StoreInvariant, CreationIsOrdered, Creates, At, Safe, Moves
<1>13. UpdatesAreLoaded'
  BY <1>2, <1>3, <1>4, <1>5 DEF StoreInvariant, UpdatesAreLoaded, Moves
<1>14. UpdatesAreKept'
  BY <1>2, <1>3, <1>4, <1>7
     DEF StoreInvariant, UpdatesAreKept, Moves, Visible, Loaded, At
<1>15. EventsAreSafe'
  BY <1>2, <1>4, <1>7 DEF StoreInvariant, EventsAreSafe, Moves, At
<1> QED
  BY <1>10, <1>11, <1>12, <1>13, <1>14, <1>15 DEF StoreInvariant

\* The write of the temporary file.
LEMMA WriteTempKeeps ==
    ASSUME StoreInvariant, NEW p \in Processes, WriteTemp(p)
    PROVE  StoreInvariant'
<1>1. TypeOK
  BY DEF StoreInvariant
<1>2. Moves(p, "sync", proc[p].todo, proc[p].copy, proc[p].up)
  BY <1>1, GotoMoves DEF WriteTemp, Steps
<1>3. proc[p].at = "write" /\ made
  BY <1>1 DEF WriteTemp, TypeOK, At
<1>4. UNCHANGED <<made, disk, possible, log, flushed, issued, acked, contested,
                  noted, outage>>
  BY DEF WriteTemp, files, events, history
<1>10. TypeOK'
  BY <1>2, <1>3, <1>4, <1>1
     DEF StoreInvariant, TypeOK, Moves, WriteTemp, At, Process, Contents
<1>11. NamedFilesAreSynced'
  BY <1>2, <1>3, <1>4
     DEF StoreInvariant, NamedFilesAreSynced, Moves, WriteTemp, At
<1>12. CreationIsOrdered'
  BY <1>2, <1>3, <1>4
     DEF StoreInvariant, CreationIsOrdered, Moves, WriteTemp, At, Creates,
         Unpublished, Safe
<1>13. UpdatesAreLoaded'
  BY <1>2, <1>3, <1>4
     DEF StoreInvariant, UpdatesAreLoaded, Moves, WriteTemp, At
<1>14. UpdatesAreKept'
  BY <1>2, <1>3, <1>4
     DEF StoreInvariant, UpdatesAreKept, Moves, WriteTemp, Visible, Loaded, At
<1>15. EventsAreSafe'
  BY <1>2, <1>3, <1>4
     DEF StoreInvariant, EventsAreSafe, Moves, WriteTemp, At
<1> QED
  BY <1>10, <1>11, <1>12, <1>13, <1>14, <1>15 DEF StoreInvariant

\* The sync of the temporary file.
LEMMA SyncTempKeeps ==
    ASSUME StoreInvariant, NEW p \in Processes, SyncTemp(p)
    PROVE  StoreInvariant'
<1>1. TypeOK
  BY DEF StoreInvariant
<1>2. Moves(p, "rename", proc[p].todo, [proc[p].copy EXCEPT !.safe = TRUE],
            proc[p].up)
  BY <1>1, SyncTempMoves
<1>3. proc[p].at = "sync" /\ made
  BY <1>1 DEF SyncTemp, TypeOK, At
<1>4. UNCHANGED <<made, disk, possible, log, flushed, issued, acked, contested,
                  noted, outage>>
  BY DEF SyncTemp, files, events, history
<1>5. LET c == [proc[p].copy EXCEPT !.safe = TRUE]
      IN /\ c.safe /\ c.here = proc[p].copy.here
         /\ c.whole = proc[p].copy.whole /\ c.ups = proc[p].copy.ups
  BY <1>1, Fields DEF Contents
<1>10. TypeOK'
  BY <1>2, <1>3, <1>4, <1>5, <1>1
     DEF StoreInvariant, TypeOK, Moves, SyncTemp, At, Process, Contents
<1>11. NamedFilesAreSynced'
  BY <1>2, <1>3, <1>4, <1>5
     DEF StoreInvariant, NamedFilesAreSynced, Moves, SyncTemp, At
<1>12. CreationIsOrdered'
  BY <1>2, <1>3, <1>4, <1>5
     DEF StoreInvariant, CreationIsOrdered, Moves, SyncTemp, At, Creates,
         Unpublished, Safe
<1>13. UpdatesAreLoaded'
  BY <1>2, <1>3, <1>4, <1>5
     DEF StoreInvariant, UpdatesAreLoaded, Moves, SyncTemp, At
<1>14. UpdatesAreKept'
  BY <1>2, <1>3, <1>4, <1>5
     DEF StoreInvariant, UpdatesAreKept, Moves, SyncTemp, Visible, Loaded, At
<1>15. EventsAreSafe'
  BY <1>2, <1>3, <1>4, <1>5
     DEF StoreInvariant, EventsAreSafe, Moves, SyncTemp, At
<1> QED
  BY <1>10, <1>11, <1>12, <1>13, <1>14, <1>15 DEF StoreInvariant

\* The rename: Create publishes a file that nobody has used, Update a manifest
\* with every update that no rival saved since its load.
LEMMA RenameKeeps ==
    ASSUME StoreInvariant, NEW p \in Processes, Rename(p)
    PROVE  StoreInvariant'
<1>1. TypeOK
  BY DEF StoreInvariant
<1>2. Moves(p, "dirsync", proc[p].todo, proc[p].copy, proc[p].up)
  BY <1>1, GotoMoves DEF Rename, Steps
<1> DEFINE f == Head(proc[p].todo)
           c == proc[p].copy
<1>3. /\ proc[p].at = "rename" /\ made /\ f \in Files
      /\ proc[p].todo \in {AfterLog, AfterPlan, AfterConfig}
      /\ c \in Contents /\ c.here /\ c.whole /\ c.safe
  BY <1>1, FileIsListed, Fields
     DEF Rename, StoreInvariant, NamedFilesAreSynced, TypeOK, At
<1>4. /\ disk' = [disk EXCEPT ![f] = c]
      /\ possible' = [possible EXCEPT ![f] = @ \cup {c}]
      /\ UNCHANGED <<made, log, flushed, issued, acked, noted, outage>>
  BY DEF Rename, events
<1>5. proc[p].up = Torn =>
          /\ Creates(p) /\ acked = {}
          /\ \A q \in Processes \ {p} : proc[q].at = "idle"
          /\ \A d \in possible["manifest"] : ~d.here
  <2> SUFFICES ASSUME proc[p].up = Torn
               PROVE  Creates(p) /\ Unpublished(p)
    BY DEF StoreInvariant, CreationIsOrdered, At
  <2> QED
    BY <1>3, CreateOrder DEF Creates, Unpublished, At
<1>6. proc[p].up # Torn =>
          /\ proc[p].todo = AfterConfig /\ f = "manifest"
          /\ proc[p].up \in c.ups /\ disk["manifest"].here
  BY <1>3, CreateOrder DEF StoreInvariant, UpdatesAreLoaded
<1>7. /\ contested \subseteq contested' /\ contested' \subseteq Update
      /\ \A q \in Processes \ {p} : Loaded(q) => proc[p].up \in contested'
  BY <1>1, <1>5, Fields DEF Rename, Loaded, TypeOK
<1>8. \A g \in Files : /\ disk'[g] = IF g = f THEN c ELSE disk[g]
                       /\ possible'[g] = IF g = f THEN possible[g] \cup {c}
                                         ELSE possible[g]
  BY <1>1, <1>3, <1>4 DEF TypeOK
<1> HIDE DEF f, c
<1>10. TypeOK'
  BY <1>1, <1>2, <1>3, <1>4, <1>7 DEF TypeOK, Moves
<1>11. NamedFilesAreSynced'
  <2>1. \A g \in Files : /\ disk'[g] \in possible'[g]
                         /\ \A d \in possible'[g] : d.whole /\ d.safe
                         /\ disk[g].here => disk'[g].here
    BY <1>3, <1>8 DEF StoreInvariant, NamedFilesAreSynced
  <2>2. disk'[Head(proc'[p].todo)].here
    BY <1>2, <1>3, <1>8 DEF Moves, f
  <2>3. \A q \in Processes \ {p} : At(q, "dirsync") =>
                                    Head(proc[q].todo) \in Files
    BY FileIsListed DEF At
  <2> QED
    BY <1>2, <2>1, <2>2, <2>3
       DEF StoreInvariant, NamedFilesAreSynced, Moves, At
<1>12. CreationIsOrdered'
  <2>1. CASE proc[p].up = Torn
    <3>1. \A q \in Processes : Creates(q)' => q = p
      BY <1>2, <1>5, <2>1 DEF Creates, Moves
    <3>2. \A q \in Processes \ {p} : At(q, "idle")'
      BY <1>2, <1>5, <2>1 DEF At, Moves
    <3>3. proc'[p].todo = proc[p].todo /\ proc'[p].at = "dirsync"
      BY <1>2 DEF Moves
    <3>4. /\ proc[p].todo = AfterLog => f = "plan"
          /\ proc[p].todo = AfterPlan => f = "config"
          /\ proc[p].todo = AfterConfig => f = "manifest"
      BY CreateOrder DEF f
    <3>5. /\ disk["events"].here /\ disk["runlog"].here
          /\ proc[p].todo \in {AfterPlan, AfterConfig} =>
                Safe("events") /\ Safe("plan")
          /\ proc[p].todo = AfterConfig => Safe("config")
      BY <1>3, <1>5, <2>1, CreateOrder DEF StoreInvariant, CreationIsOrdered
    <3>6. /\ disk'["events"].here /\ disk'["runlog"].here
          /\ proc[p].todo \in {AfterPlan, AfterConfig} =>
                Safe("events")' /\ Safe("plan")'
          /\ proc[p].todo = AfterConfig => Safe("config")'
      BY <1>3, <1>8, <3>4, <3>5, CreateOrder DEF Safe, Files
    <3>7. proc[p].todo # AfterConfig =>
              \A d \in possible'["manifest"] : ~d.here
      BY <1>3, <1>5, <1>8, <2>1, <3>4 DEF Files
    <3>8. (\E d \in possible'["manifest"] : d.here) =>
              \A g \in Files : g \in {"manifest", "runlog"} \/ Safe(g)'
      BY <3>6, <3>7 DEF Files
    <3>9. Unpublished(p)' => proc[p].todo # AfterConfig
      BY <3>3 DEF Unpublished, At
    <3> QED
      BY <1>3, <1>4, <1>5, <2>1, <3>1, <3>2, <3>3, <3>6, <3>7, <3>8, <3>9,
         CreateOrder DEF CreationIsOrdered, At
  <2>2. CASE proc[p].up # Torn
    <3>1. \A q \in Processes : ~Unpublished(q)
      BY <1>3, <1>5, <2>2
         DEF StoreInvariant, CreationIsOrdered, Unpublished, Creates, At
    <3>2. \A q \in Processes : Creates(q)' => q # p /\ Creates(q)
      BY <1>2, <2>2 DEF Creates, Moves
    <3>3. \A q \in Processes : ~Unpublished(q)'
      BY <1>2, <3>1, <3>2 DEF Unpublished, Creates, At, Moves
    <3>4. \A g \in Files : g # "manifest" =>
              disk'[g] = disk[g] /\ (Safe(g) => Safe(g)')
      <4>1. f = "manifest"
        BY <1>6, <2>2
      <4>2. \A g \in Files : g # "manifest" =>
                disk'[g] = disk[g] /\ possible'[g] = possible[g]
        BY <1>8, <4>1
      <4> QED
        BY <4>2 DEF Safe
    <3>5. /\ \A g \in Files : g \in {"manifest", "runlog"} \/ Safe(g)
          /\ disk["runlog"].here \/ outage
      BY <1>6, <2>2
         DEF StoreInvariant, CreationIsOrdered, NamedFilesAreSynced, Files
    <3>6. Safe("events")' /\ Safe("plan")' /\ Safe("config")'
      BY <3>4, <3>5 DEF Files
    <3>7. \A q \in Processes : Creates(q)' =>
              /\ Creates(q) /\ proc'[q] = proc[q]
              /\ disk'["events"] = disk["events"]
              /\ disk'["runlog"] = disk["runlog"]
      BY <1>2, <3>2, <3>4 DEF Moves, Files
    <3>8. /\ \A g \in Files : g \in {"manifest", "runlog"} \/ Safe(g)'
          /\ disk'["runlog"].here \/ outage'
      BY <1>4, <3>4, <3>5 DEF Files
    <3> QED
      BY <1>3, <1>4, <3>3, <3>6, <3>7, <3>8
         DEF StoreInvariant, CreationIsOrdered, At
  <2> QED
    BY <2>1, <2>2
<1>13. UpdatesAreLoaded'
  <2>1. disk["manifest"].here => disk'["manifest"].here
    BY <1>3, <1>8 DEF Files
  <2> QED
    BY <1>2, <1>3, <1>4, <2>1 DEF StoreInvariant, UpdatesAreLoaded, Moves
<1>14. UpdatesAreKept'
  <2>1. CASE proc[p].up = Torn
    <3>1. Visible' = {} /\ acked' = {}
      BY <1>2, <1>4, <1>5, <2>1 DEF Visible, At, Moves
    <3> QED
      BY <3>1 DEF UpdatesAreKept
  <2>2. CASE proc[p].up # Torn
    <3>1. Loaded(p) /\ ~Loaded(p)'
      BY <1>2, <1>3, <2>2 DEF Loaded, Moves
    <3>2. \A q \in Processes \ {p} : Loaded(q)' => Loaded(q) /\ proc'[q] = proc[q]
      BY <1>2 DEF Loaded, Moves
    <3>3. Visible' \subseteq Visible \cup {proc[p].up}
      BY <1>2, <1>4 DEF Visible, At, Moves
    <3>4. /\ disk'["manifest"] = c
          /\ possible'["manifest"] = possible["manifest"] \cup {c}
      BY <1>6, <1>8, <2>2 DEF Files
    <3>5. ASSUME NEW u \in Visible' \ contested'
          PROVE  /\ u \in c.ups
                 /\ \A q \in Processes : Loaded(q)' => u \in proc'[q].copy.ups
      <4>1. CASE u = proc[p].up
        BY <1>6, <1>7, <2>2, <3>1, <3>2, <3>5, <4>1
      <4>2. CASE u # proc[p].up
        <5>1. u \in Visible \ contested
          BY <1>7, <3>3, <3>5, <4>2
        <5> QED
          BY <3>1, <3>2, <5>1 DEF StoreInvariant, UpdatesAreKept, c
      <4> QED
        BY <4>1, <4>2
    <3>6. ASSUME NEW u \in acked' \ contested'
          PROVE  \A d \in possible'["manifest"] : u \in d.ups
      <4>1. u \in acked \ contested /\ u \in Visible
        BY <1>4, <1>7, <3>6 DEF Visible
      <4> QED
        BY <3>1, <3>4, <4>1 DEF StoreInvariant, UpdatesAreKept, c
    <3> QED
      BY <3>4, <3>5, <3>6 DEF UpdatesAreKept
  <2> QED
    BY <2>1, <2>2
<1>15. EventsAreSafe'
  BY <1>2, <1>4 DEF StoreInvariant, EventsAreSafe, Moves, At
<1> QED
  BY <1>10, <1>11, <1>12, <1>13, <1>14, <1>15 DEF StoreInvariant

\* The sync of the directory: what is visible is safe from here on.
LEMMA SyncDirectoryKeeps ==
    ASSUME StoreInvariant, NEW p \in Processes, SyncDirectory(p)
    PROVE  StoreInvariant'
<1>1. TypeOK
  BY DEF StoreInvariant
<1>2. proc[p].at = "dirsync" /\ made
  BY <1>1 DEF SyncDirectory, TypeOK, At
<1>3. /\ proc[p].todo \in {AfterLog, AfterPlan, AfterConfig}
      /\ proc[p].todo # <<>> /\ Head(proc[p].todo) \in Files
  BY <1>2, FileIsListed
<1>4. Moves(p, IF proc[p].up = Torn THEN "next" ELSE "append",
            Tail(proc[p].todo), proc[p].copy, proc[p].up)
  BY <1>1, <1>3, SavedMoves DEF SyncDirectory
<1>5. /\ \A f \in Files \ {"runlog"} : possible'[f] = {disk[f]}
      /\ possible'["runlog"] = possible["runlog"]
      /\ possible' \in [Files -> SUBSET Contents]
      /\ acked' = IF proc[p].up = Torn THEN acked ELSE acked \cup {proc[p].up}
      /\ UNCHANGED <<made, disk, log, flushed, issued, contested, noted, outage>>
  BY <1>1 DEF SyncDirectory, Saved, events, TypeOK, Files
<1>10. TypeOK'
  BY <1>1, <1>2, <1>4, <1>5, Fields DEF TypeOK, Moves
<1>11. NamedFilesAreSynced'
  <2>1. \A f \in Files : possible'[f] = {disk[f]} \/ possible'[f] = possible[f]
    BY <1>5
  <2> QED
    BY <1>4, <1>5, <2>1 DEF StoreInvariant, NamedFilesAreSynced, Moves, At
<1>12. CreationIsOrdered'
  <2>1. \A f \in Files \ {"runlog"} : /\ Safe(f) => Safe(f)'
                                      /\ disk[f].here => Safe(f)'
    BY <1>5 DEF StoreInvariant, NamedFilesAreSynced, Safe
  <2>2. \A q \in Processes \ {p} : ~Unpublished(q)'
    BY <1>2, <1>4
       DEF StoreInvariant, CreationIsOrdered, Unpublished, Creates, At, Moves
  <2>3. \A q \in Processes \ {p} : Creates(q)' => Creates(q) /\ proc'[q] = proc[q]
    BY <1>4 DEF Creates, Moves
  <2>4. (\E c \in possible'["manifest"] : c.here) =>
            /\ \A f \in Files : f \in {"manifest", "runlog"} \/ Safe(f)'
            /\ disk'["runlog"].here \/ outage'
    BY <1>5, <2>1
       DEF StoreInvariant, CreationIsOrdered, NamedFilesAreSynced, Files
  <2>5. ASSUME Creates(p)'
        PROVE  /\ proc'[p].at = "next" /\ proc[p].up = Torn /\ Creates(p)
               /\ proc'[p].todo = Tail(proc[p].todo)
    BY <1>2, <1>4, <2>5 DEF Creates, Moves
  <2>6. ASSUME Creates(p)'
        PROVE  /\ disk["runlog"].here
               /\ proc[p].todo = AfterLog =>
                     Safe("events")' /\ Safe("plan")'
               /\ proc[p].todo \in {AfterPlan, AfterConfig} =>
                     Safe("events")' /\ Safe("plan")' /\ Safe("config")'
    <3>1. /\ disk["events"].here /\ disk["runlog"].here
          /\ disk[Head(proc[p].todo)].here
      BY <1>2, <1>3, <2>5, <2>6, CreateOrder
         DEF StoreInvariant, CreationIsOrdered, NamedFilesAreSynced, At
    <3>2. /\ proc[p].todo \in {AfterPlan, AfterConfig} =>
                Safe("events") /\ Safe("plan")
          /\ proc[p].todo = AfterConfig => Safe("config")
      BY <2>5, <2>6 DEF StoreInvariant, CreationIsOrdered
    <3> QED
      BY <2>1, <3>1, <3>2, CreateOrder DEF Files
  <2>7. ASSUME Unpublished(p)'
        PROVE  /\ acked' = {}
               /\ \A q \in Processes \ {p} : At(q, "idle")'
               /\ \A c \in possible'["manifest"] : ~c.here
    <3>1. Creates(p)' /\ Tail(proc[p].todo) # <<>>
      BY <1>4, <2>7 DEF Unpublished, Moves
    <3>2. Unpublished(p)
      BY <1>3, <2>5, <3>1, CreateOrder DEF Unpublished
    <3>3. /\ acked = {} /\ \A q \in Processes \ {p} : At(q, "idle")
          /\ \A c \in possible["manifest"] : ~c.here
      BY <2>5, <3>1, <3>2 DEF StoreInvariant, CreationIsOrdered
    <3> QED
      BY <1>4, <1>5, <2>5, <3>1, <3>3
         DEF StoreInvariant, NamedFilesAreSynced, Files, At, Moves
  <2>8. ASSUME Creates(p)'
        PROVE  /\ proc'[p].todo \in {AfterPlan, AfterConfig, <<>>}
               /\ Safe("events")' /\ Safe("plan")'
               /\ proc'[p].todo \in {AfterConfig, <<>>} => Safe("config")'
    <3>1. /\ proc[p].todo = AfterLog => proc'[p].todo = AfterPlan
          /\ proc[p].todo = AfterPlan => proc'[p].todo = AfterConfig
          /\ proc[p].todo = AfterConfig => proc'[p].todo = <<>>
      BY <2>5, <2>8, CreateOrder
    <3>2. AfterPlan \notin {AfterConfig, <<>>}
      BY CreateOrder
    <3> QED
      BY <1>3, <2>6, <2>8, <3>1, <3>2
  <2>9. Creates(p)' => disk'["events"].here /\ disk'["runlog"].here
    BY <1>5, <2>6, <2>8 DEF Safe, Files
  <2>10. ASSUME NEW q \in Processes \ {p}, Creates(q)'
         PROVE  /\ proc'[q].at \in {"next", "write", "sync", "rename", "dirsync"}
                /\ proc'[q].todo \in {CreateFiles, AfterEvents, AfterLog,
                                      AfterPlan, AfterConfig, <<>>}
                /\ ~At(q, "next")' =>
                      proc'[q].todo \in {AfterLog, AfterPlan, AfterConfig}
                /\ proc'[q].todo # CreateFiles => disk'["events"].here
                /\ proc'[q].todo \notin {CreateFiles, AfterEvents} =>
                      disk'["runlog"].here
                /\ proc'[q].todo \in {AfterPlan, AfterConfig, <<>>} =>
                      Safe("events")' /\ Safe("plan")'
                /\ proc'[q].todo \in {AfterConfig, <<>>} => Safe("config")'
    BY <1>5, <2>1, <2>3, <2>10
       DEF StoreInvariant, CreationIsOrdered, Files, At
  <2> QED
    BY <1>2, <1>5, <2>2, <2>4, <2>5, <2>7, <2>8, <2>9, <2>10, CreateOrder
       DEF CreationIsOrdered, At
<1>13. UpdatesAreLoaded'
  BY <1>2, <1>4, <1>5 DEF StoreInvariant, UpdatesAreLoaded, Moves
<1>14. UpdatesAreKept'
  <2>1. Visible' \subseteq Visible /\ acked' \subseteq Visible
    BY <1>2, <1>4, <1>5 DEF Visible, At, Moves
  <2>2. \A q \in Processes : Loaded(q)' => Loaded(q) /\ proc'[q] = proc[q]
    BY <1>4 DEF Loaded, Moves
  <2> QED
    BY <1>5, <2>1, <2>2 DEF StoreInvariant, UpdatesAreKept, Files
<1>15. EventsAreSafe'
  BY <1>2, <1>4, <1>5 DEF StoreInvariant, EventsAreSafe, Moves, At
<1> QED
  BY <1>10, <1>11, <1>12, <1>13, <1>14, <1>15 DEF StoreInvariant

\* The event of an update that is safe.
LEMMA AppendEventKeeps ==
    ASSUME StoreInvariant, NEW p \in Processes, AppendEvent(p)
    PROVE  StoreInvariant'
<1>1. TypeOK
  BY DEF StoreInvariant
<1>2. Moves(p, "logsync", proc[p].todo, proc[p].copy, proc[p].up)
  BY <1>1, GotoMoves DEF AppendEvent, Steps
<1>3. proc[p].at = "append" /\ made /\ proc[p].up \in acked
  BY <1>1 DEF AppendEvent, TypeOK, StoreInvariant, UpdatesAreLoaded,
     CreationIsOrdered, Creates, At
<1>4. UNCHANGED <<made, disk, possible, flushed, issued, acked, contested, noted,
                  outage>>
  BY DEF AppendEvent, files, history
<1>5. log' = WithLine(proc[p].up) /\ proc[p].up \in Update \cup {Torn}
  BY <1>1, Fields DEF AppendEvent
<1>6. /\ log' \in Seq(Update \cup {Torn}) /\ Len(log) <= Len(log')
      /\ \A i \in 1..Len(log) : log'[i] = log[i]
      /\ \A i \in 1..Len(log') : log'[i] # proc[p].up => i \in 1..Len(log)
      /\ \E i \in 1..Len(log') : log'[i] \in {proc[p].up, Torn}
  BY <1>1, <1>5, LineIsAdded
<1>7. \A i \in 1..Len(log) : i \in 1..Len(log')
  BY <1>1, <1>6 DEF TypeOK
<1>10. TypeOK'
  BY <1>1, <1>2, <1>3, <1>4, <1>6 DEF TypeOK, Moves
<1>11. NamedFilesAreSynced'
  BY <1>2, <1>3, <1>4
     DEF StoreInvariant, NamedFilesAreSynced, Moves, At
<1>12. CreationIsOrdered'
  BY <1>2, <1>3, <1>4
     DEF StoreInvariant, CreationIsOrdered, Moves, At, Creates, Unpublished, Safe
<1>13. UpdatesAreLoaded'
  BY <1>2, <1>3, <1>4
     DEF StoreInvariant, UpdatesAreLoaded, Moves, At
<1>14. UpdatesAreKept'
  BY <1>2, <1>3, <1>4
     DEF StoreInvariant, UpdatesAreKept, Moves, Visible, Loaded, At
<1>15. EventsAreSafe'
  <2>1. \A i \in 1..Len(log') : log'[i] \in acked \cup {Torn}
    BY <1>3, <1>6 DEF StoreInvariant, EventsAreSafe
  <2>2. \A i \in 1..flushed : log'[i] = log[i]
    BY <1>1, <1>6 DEF TypeOK
  <2>3. \A q \in Processes : At(q, "logsync")' =>
            \E i \in 1..Len(log') : log'[i] \in {proc'[q].up, Torn}
    BY <1>2, <1>6, <1>7 DEF StoreInvariant, EventsAreSafe, Moves, At
  <2> QED
    BY <1>4, <2>1, <2>2, <2>3 DEF StoreInvariant, EventsAreSafe
<1> QED
  BY <1>10, <1>11, <1>12, <1>13, <1>14, <1>15 DEF StoreInvariant

\* The sync of the log.
LEMMA SyncLogKeeps ==
    ASSUME StoreInvariant, NEW p \in Processes, SyncLog(p)
    PROVE  StoreInvariant'
<1>1. TypeOK
  BY DEF StoreInvariant
<1>2. Moves(p, "idle", <<>>, Absent, Torn)
  BY <1>1, IdleMoves DEF SyncLog
<1>3. proc[p].at = "logsync" /\ made /\ proc[p].up \in acked
  BY <1>1 DEF SyncLog, TypeOK, StoreInvariant, UpdatesAreLoaded,
     CreationIsOrdered, Creates, At
<1>4. UNCHANGED <<made, disk, possible, log, issued, acked, contested, outage>>
  BY DEF SyncLog, files, history
<1>5. flushed' = Len(log) /\ noted' = noted \cup {proc[p].up}
  BY DEF SyncLog
<1>10. TypeOK'
  BY <1>1, <1>2, <1>3, <1>4, <1>5 DEF TypeOK, Moves
<1>11. NamedFilesAreSynced'
  BY <1>2, <1>3, <1>4
     DEF StoreInvariant, NamedFilesAreSynced, Moves, At
<1>12. CreationIsOrdered'
  BY <1>2, <1>3, <1>4
     DEF StoreInvariant, CreationIsOrdered, Moves, At, Creates, Unpublished, Safe
<1>13. UpdatesAreLoaded'
  BY <1>2, <1>3, <1>4
     DEF StoreInvariant, UpdatesAreLoaded, Moves, At
<1>14. UpdatesAreKept'
  BY <1>2, <1>3, <1>4
     DEF StoreInvariant, UpdatesAreKept, Moves, Visible, Loaded, At
<1>15. EventsAreSafe'
  <2>1. \A i \in 1..flushed : i \in 1..Len(log)
    BY <1>1 DEF TypeOK
  <2>2. \A u \in noted' : \E i \in 1..Len(log) : log[i] \in {u, Torn}
    BY <1>3, <1>5, <2>1 DEF StoreInvariant, EventsAreSafe, At
  <2> QED
    BY <1>2, <1>4, <1>5, <2>2 DEF StoreInvariant, EventsAreSafe, Moves, At
<1> QED
  BY <1>10, <1>11, <1>12, <1>13, <1>14, <1>15 DEF StoreInvariant

\* A failing call or a dying process.
LEMMA StopKeeps ==
    ASSUME StoreInvariant, NEW p \in Processes, Stop(p)
    PROVE  StoreInvariant'
<1>1. TypeOK
  BY DEF StoreInvariant
<1>2. Moves(p, "idle", <<>>, Absent, Torn)
  BY <1>1, IdleMoves DEF Stop
<1>3. made
  BY <1>1 DEF Stop, TypeOK, At
<1>4. UNCHANGED <<made, disk, possible, flushed, issued, acked, contested, noted,
                  outage>>
  BY DEF Stop, files, history
<1>5. /\ log' \in Seq(Update \cup {Torn}) /\ Len(log) <= Len(log')
      /\ \A i \in 1..Len(log) : log'[i] = log[i]
      /\ \A i \in 1..Len(log') : log'[i] # Torn => i \in 1..Len(log)
  <2>1. CASE UNCHANGED log
    BY <1>1, <2>1 DEF TypeOK
  <2>2. CASE log' = WithLine(Torn)
    BY <1>1, <2>2, LineIsAdded
  <2> QED
    BY <2>1, <2>2 DEF Stop
<1>6. \A i \in 1..Len(log) : i \in 1..Len(log')
  BY <1>1, <1>5 DEF TypeOK
<1>10. TypeOK'
  BY <1>1, <1>2, <1>3, <1>4, <1>5 DEF TypeOK, Moves
<1>11. NamedFilesAreSynced'
  BY <1>2, <1>3, <1>4
     DEF StoreInvariant, NamedFilesAreSynced, Moves, At
<1>12. CreationIsOrdered'
  BY <1>2, <1>3, <1>4
     DEF StoreInvariant, CreationIsOrdered, Moves, At, Creates, Unpublished, Safe
<1>13. UpdatesAreLoaded'
  BY <1>2, <1>3, <1>4
     DEF StoreInvariant, UpdatesAreLoaded, Moves, At
<1>14. UpdatesAreKept'
  BY <1>2, <1>3, <1>4
     DEF StoreInvariant, UpdatesAreKept, Moves, Visible, Loaded, At
<1>15. EventsAreSafe'
  <2>1. \A i \in 1..Len(log') : log'[i] \in acked \cup {Torn}
    BY <1>5 DEF StoreInvariant, EventsAreSafe
  <2>2. \A i \in 1..flushed : log'[i] = log[i]
    BY <1>1, <1>5 DEF TypeOK
  <2>3. \A q \in Processes : At(q, "logsync")' =>
            \E i \in 1..Len(log') : log'[i] \in {proc'[q].up, Torn}
    BY <1>2, <1>5, <1>6 DEF StoreInvariant, EventsAreSafe, Moves, At
  <2> QED
    BY <1>4, <2>1, <2>2, <2>3 DEF StoreInvariant, EventsAreSafe
<1> QED
  BY <1>10, <1>11, <1>12, <1>13, <1>14, <1>15 DEF StoreInvariant

\* A loss of power: any possible content, and no process.
LEMMA PowerLossKeeps ==
    ASSUME StoreInvariant, PowerLoss
    PROVE  StoreInvariant'
<1>1. TypeOK
  BY DEF StoreInvariant
<1>2. /\ \A f \in Files : disk'[f] \in possible[f] /\ possible'[f] = {disk'[f]}
      /\ disk' \in [Files -> Contents]
      /\ possible' \in [Files -> SUBSET Contents]
  <2>1. PICK e \in Found("events"), r \in Found("runlog"), p \in Found("plan"),
             c \in Found("config"), m \in Found("manifest") :
            disk' = [events |-> e, runlog |-> r, plan |-> p, config |-> c,
                     manifest |-> m]
    BY DEF PowerLoss
  <2>2. /\ \A f \in Files : disk'[f] \in Found(f)
        /\ disk' = [f \in Files |-> disk'[f]]
    BY <2>1 DEF Files
  <2>3. possible' = [f \in Files |-> {disk'[f]}]
    BY DEF PowerLoss
  <2>4. \A f \in Files : \A d \in possible[f] : Remains(d) = {d}
    BY DEF StoreInvariant, NamedFilesAreSynced, Remains
  <2>5. \A f \in Files : disk'[f] \in possible[f]
    BY <2>2, <2>4 DEF Found
  <2> QED
    BY <1>1, <2>2, <2>3, <2>5 DEF TypeOK
<1>3. /\ \A q \in Processes : proc'[q] = Idle
      /\ proc' \in [Processes -> Process]
  BY IdleType DEF PowerLoss
<1>4. made /\ outage' /\ UNCHANGED <<made, issued, acked, contested, noted>>
  BY DEF PowerLoss, history
<1>5. /\ log' \in Seq(Update \cup {Torn})
      /\ flushed' = Len(log') /\ flushed <= Len(log')
      /\ \A i \in 1..flushed : log'[i] = log[i]
      /\ \A i \in 1..Len(log') :
            log'[i] = Torn \/ (i \in 1..Len(log) /\ log'[i] = log[i])
  BY <1>1, LogIsCut
<1>6. /\ Idle.at = "idle" /\ Idle.up = Torn
  BY DEF Idle
<1>10. TypeOK'
  <2>1. flushed' \in 0..Len(log')
    BY <1>5
  <2> QED
    BY <1>1, <1>2, <1>3, <1>4, <1>5, <2>1 DEF TypeOK
<1>11. NamedFilesAreSynced'
  BY <1>2, <1>3, <1>6 DEF StoreInvariant, NamedFilesAreSynced, At
<1>12. CreationIsOrdered'
  <2>1. \A q \in Processes : ~Creates(q)'
    BY <1>3, <1>6 DEF Creates
  <2>2. (\E c \in possible'["manifest"] : c.here) =>
            \A f \in Files : f \in {"manifest", "runlog"} \/ Safe(f)'
    BY <1>2 DEF StoreInvariant, CreationIsOrdered, Safe, Files
  <2> QED
    BY <1>4, <2>1, <2>2 DEF CreationIsOrdered
<1>13. UpdatesAreLoaded'
  BY <1>3, <1>6 DEF UpdatesAreLoaded
<1>14. UpdatesAreKept'
  <2>1. Visible' = acked /\ \A q \in Processes : ~Loaded(q)'
    BY <1>3, <1>4, <1>6 DEF Visible, Loaded, At
  <2> QED
    BY <1>2, <1>4, <2>1 DEF StoreInvariant, UpdatesAreKept, Files
<1>15. EventsAreSafe'
  <2>1. \A i \in 1..flushed : i \in 1..Len(log')
    BY <1>1, <1>5 DEF TypeOK
  <2> QED
    BY <1>3, <1>4, <1>5, <1>6, <2>1 DEF StoreInvariant, EventsAreSafe, At
<1> QED
  BY <1>10, <1>11, <1>12, <1>13, <1>14, <1>15 DEF StoreInvariant

-----------------------------------------------------------------------------
\* A machine without the run.
LEMMA InvariantInit == Init => StoreInvariant
<1> SUFFICES ASSUME Init PROVE StoreInvariant
  OBVIOUS
<1>1. /\ made = FALSE /\ log = <<>> /\ flushed = 0
      /\ acked = {} /\ contested = {} /\ noted = {} /\ outage = FALSE
      /\ issued = [p \in Processes |-> 0]
  BY DEF Init
<1>2. \A f \in Files : disk[f] = Absent /\ possible[f] = {Absent}
  BY DEF Init
<1>3. \A p \in Processes : proc[p] = Idle /\ Idle.at = "idle" /\ Idle.up = Torn
  BY DEF Init, Idle
<1>4. Absent.whole /\ Absent.safe /\ ~Absent.here
  BY DEF Absent
<1>5. TypeOK
  <2>1. /\ disk \in [Files -> Contents]
        /\ possible \in [Files -> SUBSET Contents]
        /\ proc \in [Processes -> Process]
    BY ContentTypes, IdleType DEF Init
  <2>2. issued \in [Processes -> 0..MaxUpdates]
    BY <1>1, MaxUpdatesAssumption
  <2>3. log \in Seq(Update \cup {Torn}) /\ flushed \in 0..Len(log)
    BY <1>1
  <2> QED
    BY <1>1, <1>3, <2>1, <2>2, <2>3 DEF TypeOK, At
<1>6. NamedFilesAreSynced
  BY <1>2, <1>3, <1>4 DEF NamedFilesAreSynced, At
<1>7. CreationIsOrdered
  BY <1>1, <1>2, <1>3, <1>4 DEF CreationIsOrdered, Creates, Files
<1>8. UpdatesAreLoaded
  BY <1>3 DEF UpdatesAreLoaded
<1>9. UpdatesAreKept
  BY <1>1, <1>3 DEF UpdatesAreKept, Visible, At
<1>10. EventsAreSafe
  BY <1>1, <1>3 DEF EventsAreSafe, At
<1> QED
  BY <1>5, <1>6, <1>7, <1>8, <1>9, <1>10 DEF StoreInvariant

\* Steps of nobody.
LEMMA StutterKeeps ==
    ASSUME StoreInvariant, UNCHANGED vars
    PROVE  StoreInvariant'
<1>1. UNCHANGED <<made, disk, possible, log, flushed, proc, issued, acked,
                  contested, noted, outage>>
  BY DEF vars, files, events, history
<1> QED
  BY <1>1 DEF StoreInvariant, TypeOK, NamedFilesAreSynced, CreationIsOrdered,
     UpdatesAreLoaded, UpdatesAreKept, EventsAreSafe, At, Creates, Unpublished,
     Safe, Visible, Loaded

\* Between any two system calls of any number of processes, after any failures
\* and losses of power, the store keeps its invariant.
THEOREM StoreIsSound == Spec => []StoreInvariant
<1>1. StoreInvariant /\ [Next]_vars => StoreInvariant'
  <2> SUFFICES ASSUME StoreInvariant, [Next]_vars PROVE StoreInvariant'
    OBVIOUS
  <2>1. CASE UNCHANGED vars
    BY <2>1, StutterKeeps
  <2>2. CASE PowerLoss
    BY <2>2, PowerLossKeeps
  <2>3. ASSUME NEW p \in Processes,
               \/ Create(p) \/ CreateEmptyFile(p) \/ CreateFile(p)
               \/ CreateReturns(p) \/ Load(p) \/ WriteTemp(p) \/ SyncTemp(p)
               \/ Rename(p) \/ SyncDirectory(p) \/ AppendEvent(p)
               \/ SyncLog(p) \/ Stop(p)
        PROVE  StoreInvariant'
    BY <2>3, CreateKeeps, CreateEmptyFileKeeps, CreateFileKeeps,
       CreateReturnsKeeps, LoadKeeps, WriteTempKeeps, SyncTempKeeps,
       RenameKeeps, SyncDirectoryKeeps, AppendEventKeeps, SyncLogKeeps,
       StopKeeps
  <2> QED
    BY <2>1, <2>2, <2>3 DEF Next
<1> QED
  BY <1>1, InvariantInit, PTL DEF Spec

\* No reader ever finds part of a file.
THEOREM EveryFileIsWhole == Spec => []FilesAreWhole
<1>1. StoreInvariant => FilesAreWhole
  BY DEF StoreInvariant, NamedFilesAreSynced, FilesAreWhole
<1> QED
  BY <1>1, StoreIsSound, PTL

\* A run with a manifest has everything that resume and AppendEvent open, the
\* run log only until power is lost.
THEOREM EveryRunIsUsable == Spec => []RunIsUsable
<1>1. StoreInvariant => RunIsUsable
  BY DEF StoreInvariant, NamedFilesAreSynced, CreationIsOrdered, RunIsUsable,
     Safe, Files
<1> QED
  BY <1>1, StoreIsSound, PTL

\* An update that returned nil and had no rival is never lost.
THEOREM NoUpdateIsLost == Spec => []AckedUpdateSurvives
<1>1. StoreInvariant => AckedUpdateSurvives
  BY DEF StoreInvariant, UpdatesAreKept, AckedUpdateSurvives, Visible
<1> QED
  BY <1>1, StoreIsSound, PTL

\* No event outlives the update it reports.
THEOREM EventsReportUpdates == Spec => []EventsFollowManifest
<1>1. StoreInvariant => EventsFollowManifest
  BY DEF StoreInvariant, UpdatesAreKept, EventsAreSafe, EventsFollowManifest,
     Visible
<1> QED
  BY <1>1, StoreIsSound, PTL

\* An event whose AppendEvent returned nil stays, or was taken by a torn line.
THEOREM NoNotedEventIsLost == Spec => []NotedEventStays
<1>1. StoreInvariant => NotedEventStays
  <2> SUFFICES ASSUME StoreInvariant PROVE NotedEventStays
    OBVIOUS
  <2>1. \A i \in 1..flushed : i \in 1..Len(log)
    BY DEF StoreInvariant, TypeOK
  <2> QED
    BY <2>1 DEF StoreInvariant, EventsAreSafe, NotedEventStays
<1> QED
  BY <1>1, StoreIsSound, PTL

\* The files, the directory and the processes of the store keep their types.
THEOREM StoreIsTyped == Spec => []TypeOK
<1>1. StoreInvariant => TypeOK
  BY DEF StoreInvariant
<1> QED
  BY <1>1, StoreIsSound, PTL
=============================================================================
