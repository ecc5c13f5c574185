--------------------------- MODULE ManifestStore ----------------------------
(***************************************************************************)
(* The run-state store under RunState's atomic saves: Create, Update,      *)
(* atomicWrite and AppendEvent one system call at a time, by processes     *)
(* that know nothing of each other, with failing calls, a process that     *)
(* dies and a machine that loses power.                                    *)
(*                                                                         *)
(* The filesystem (external) promises what POSIX does: a write is safe     *)
(* after the file's Sync, a new name after the directory's, and a rename   *)
(* shows either the old or the new file.  The run directory's own entry in *)
(* its root, which the code never syncs, is taken to be safe; the name of  *)
(* the run log, in a directory of its own that the code does not sync      *)
(* either, is not.  A manifest is the set of updates applied to it: its    *)
(* Revision is their number.                                               *)
(***************************************************************************)
EXTENDS Naturals, Sequences, FiniteSets

CONSTANTS
    Processes,  \* processes working on the run: run, resume, cleanup
    MaxUpdates  \* bound on the updates of one process

ASSUME MaxUpdatesAssumption == MaxUpdates \in Nat

\* The run log is logs/tailbench.log, the others are in the run's directory.
Files == {"events", "runlog", "plan", "config", "manifest"}
Update == Processes \X (1..MaxUpdates)
Torn == <<>>   \* a line of the event log that does not decode

VARIABLES
    made,       \* the run's directory exists
    disk,       \* each file as a reader sees it, or Absent
    possible,   \* each file as it may be found after a loss of power
    log,        \* the lines of events.jsonl
    flushed,    \* how many of them are safe
    proc,       \* the processes
    issued,     \* updates each process has begun
    acked,      \* updates whose Update returned nil
    contested,  \* updates saved while another process had loaded the manifest
    noted,      \* updates whose AppendEvent returned nil
    outage      \* power has been lost since the run's directory was made

files == <<made, disk, possible>>
events == <<log, flushed>>
history == <<issued, acked, contested, noted, outage>>
vars == <<files, events, proc, history>>

Absent == [here |-> FALSE, whole |-> TRUE, safe |-> TRUE, ups |-> {}]
Content(ups) == [here |-> TRUE, whole |-> TRUE, safe |-> FALSE, ups |-> ups]
Idle == [at |-> "idle", todo |-> <<>>, copy |-> Absent, up |-> Torn]

Init ==
    /\ made = FALSE
    /\ disk = [f \in Files |-> Absent]
    /\ possible = [f \in Files |-> {Absent}]
    /\ log = <<>> /\ flushed = 0
    /\ proc = [p \in Processes |-> Idle]
    /\ issued = [p \in Processes |-> 0]
    /\ acked = {} /\ contested = {} /\ noted = {} /\ outage = FALSE

At(p, step) == proc[p].at = step
Goto(p, step) == proc' = [proc EXCEPT ![p].at = step]

-----------------------------------------------------------------------------
\* Mutant: the manifest comes before the files it names.
CreateFilesManifestFirst == <<"events", "runlog", "manifest", "plan", "config">>

\* What Create writes into the new directory, in its order.
CreateFiles == <<"events", "runlog", "plan", "config", "manifest">>

\* Mutant: the files are written into whatever directory there is.
CreateWithoutMkdir(p) ==
    /\ At(p, "idle") /\ ~made
    /\ proc' = [proc EXCEPT ![p] = [Idle EXCEPT !.at = "next",
                                                !.todo = CreateFiles]]
    /\ UNCHANGED <<files, events, history>>

\* Mkdir lets only one process create a run of that name.
Create(p) ==
    /\ At(p, "idle") /\ ~made
    /\ made' = TRUE
    /\ proc' = [proc EXCEPT ![p] = [Idle EXCEPT !.at = "next",
                                                !.todo = CreateFiles]]
    /\ UNCHANGED <<disk, possible, events, history>>

EmptyFiles == {"events", "runlog"}

\* The next file: events.jsonl and the run log are made empty and the file, not
\* its name, synced.
CreateEmptyFile(p) ==
    /\ At(p, "next") /\ proc[p].todo # <<>> /\ Head(proc[p].todo) \in EmptyFiles
    /\ LET f == Head(proc[p].todo)
           empty == [Content({}) EXCEPT !.safe = TRUE]
       IN /\ disk' = [disk EXCEPT ![f] = empty]
          /\ possible' = [possible EXCEPT ![f] = @ \cup {empty}]
    /\ proc' = [proc EXCEPT ![p].todo = Tail(proc[p].todo)]
    /\ UNCHANGED <<made, events, history>>

CreateFile(p) ==
    /\ At(p, "next") /\ proc[p].todo # <<>> /\ Head(proc[p].todo) \notin EmptyFiles
    /\ proc' = [proc EXCEPT ![p].at = "write", ![p].copy = Content({})]
    /\ UNCHANGED <<files, events, history>>

\* Mutant: a process updates the copy it has from its own last update.
LoadFromMemory(p) ==
    /\ At(p, "idle") /\ issued[p] < MaxUpdates
    /\ disk["manifest"].here /\ disk["manifest"].whole
    /\ LET u == <<p, issued[p] + 1>>
       IN proc' = [proc EXCEPT ![p] =
                    [at |-> "write", todo |-> <<"manifest">>, up |-> u,
                     copy |-> Content({p} \X (1..u[2]))]]
    /\ issued' = [issued EXCEPT ![p] = @ + 1]
    /\ UNCHANGED <<files, events, acked, contested, noted, outage>>

\* Update: Load refuses a manifest that is not there or does not decode, and the
\* mutation is applied to the copy.
Load(p) ==
    /\ At(p, "idle") /\ issued[p] < MaxUpdates
    /\ disk["manifest"].here /\ disk["manifest"].whole
    /\ LET u == <<p, issued[p] + 1>>
       IN proc' = [proc EXCEPT ![p] =
                    [at |-> "write", todo |-> <<"manifest">>, up |-> u,
                     copy |-> Content(disk["manifest"].ups \cup {u})]]
    /\ issued' = [issued EXCEPT ![p] = @ + 1]
    /\ UNCHANGED <<files, events, acked, contested, noted, outage>>

-----------------------------------------------------------------------------
\* atomicWrite.

\* CreateTemp, Chmod and Write.
WriteTemp(p) ==
    /\ At(p, "write") /\ Goto(p, "sync")
    /\ UNCHANGED <<files, events, history>>

\* Mutant: the temporary file is closed without a Sync.
CloseTemp(p) ==
    /\ At(p, "sync") /\ Goto(p, "rename")
    /\ UNCHANGED <<files, events, history>>

SyncTemp(p) ==
    /\ At(p, "sync")
    /\ proc' = [proc EXCEPT ![p].at = "rename", ![p].copy.safe = TRUE]
    /\ UNCHANGED <<files, events, history>>

\* Another process between its Load and its Rename.
Loaded(q) ==
    /\ proc[q].at \in {"write", "sync", "rename"}
    /\ proc[q].up # Torn

Rename(p) ==
    /\ At(p, "rename")
    /\ LET f == Head(proc[p].todo)
       IN /\ disk' = [disk EXCEPT ![f] = proc[p].copy]
          /\ possible' = [possible EXCEPT ![f] = @ \cup {proc[p].copy}]
    /\ contested' = IF \E q \in Processes \ {p} : Loaded(q)
                    THEN contested \cup {proc[p].up} ELSE contested
    /\ Goto(p, "dirsync")
    /\ UNCHANGED <<made, events, issued, acked, noted, outage>>

\* After a save Update returns; Create goes on to its next file.
Saved(p) ==
    /\ proc' = [proc EXCEPT ![p].at = IF proc[p].up = Torn THEN "next"
                                      ELSE "append",
                            ![p].todo = Tail(@)]
    /\ acked' = IF proc[p].up = Torn THEN acked ELSE acked \cup {proc[p].up}

\* The run's directory, and not the directory of the run log in it.
SyncDirectory(p) ==
    /\ At(p, "dirsync")
    /\ possible' = [f \in Files |-> IF f = "runlog" THEN possible[f] ELSE {disk[f]}]
    /\ Saved(p)
    /\ UNCHANGED <<made, disk, events, issued, contested, noted, outage>>

-----------------------------------------------------------------------------
\* AppendEvent, which the recorder calls after Update.  A line that follows a
\* torn one is part of it.
WithLine(u) ==
    IF log # <<>> /\ log[Len(log)] = Torn THEN log ELSE Append(log, u)

\* Mutant: the event is written without a Sync.
AppendUnsynced(p) ==
    /\ At(p, "append") /\ disk["events"].here
    /\ log' = WithLine(proc[p].up)
    /\ proc' = [proc EXCEPT ![p] = Idle]
    /\ noted' = noted \cup {proc[p].up}
    /\ UNCHANGED <<files, flushed, issued, acked, contested, outage>>

AppendEvent(p) ==
    /\ At(p, "append") /\ disk["events"].here
    /\ log' = WithLine(proc[p].up)
    /\ Goto(p, "logsync")
    /\ UNCHANGED <<files, flushed, history>>

SyncLog(p) ==
    /\ At(p, "logsync")
    /\ flushed' = Len(log)
    /\ noted' = noted \cup {proc[p].up}
    /\ proc' = [proc EXCEPT ![p] = Idle]
    /\ UNCHANGED <<files, log, issued, acked, contested, outage>>

\* Create's own event is left out of the log; with it Create returns.
CreateReturns(p) ==
    /\ At(p, "next") /\ proc[p].todo = <<>>
    /\ proc' = [proc EXCEPT ![p] = Idle]
    /\ UNCHANGED <<files, events, history>>

-----------------------------------------------------------------------------
\* Mutant: the recorder reports an update whether it was saved or not.
StopIgnoringErrors(p) ==
    /\ ~At(p, "idle")
    /\ proc' = [proc EXCEPT ![p] = IF Loaded(p) THEN [@ EXCEPT !.at = "append"]
                                   ELSE Idle]
    /\ UNCHANGED <<files, events, history>>

\* A system call fails and the method returns its error, or the process dies.
\* Nothing is undone; a failing Write may leave part of a line.
Stop(p) ==
    /\ ~At(p, "idle")
    /\ proc' = [proc EXCEPT ![p] = Idle]
    /\ \/ UNCHANGED log
       \/ At(p, "append") /\ log' = WithLine(Torn)
    /\ UNCHANGED <<files, flushed, history>>

\* What is left of a file that may not have been synced.
Remains(c) == {c} \cup (IF c.safe THEN {} ELSE {[c EXCEPT !.whole = FALSE]})

Found(f) == UNION {Remains(c) : c \in possible[f]}

PowerLoss ==
    /\ made
    /\ \E e \in Found("events"), r \in Found("runlog"), p \in Found("plan"),
          c \in Found("config"), m \in Found("manifest") :
          disk' = [events |-> e, runlog |-> r, plan |-> p, config |-> c,
                   manifest |-> m]
    /\ possible' = [f \in Files |-> {disk'[f]}]
    /\ \E n \in flushed..Len(log) :
          /\ \/ log' = SubSeq(log, 1, n)
             \/ n < Len(log) /\ log' = Append(SubSeq(log, 1, n), Torn)
          /\ flushed' = Len(log')
    /\ proc' = [p \in Processes |-> Idle]
    /\ outage' = TRUE
    /\ UNCHANGED <<made, issued, acked, contested, noted>>

Next ==
    \/ \E p \in Processes :
          \/ Create(p) \/ CreateEmptyFile(p) \/ CreateFile(p) \/ CreateReturns(p)
          \/ Load(p) \/ WriteTemp(p) \/ SyncTemp(p) \/ Rename(p)
          \/ SyncDirectory(p) \/ AppendEvent(p) \/ SyncLog(p) \/ Stop(p)
    \/ PowerLoss

Spec == Init /\ [][Next]_vars

-----------------------------------------------------------------------------
Contents ==
    [here : BOOLEAN, whole : BOOLEAN, safe : BOOLEAN, ups : SUBSET Update]

Steps == {"idle", "next", "write", "sync", "rename", "dirsync", "append",
          "logsync"}

Process == [at : Steps, todo : Seq(Files), copy : Contents,
            up : Update \cup {Torn}]

TypeOK ==
    /\ made \in BOOLEAN
    /\ disk \in [Files -> Contents]
    /\ possible \in [Files -> SUBSET Contents]
    /\ log \in Seq(Update \cup {Torn})
    /\ flushed \in 0..Len(log)
    /\ proc \in [Processes -> Process]
    /\ issued \in [Processes -> 0..MaxUpdates]
    /\ acked \in SUBSET Update /\ noted \in SUBSET acked
    /\ contested \in SUBSET Update /\ outage \in BOOLEAN
    /\ made \/ \A p \in Processes : At(p, "idle")

\* Whoever reads a file of the run finds nothing or a whole one, after any
\* failure and any loss of power: atomicWrite renames only what it has synced.
FilesAreWhole == \A f \in Files : disk[f].whole

\* A run that has a manifest has its plan, its effective configuration and its
\* event log, which resume and AppendEvent open without creating them: Create
\* saves the manifest last and every earlier name is safe by then.  Its run log,
\* which resume opens in the same way, it has unless power was lost: the name in
\* logs/ is never made safe, and without the file every resume is refused.
RunIsUsable ==
    disk["manifest"].here =>
        /\ \A f \in Files \ {"runlog"} : disk[f].here
        /\ disk["runlog"].here \/ outage

\* An update that returned nil is never lost, by a loss of power or by a later
\* update, unless another process had loaded the manifest when it was saved:
\* the store takes no lock.
AckedUpdateSurvives == acked \ contested \subseteq disk["manifest"].ups

\* No event outlives the update it reports: the recorder appends it only after
\* the update is safe.
EventsFollowManifest ==
    \A i \in 1..Len(log) :
        log[i] = Torn \/ log[i] \in contested \cup disk["manifest"].ups

\* An event whose AppendEvent returned nil stays in the log, unless an earlier
\* append broke off and left a line that takes later ones with it.
NotedEventStays ==
    \A u \in noted : \E i \in 1..Len(log) : log[i] \in {u, Torn}

-----------------------------------------------------------------------------
(***************************************************************************)
(* The inductive invariant behind the properties above.                    *)
(***************************************************************************)

\* Only what is whole and synced ever gets the name of a file.
NamedFilesAreSynced ==
    /\ \A f \in Files :
          /\ disk[f] \in possible[f]
          /\ \A c \in possible[f] : c.whole /\ c.safe
    /\ \A p \in Processes :
          /\ proc[p].at \in {"write", "sync", "rename"} =>
                proc[p].copy.here /\ proc[p].copy.whole
          /\ At(p, "rename") => proc[p].copy.safe
          /\ At(p, "dirsync") => disk[Head(proc[p].todo)].here

\* The file is there, and stays there through a loss of power.
Safe(f) == \A c \in possible[f] : c.here

\* What is left to Create after each file.
AfterEvents == <<"runlog", "plan", "config", "manifest">>
AfterLog == <<"plan", "config", "manifest">>
AfterPlan == <<"config", "manifest">>
AfterConfig == <<"manifest">>

Creates(p) == proc[p].at # "idle" /\ proc[p].up = Torn

\* Create has not yet shown its manifest to anybody.
Unpublished(p) ==
    /\ Creates(p) /\ proc[p].todo # <<>>
    /\ ~(At(p, "dirsync") /\ proc[p].todo = AfterConfig)

\* Until then its process is alone, and it works through its files in order.
CreationIsOrdered ==
    /\ made \/ /\ acked = {}
               /\ \A f \in Files : possible[f] = {Absent}
    /\ \A p \in Processes : Creates(p) =>
          /\ proc[p].at \in {"next", "write", "sync", "rename", "dirsync"}
          /\ proc[p].todo \in {CreateFiles, AfterEvents, AfterLog, AfterPlan,
                               AfterConfig, <<>>}
          /\ ~At(p, "next") => proc[p].todo \in {AfterLog, AfterPlan, AfterConfig}
          /\ proc[p].todo # CreateFiles => disk["events"].here
          /\ proc[p].todo \notin {CreateFiles, AfterEvents} => disk["runlog"].here
          /\ proc[p].todo \in {AfterPlan, AfterConfig, <<>>} =>
                Safe("events") /\ Safe("plan")
          /\ proc[p].todo \in {AfterConfig, <<>>} => Safe("config")
          /\ Unpublished(p) =>
                /\ acked = {}
                /\ \A q \in Processes \ {p} : At(q, "idle")
                /\ \A c \in possible["manifest"] : ~c.here
    /\ (\E c \in possible["manifest"] : c.here) =>
          /\ \A f \in Files : f \in {"manifest", "runlog"} \/ Safe(f)
          /\ disk["runlog"].here \/ outage

\* What a process inside Update holds.
UpdatesAreLoaded ==
    \A p \in Processes : proc[p].up # Torn =>
        /\ proc[p].at \in {"write", "sync", "rename", "dirsync"} =>
              /\ proc[p].todo = AfterConfig
              /\ proc[p].up \in proc[p].copy.ups
              /\ disk["manifest"].here
        /\ proc[p].at \in {"append", "logsync"} => proc[p].up \in acked
        /\ proc[p].at # "next"

\* Updates that a reader finds: acknowledged ones, and those renamed and not yet
\* synced, which a loss of power may still take back.
Visible == acked \cup {proc[p].up : p \in {q \in Processes :
                                        At(q, "dirsync") /\ proc[q].up # Torn}}

UpdatesAreKept ==
    /\ \A u \in Visible \ contested :
          /\ u \in disk["manifest"].ups
          /\ \A q \in Processes : Loaded(q) => u \in proc[q].copy.ups
    /\ \A u \in acked \ contested : \A c \in possible["manifest"] : u \in c.ups

EventsAreSafe ==
    /\ \A i \in 1..Len(log) : log[i] \in acked \cup {Torn}
    /\ \A u \in noted : \E i \in 1..flushed : log[i] \in {u, Torn}
    /\ \A p \in Processes : At(p, "logsync") =>
          \E i \in 1..Len(log) : log[i] \in {proc[p].up, Torn}

\* All of it: what atomicWrite, Create, Update and AppendEvent keep between any
\* two of their system calls.
StoreInvariant ==
    /\ TypeOK
    /\ NamedFilesAreSynced
    /\ CreationIsOrdered
    /\ UpdatesAreLoaded
    /\ UpdatesAreKept
    /\ EventsAreSafe
=============================================================================
