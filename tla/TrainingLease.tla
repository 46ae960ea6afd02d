--------------------------- MODULE TrainingLease ---------------------------
(***************************************************************************)
(* backend/training_pipeline_lease.py: the lease file that keeps two       *)
(* processes from rewriting the training data at once.  Every action is    *)
(* one system call on the file, so the processes interleave between the    *)
(* read of a stale lease, the probe of its owner and the unlink, and each  *)
(* may die between any two calls.  A process acquires once.                *)
(***************************************************************************)
EXTENDS Naturals, FiniteSets

CONSTANTS
  Procs,       \* the processes: retrain, nightly calibration, ...
  Attempts     \* range(2)

ASSUME LeaseAssumption ==
  /\ Attempts \in Nat \ {0, 1}
  /\ "nobody" \notin Procs

VARIABLES
  file,        \* the lease file, or NoFile
  proc,        \* per process: where it is, its attempt and the lease it judged
  alone,       \* observed: no other process ran since this one began
  overtaken    \* observed: a takeover removed a lease it had not judged dead

vars == <<file, proc, alone, overtaken>>

NoFile == [by |-> "nobody", nth |-> 0, written |-> FALSE, old |-> FALSE]

Terminal == {"idle", "busy", "done", "dead"}

\* The token is unique to a process and its attempt.
Token(f) == <<f.by, f.nth>>

Judged(f, as) == [token |-> Token(f), as |-> as]

Unjudged == Judged(NoFile, "unjudged")

Mine(p) == file # NoFile /\ Token(file) = <<p, proc[p].try>>

Alive(p) == proc[p].at # "dead"

Init ==
  /\ file = NoFile
  /\ proc = [p \in Procs |-> [at |-> "idle", try |-> 0, judged |-> Unjudged]]
  /\ alone = [p \in Procs |-> FALSE]
  /\ overtaken = FALSE

\* Process p moves on; every other process has seen it run.
Moves(p, at, try, judged) ==
  /\ proc' = [proc EXCEPT ![p] = [at |-> at, try |-> try, judged |-> judged]]
  /\ alone' = [q \in Procs |-> q = p /\ alone[p]]

MovesTo(p, at) == Moves(p, at, proc[p].try, proc[p].judged)

\* The loop goes round, or gives up.
Retry(p) ==
  IF proc[p].try < Attempts
    THEN Moves(p, "creating", proc[p].try + 1, proc[p].judged)
    ELSE MovesTo(p, "busy")

Begin(p) ==
  /\ proc[p].at = "idle"
  /\ proc' = [proc EXCEPT ![p] = [at |-> "creating", try |-> 1, judged |-> Unjudged]]
  /\ alone' = [q \in Procs |-> q = p /\ \A r \in Procs \ {p} : proc[r].at \in Terminal]
  /\ UNCHANGED <<file, overtaken>>

\* os.open(O_CREAT | O_EXCL)
Create(p) ==
  /\ proc[p].at = "creating"
  /\ file = NoFile
  /\ file' = [by |-> p, nth |-> proc[p].try, written |-> FALSE, old |-> FALSE]
  /\ MovesTo(p, "writing")
  /\ UNCHANGED overtaken

Exists(p) ==
  /\ proc[p].at = "creating"
  /\ file # NoFile
  /\ MovesTo(p, "reading")
  /\ UNCHANGED <<file, overtaken>>

\* _read: a missing or unwritten file reads as {}.
ReadLease(p) ==
  /\ proc[p].at = "reading"
  /\ IF file.written
       THEN Moves(p, "probing", proc[p].try, Judged(file, "dead"))
       ELSE MovesTo(p, "aging")
  /\ UNCHANGED <<file, overtaken>>

\* Mutant: an unreadable lease is stale at once.
TakenUnread(p) ==
  /\ proc[p].at = "aging"
  /\ IF file = NoFile THEN Retry(p) ELSE Moves(p, "unlinking", proc[p].try, Judged(file, "young"))
  /\ UNCHANGED <<file, overtaken>>

\* Mutant: an unreadable lease is busy, however old it is.
BusyUnread(p) ==
  /\ proc[p].at = "aging"
  /\ IF file = NoFile THEN Retry(p) ELSE MovesTo(p, "busy")
  /\ UNCHANGED <<file, overtaken>>

\* An unreadable lease: gone, busy while it is young, stale after the grace period.
CheckAge(p) ==
  /\ proc[p].at = "aging"
  /\ \/ file = NoFile /\ Retry(p)
     \/ file # NoFile /\ ~file.old /\ MovesTo(p, "busy")
     \/ file.old /\ Moves(p, "unlinking", proc[p].try, Judged(file, "old"))
  /\ UNCHANGED <<file, overtaken>>

\* _process_alive of the owner that was read.
Probe(p) ==
  /\ proc[p].at = "probing"
  /\ \E q \in Procs :
       /\ q = proc[p].judged.token[1]
       /\ MovesTo(p, IF Alive(q) THEN "busy" ELSE "unlinking")
  /\ UNCHANGED <<file, overtaken>>

\* The lease that is there is not the one that was judged, or its creator was only
\* slow.
Snatches(p) ==
  \/ Token(file) # proc[p].judged.token
  \/ proc[p].judged.as = "old" /\ Alive(file.by)

\* The unlink takes whatever lease is there by now.
Unlink(p) ==
  /\ proc[p].at = "unlinking"
  /\ file' = NoFile
  /\ overtaken' = (overtaken \/ (file # NoFile /\ Snatches(p)))
  /\ Retry(p)

\* The write goes to the file that was created, also when it is unlinked by now.
Write(p) ==
  /\ proc[p].at = "writing"
  /\ file' = IF Mine(p) THEN [file EXCEPT !.written = TRUE, !.old = FALSE] ELSE file
  /\ MovesTo(p, "holding")
  /\ UNCHANGED overtaken

\* release(): read the token ...
Match(p) ==
  /\ proc[p].at = "holding"
  /\ MovesTo(p, IF Mine(p) /\ file.written THEN "removing" ELSE "done")
  /\ UNCHANGED <<file, overtaken>>

\* ... then unlink.
Remove(p) ==
  /\ proc[p].at = "removing"
  /\ file' = NoFile
  /\ MovesTo(p, "done")
  /\ UNCHANGED overtaken

\* More than 30 s have passed since the file was created or written.
Age ==
  /\ file # NoFile
  /\ ~file.old
  /\ file' = [file EXCEPT !.old = TRUE]
  /\ UNCHANGED <<proc, alone, overtaken>>

\* A process dies, or its write raises: what it left behind stays.
Crash(p) ==
  /\ proc[p].at \notin Terminal
  /\ MovesTo(p, "dead")
  /\ UNCHANGED <<file, overtaken>>

Next ==
  \/ \E p \in Procs :
       \/ Begin(p) \/ Create(p) \/ Exists(p) \/ ReadLease(p) \/ CheckAge(p) \/ Probe(p)
       \/ Unlink(p) \/ Write(p) \/ Match(p) \/ Remove(p) \/ Crash(p)
  \/ Age

Spec == Init /\ [][Next]_vars

----------------------------------------------------------------------------
(* Properties. *)

Owners == {p \in Procs : proc[p].at = "holding"}

\* At most one process holds the lease, and while it does the file carries its
\* token, unless a takeover unlinked a lease it had not judged: two processes that
\* both find the same dead owner can do that (Unlink does not look at the file
\* again), and so can one that reads the file before its creator, stalled for 30 s,
\* writes it.
ExclusiveUnlessOvertaken ==
  overtaken \/ (Cardinality(Owners) <= 1 /\ \A p \in Owners : Mine(p) /\ file.written)

\* A lease nobody alive holds does not keep a process out for ever: one that runs
\* alone is refused only by a lease less than 30 s old that its creator died before
\* writing.  A written one and an old one are taken over.
LoneIsServed ==
  [][\A p \in Procs :
       alone[p] /\ proc[p].at # "busy" /\ proc'[p].at = "busy" =>
         file # NoFile /\ ~file.written /\ ~file.old /\ ~Alive(file.by)]_vars
=============================================================================
