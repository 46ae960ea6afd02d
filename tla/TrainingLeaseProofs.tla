------------------------ MODULE TrainingLeaseProofs ------------------------
(***************************************************************************)
(* Proofs about TrainingLease for any number of processes and attempts.    *)
(* First: as long as no takeover has snatched a lease, the holder is alone *)
(* and its token is in the file.  The invariant says what a takeover       *)
(* knows: the lease it judged was created, and its owner is dead or slow.  *)
(* Second: a process that runs alone gets the lease, unless the one in its *)
(* way was never written.  Its invariant follows that process from the     *)
(* file it found to the takeover: whoever left the file behind is dead.    *)
(***************************************************************************)
EXTENDS TrainingLease, FiniteSetTheorems, TLAPS

Stages == {"idle", "creating", "reading", "aging", "probing", "unlinking", "writing",
           "holding", "removing", "busy", "done", "dead"}

\* The stages a process reaches only after it created a lease.
Created == {"writing", "holding", "removing", "done", "dead"}

InPossession == {"writing", "holding", "removing"}

Tokens == (Procs \cup {"nobody"}) \X Nat

ProcType ==
  proc \in [Procs -> [at : Stages, try : Nat,
                      judged : [token : Tokens, as : {"unjudged", "dead", "old"}]]]

FileType == file \in [by : Procs \cup {"nobody"}, nth : Nat, written : BOOLEAN, old : BOOLEAN]

\* A lease on file was created by its owner, and so was every lease being judged.
Begun ==
  /\ file # NoFile => file.by \in Procs /\ proc[file.by].at \in Created
  /\ \A p \in Procs : proc[p].at \in {"probing", "unlinking"} =>
       /\ proc[p].judged.token[1] \in Procs
       /\ proc[proc[p].judged.token[1]].at \in Created

\* A lease about to be unlinked that is still the judged one has a dead owner or
\* was unwritten for 30 s.
JudgedRightly ==
  \A p \in Procs :
    proc[p].at = "unlinking" /\ file # NoFile /\ Token(file) = proc[p].judged.token
      => proc[p].judged.as = "old" \/ proc[file.by].at = "dead"

InFile ==
  ~overtaken => \A p \in Procs : proc[p].at \in InPossession =>
    /\ Mine(p)
    /\ file.written <=> proc[p].at # "writing"

IInv == ProcType /\ FileType /\ Begun /\ JudgedRightly /\ InFile

LEMMA InitIInv == ASSUME Init PROVE IInv
<1>1. ProcType
  BY DEF Init, ProcType, Stages, Unjudged, Judged, Token, NoFile, Tokens
<1>2. FileType
  BY DEF Init, FileType, NoFile
<1> QED
  BY <1>1, <1>2 DEF Init, IInv, Begun, JudgedRightly, InFile, InPossession

\* How a step of p moves the processes.
LEMMA Moved ==
  ASSUME NEW p \in Procs, IInv, NEW at \in Stages, NEW try \in Nat,
         NEW judged \in [token : Tokens, as : {"unjudged", "dead", "old"}],
         proc' = [proc EXCEPT ![p] = [at |-> at, try |-> try, judged |-> judged]]
  PROVE  /\ ProcType'
         /\ proc'[p].at = at /\ proc'[p].try = try /\ proc'[p].judged = judged
         /\ \A q \in Procs \ {p} : proc'[q] = proc[q]
  BY DEF IInv, ProcType

LEMMA MovedTo ==
  ASSUME NEW p \in Procs, IInv, NEW at \in Stages, MovesTo(p, at)
  PROVE  /\ ProcType'
         /\ proc'[p].at = at /\ proc'[p].try = proc[p].try
         /\ proc'[p].judged = proc[p].judged
         /\ \A q \in Procs \ {p} : proc'[q] = proc[q]
<1> DEFINE t == proc[p].try
           j == proc[p].judged
<1>1. /\ j \in [token : Tokens, as : {"unjudged", "dead", "old"}] /\ t \in Nat
  BY DEF IInv, ProcType
<1>2. proc' = [proc EXCEPT ![p] = [at |-> at, try |-> t, judged |-> j]]
  BY DEF MovesTo, Moves
<1> HIDE DEF t, j
<1>3. /\ ProcType'
      /\ proc'[p].at = at /\ proc'[p].try = t /\ proc'[p].judged = j
      /\ \A q \in Procs \ {p} : proc'[q] = proc[q]
  BY <1>1, <1>2, Moved
<1> QED
  BY <1>3 DEF t, j

\* A step that leaves the file and the judgements alone.
LEMMA Stays ==
  ASSUME NEW p \in Procs, IInv, NEW at \in Stages, NEW try \in Nat,
         proc' = [proc EXCEPT ![p] = [at |-> at, try |-> try, judged |-> proc[p].judged]],
         file' = file, overtaken' = overtaken,
         at \notin {"probing", "unlinking"},
         proc[p].at \in Created => at \in Created,
         at \in InPossession => proc[p].at \in InPossession /\ try = proc[p].try
                                  /\ at # "writing" /\ (proc[p].at # "writing"),
         proc[p].at = "dead" => at = "dead"
  PROVE  IInv'
<1>0. proc[p].judged \in [token : Tokens, as : {"unjudged", "dead", "old"}]
  BY DEF IInv, ProcType
<1>1. /\ ProcType'
      /\ proc'[p].at = at /\ proc'[p].try = try
      /\ \A q \in Procs \ {p} : proc'[q] = proc[q]
  BY <1>0, Moved
<1>2. FileType'
  BY DEF IInv, FileType
<1>3. Begun'
  BY <1>1 DEF IInv, Begun
<1>4. JudgedRightly'
  BY <1>1 DEF IInv, JudgedRightly, Begun
<1>5. InFile'
  BY <1>1 DEF IInv, InFile, Mine, InPossession
<1> QED
  BY <1>1, <1>2, <1>3, <1>4, <1>5 DEF IInv

\* A step by which p judges a lease, or goes on to unlink the one it judged.
LEMMA Judges ==
  ASSUME NEW p \in Procs, IInv, NEW at \in {"probing", "unlinking"}, NEW try \in Nat,
         NEW judged \in [token : Tokens, as : {"unjudged", "dead", "old"}],
         proc' = [proc EXCEPT ![p] = [at |-> at, try |-> try, judged |-> judged]],
         file' = file, overtaken' = overtaken,
         judged.token[1] \in Procs, proc[judged.token[1]].at \in Created,
         at = "unlinking" => judged.as = "old" \/ proc[judged.token[1]].at = "dead",
         proc[p].at \notin Created
  PROVE  IInv'
<1>1. /\ ProcType'
      /\ proc'[p].at = at /\ proc'[p].try = try /\ proc'[p].judged = judged
      /\ \A q \in Procs \ {p} : proc'[q] = proc[q]
  <2>1. at \in Stages
    BY DEF Stages
  <2> QED
    BY <2>1, Moved
<1>2. FileType'
  BY DEF IInv, FileType
<1>3. \A q \in Procs : proc[q].at \in Created => q # p /\ proc'[q] = proc[q]
  BY <1>1
<1>4. Begun'
  BY <1>1, <1>3 DEF IInv, Begun
<1>5. JudgedRightly'
  <2> SUFFICES ASSUME NEW q \in Procs, proc'[q].at = "unlinking", file # NoFile,
                      Token(file) = proc'[q].judged.token
               PROVE  proc'[q].judged.as = "old" \/ proc'[file.by].at = "dead"
    BY DEF JudgedRightly, Token
  <2>1. file.by \in Procs /\ proc[file.by].at \in Created /\ proc'[file.by] = proc[file.by]
    BY <1>3 DEF IInv, Begun
  <2>2. CASE q = p
    <3>1. file.by = judged.token[1]
      BY <1>1, <2>2 DEF Token
    <3> QED
      BY <1>1, <2>1, <2>2, <3>1
  <2>3. CASE q # p
    BY <1>1, <2>1, <2>3 DEF IInv, JudgedRightly
  <2> QED
    BY <2>2, <2>3
<1>6. InFile'
  BY <1>1 DEF IInv, InFile, Mine, InPossession
<1> QED
  BY <1>1, <1>2, <1>4, <1>5, <1>6 DEF IInv

LEMMA Retries ==
  ASSUME NEW p \in Procs, IInv, Retry(p)
  PROVE  \E at \in {"creating", "busy"}, try \in Nat :
           proc' = [proc EXCEPT ![p] = [at |-> at, try |-> try, judged |-> proc[p].judged]]
<1>1. proc[p].try \in Nat
  BY DEF IInv, ProcType
<1> QED
  BY <1>1 DEF Retry, MovesTo, Moves

LEMMA BeginKeeps == ASSUME NEW p \in Procs, IInv, Begin(p) PROVE IInv'
<1> DEFINE u == Unjudged
<1>0. u \in [token : Tokens, as : {"unjudged", "dead", "old"}]
  BY DEF Unjudged, Judged, Token, NoFile, Tokens
<1>1. "creating" \in Stages
  BY DEF Stages
<1>2. proc' = [proc EXCEPT ![p] = [at |-> "creating", try |-> 1, judged |-> u]]
  BY DEF Begin
<1> HIDE DEF u
<1>3. /\ ProcType'
      /\ proc'[p].at = "creating"
      /\ \A q \in Procs \ {p} : proc'[q] = proc[q]
  BY <1>0, <1>1, <1>2, Moved
<1>4. file' = file /\ overtaken' = overtaken /\ proc[p].at = "idle"
  BY DEF Begin
<1>5. FileType'
  BY <1>4 DEF IInv, FileType
<1>6. Begun'
  BY <1>3, <1>4 DEF IInv, Begun, Created
<1>7. JudgedRightly'
  BY <1>3, <1>4 DEF IInv, JudgedRightly, Begun
<1>8. InFile'
  BY <1>3, <1>4 DEF IInv, InFile, Mine, InPossession
<1> QED
  BY <1>3, <1>5, <1>6, <1>7, <1>8 DEF IInv

\* Nobody can have judged the lease that is created: its owner had created none.
LEMMA CreateKeeps == ASSUME NEW p \in Procs, IInv, Create(p) PROVE IInv'
<1>0. /\ proc[p].judged \in [token : Tokens, as : {"unjudged", "dead", "old"}]
      /\ proc[p].try \in Nat /\ "writing" \in Stages
  BY DEF IInv, ProcType, Stages
<1>1. /\ MovesTo(p, "writing")
      /\ overtaken' = overtaken /\ proc[p].at = "creating" /\ file = NoFile
      /\ file' = [by |-> p, nth |-> proc[p].try, written |-> FALSE, old |-> FALSE]
  BY DEF Create
<1>2. /\ ProcType'
      /\ proc'[p].at = "writing" /\ proc'[p].try = proc[p].try
      /\ \A q \in Procs \ {p} : proc'[q] = proc[q]
  BY <1>0, <1>1, MovedTo
<1>3. FileType'
  BY <1>0, <1>1 DEF FileType
<1>4. p # "nobody" /\ file' # NoFile
  BY <1>1, LeaseAssumption DEF NoFile, LeaseAssumption
<1>5. Begun'
  BY <1>1, <1>2 DEF IInv, Begun, Created
<1>6. JudgedRightly'
  <2> SUFFICES ASSUME NEW q \in Procs, proc'[q].at = "unlinking",
                      Token(file)' = proc'[q].judged.token
               PROVE  FALSE
    BY DEF JudgedRightly
  <2>1. q # p /\ proc'[q] = proc[q]
    BY <1>2
  <2>2. proc[q].judged.token[1] = p
    BY <1>1, <2>1 DEF Token
  <2> QED
    BY <1>1, <2>1, <2>2 DEF IInv, Begun, Created
<1>7. InFile'
  <2>1. ~overtaken => \A q \in Procs : proc[q].at \notin InPossession
    BY <1>1 DEF IInv, InFile, Mine
  <2>2. Mine(p)' /\ ~file'.written
    BY <1>0, <1>1, <1>2, <1>4 DEF Mine, Token
  <2> QED
    BY <1>1, <1>2, <2>1, <2>2 DEF InFile
<1> QED
  BY <1>2, <1>3, <1>5, <1>6, <1>7 DEF IInv

LEMMA UnlinkKeeps == ASSUME NEW p \in Procs, IInv, Unlink(p) PROVE IInv'
<1>1. PICK at \in {"creating", "busy"}, try \in Nat :
        proc' = [proc EXCEPT ![p] = [at |-> at, try |-> try, judged |-> proc[p].judged]]
  BY Retries DEF Unlink
<1>2. /\ ProcType'
      /\ proc'[p].at = at
      /\ \A q \in Procs \ {p} : proc'[q] = proc[q]
  <2>1. at \in Stages /\ proc[p].judged \in [token : Tokens, as : {"unjudged", "dead", "old"}]
    BY DEF Stages, IInv, ProcType
  <2> QED
    BY <1>1, <2>1, Moved
<1>3. /\ file' = NoFile /\ proc[p].at = "unlinking"
      /\ overtaken' = (overtaken \/ (file # NoFile /\ Snatches(p)))
  BY DEF Unlink
<1>4. FileType'
  BY <1>3 DEF FileType, NoFile
<1>5. Begun'
  BY <1>2, <1>3 DEF IInv, Begun, Created
<1>6. JudgedRightly'
  BY <1>3 DEF JudgedRightly
<1>7. InFile'
  <2> SUFFICES ASSUME ~overtaken', NEW q \in Procs, proc'[q].at \in InPossession
               PROVE  FALSE
    BY DEF InFile
  <2>1. q # p /\ proc[q].at \in InPossession /\ ~overtaken
    BY <1>2, <1>3 DEF InPossession
  <2>2. Mine(q)
    BY <2>1 DEF IInv, InFile
  <2>3. file # NoFile /\ file.by = q /\ ~Snatches(p)
    BY <1>3, <2>2 DEF Mine, Token
  <2>4. Token(file) = proc[p].judged.token /\ (proc[p].judged.as = "old" => proc[q].at = "dead")
    BY <2>3 DEF Snatches, Alive
  <2>5. proc[q].at = "dead"
    BY <1>3, <2>3, <2>4 DEF IInv, JudgedRightly
  <2> QED
    BY <2>1, <2>5 DEF InPossession
<1> QED
  BY <1>2, <1>4, <1>5, <1>6, <1>7 DEF IInv

LEMMA WriteKeeps == ASSUME NEW p \in Procs, IInv, Write(p) PROVE IInv'
<1>0. /\ proc[p].judged \in [token : Tokens, as : {"unjudged", "dead", "old"}]
      /\ proc[p].try \in Nat /\ "holding" \in Stages
  BY DEF IInv, ProcType, Stages
<1>1. /\ MovesTo(p, "holding")
      /\ overtaken' = overtaken /\ proc[p].at = "writing"
      /\ file' = IF Mine(p) THEN [file EXCEPT !.written = TRUE, !.old = FALSE] ELSE file
  BY DEF Write
<1>2. /\ ProcType'
      /\ proc'[p].at = "holding" /\ proc'[p].try = proc[p].try
      /\ \A q \in Procs \ {p} : proc'[q] = proc[q]
  BY <1>0, <1>1, MovedTo
<1>3. /\ FileType' /\ file'.by = file.by /\ file'.nth = file.nth
      /\ Mine(p) => file'.written
  BY <1>1 DEF IInv, FileType
<1>4. file # NoFile <=> file' # NoFile
  <2>1. CASE Mine(p)
    <3>1. file # NoFile
      BY <2>1 DEF Mine
    <3>2. file.by \in Procs
      BY <3>1 DEF IInv, Begun
    <3> QED
      BY <1>3, <3>1, <3>2, LeaseAssumption DEF NoFile, LeaseAssumption
  <2>2. CASE ~Mine(p)
    BY <1>1, <2>2
  <2> QED
    BY <2>1, <2>2
<1>5. Begun'
  BY <1>1, <1>2, <1>3, <1>4 DEF IInv, Begun, Created
<1>6. JudgedRightly'
  <2> SUFFICES ASSUME NEW q \in Procs, proc'[q].at = "unlinking", file' # NoFile,
                      Token(file)' = proc'[q].judged.token
               PROVE  proc'[q].judged.as = "old" \/ proc'[file'.by].at = "dead"
    BY DEF JudgedRightly
  <2>1. q # p /\ proc'[q] = proc[q] /\ Token(file) = proc[q].judged.token
    BY <1>2, <1>3 DEF Token
  <2>2. proc[q].judged.as = "old" \/ proc[file.by].at = "dead"
    BY <1>4, <2>1 DEF IInv, JudgedRightly
  <2>3. file.by \in Procs
    BY <1>4 DEF IInv, Begun
  <2> QED
    BY <1>1, <1>2, <1>3, <2>1, <2>2, <2>3
<1>7. InFile'
  <2> SUFFICES ASSUME ~overtaken, NEW q \in Procs, proc'[q].at \in InPossession
               PROVE  Mine(q)' /\ (file'.written <=> proc'[q].at # "writing")
    BY <1>1 DEF InFile
  <2>1. Mine(p)
    BY <1>1 DEF IInv, InFile, InPossession
  <2>2. q = p
    <3>1. CASE q # p
      <4>1. Mine(q)
        BY <1>2, <3>1 DEF IInv, InFile
      <4> QED
        BY <2>1, <3>1, <4>1 DEF Mine, Token
    <3> QED
      BY <3>1
  <2> QED
    BY <1>2, <1>3, <1>4, <2>1, <2>2 DEF Mine, Token
<1> QED
  BY <1>2, <1>3, <1>5, <1>6, <1>7 DEF IInv

\* Only a holder whose lease is on file removes it.
LEMMA RemoveKeeps == ASSUME NEW p \in Procs, IInv, Remove(p) PROVE IInv'
<1>1. /\ ProcType'
      /\ proc'[p].at = "done"
      /\ \A q \in Procs \ {p} : proc'[q] = proc[q]
  <2>1. "done" \in Stages /\ MovesTo(p, "done")
    BY DEF Stages, Remove
  <2> QED
    BY <2>1, MovedTo
<1>2. file' = NoFile /\ overtaken' = overtaken /\ proc[p].at = "removing"
  BY DEF Remove
<1>3. FileType'
  BY <1>2 DEF FileType, NoFile
<1>4. Begun'
  BY <1>1, <1>2 DEF IInv, Begun, Created
<1>5. JudgedRightly'
  BY <1>2 DEF JudgedRightly
<1>6. InFile'
  <2> SUFFICES ASSUME ~overtaken, NEW q \in Procs, proc'[q].at \in InPossession
               PROVE  FALSE
    BY <1>2 DEF InFile
  <2>1. q # p /\ proc[q].at \in InPossession
    BY <1>1 DEF InPossession
  <2>2. Mine(p) /\ Mine(q)
    BY <1>2, <2>1 DEF IInv, InFile, InPossession
  <2> QED
    BY <2>1, <2>2 DEF Mine, Token
<1> QED
  BY <1>1, <1>3, <1>4, <1>5, <1>6 DEF IInv

LEMMA ReadKeeps == ASSUME NEW p \in Procs, IInv, ReadLease(p) PROVE IInv'
<1>0. proc[p].try \in Nat /\ proc[p].at = "reading" /\ file' = file /\ overtaken' = overtaken
  BY DEF IInv, ProcType, ReadLease
<1>1. CASE file.written
  <2> DEFINE j == Judged(file, "dead")
             t == proc[p].try
  <2>1. file # NoFile
    BY <1>1 DEF NoFile
  <2>2. /\ j \in [token : Tokens, as : {"unjudged", "dead", "old"}]
        /\ j.token[1] = file.by /\ file.by \in Procs /\ proc[file.by].at \in Created
    BY <2>1 DEF IInv, FileType, Judged, Token, Tokens, Begun
  <2>3. proc' = [proc EXCEPT ![p] = [at |-> "probing", try |-> t, judged |-> j]]
    BY <1>1 DEF ReadLease, Moves
  <2>4. t \in Nat
    BY <1>0
  <2> HIDE DEF j, t
  <2> QED
    BY <1>0, <2>2, <2>3, <2>4, Judges DEF Created
<1>2. CASE ~file.written
  <2> DEFINE t == proc[p].try
  <2>1. proc' = [proc EXCEPT ![p] = [at |-> "aging", try |-> t, judged |-> proc[p].judged]]
    BY <1>2 DEF ReadLease, MovesTo, Moves
  <2>2. t \in Nat /\ t = proc[p].try /\ "aging" \in Stages
    BY <1>0 DEF Stages
  <2> HIDE DEF t
  <2> QED
    BY <1>0, <2>1, <2>2, Stays DEF Created, InPossession
<1> QED
  BY <1>1, <1>2

\* A step by which p ends up elsewhere without a lease.
LEMMA Leaves ==
  ASSUME NEW p \in Procs, IInv, file' = file, overtaken' = overtaken,
         NEW at \in Stages \ (InPossession \cup {"probing", "unlinking"}), MovesTo(p, at),
         proc[p].at \in Created => at \in Created, proc[p].at # "dead"
  PROVE  IInv'
<1> DEFINE t == proc[p].try
<1>1. proc' = [proc EXCEPT ![p] = [at |-> at, try |-> t, judged |-> proc[p].judged]]
  BY DEF MovesTo, Moves
<1>2. t \in Nat
  BY DEF IInv, ProcType
<1> HIDE DEF t
<1> QED
  BY <1>1, <1>2, Stays

LEMMA AgeCheckKeeps == ASSUME NEW p \in Procs, IInv, CheckAge(p) PROVE IInv'
<1>0. proc[p].at = "aging" /\ file' = file /\ overtaken' = overtaken
  BY DEF CheckAge
<1>1. CASE file = NoFile /\ Retry(p)
  <2>1. PICK at \in {"creating", "busy"}, try \in Nat :
          proc' = [proc EXCEPT ![p] = [at |-> at, try |-> try, judged |-> proc[p].judged]]
    BY <1>1, Retries
  <2>2. at \in Stages
    BY DEF Stages
  <2> QED
    BY <1>0, <2>1, <2>2, Stays DEF Created, InPossession
<1>2. CASE file # NoFile /\ ~file.old /\ MovesTo(p, "busy")
  <2>1. "busy" \in Stages \ (InPossession \cup {"probing", "unlinking"})
    BY DEF Stages, InPossession
  <2> QED
    BY <1>0, <1>2, <2>1, Leaves DEF Created
<1>3. CASE file.old /\ Moves(p, "unlinking", proc[p].try, Judged(file, "old"))
  <2> DEFINE j == Judged(file, "old")
             t == proc[p].try
  <2>1. file # NoFile
    BY <1>3 DEF NoFile
  <2>2. /\ j \in [token : Tokens, as : {"unjudged", "dead", "old"}] /\ j.as = "old"
        /\ j.token[1] = file.by /\ file.by \in Procs /\ proc[file.by].at \in Created
    BY <2>1 DEF IInv, FileType, Judged, Token, Tokens, Begun
  <2>3. proc' = [proc EXCEPT ![p] = [at |-> "unlinking", try |-> t, judged |-> j]]
    BY <1>3 DEF Moves
  <2>4. t \in Nat
    BY DEF IInv, ProcType
  <2> HIDE DEF j, t
  <2> QED
    BY <1>0, <2>2, <2>3, <2>4, Judges DEF Created
<1> QED
  BY <1>1, <1>2, <1>3 DEF CheckAge

LEMMA ProbeKeeps == ASSUME NEW p \in Procs, IInv, Probe(p) PROVE IInv'
<1>1. PICK q \in Procs : /\ q = proc[p].judged.token[1]
                         /\ MovesTo(p, IF Alive(q) THEN "busy" ELSE "unlinking")
  BY DEF Probe
<1>2. proc[p].at = "probing" /\ file' = file /\ overtaken' = overtaken
  BY DEF Probe
<1>3. CASE Alive(q)
  <2>1. "busy" \in Stages \ (InPossession \cup {"probing", "unlinking"})
    BY DEF Stages, InPossession
  <2> QED
    BY <1>1, <1>2, <1>3, <2>1, Leaves DEF Created
<1>4. CASE ~Alive(q)
  <2> DEFINE t == proc[p].try
             j == proc[p].judged
  <2>1. proc' = [proc EXCEPT ![p] = [at |-> "unlinking", try |-> t, judged |-> j]]
    BY <1>1, <1>4 DEF MovesTo, Moves
  <2>2. t \in Nat /\ j \in [token : Tokens, as : {"unjudged", "dead", "old"}]
        /\ j.token[1] = q /\ proc[q].at = "dead"
    BY <1>1, <1>4 DEF IInv, ProcType, Alive
  <2> HIDE DEF j, t
  <2> QED
    BY <1>2, <2>1, <2>2, Judges DEF Created
<1> QED
  BY <1>3, <1>4

\* The release reads its own token, or leaves.
LEMMA MatchKeeps == ASSUME NEW p \in Procs, IInv, Match(p) PROVE IInv'
<1>0. proc[p].at = "holding" /\ file' = file /\ overtaken' = overtaken
  BY DEF Match
<1>1. CASE Mine(p) /\ file.written
  <2> DEFINE t == proc[p].try
  <2>1. proc' = [proc EXCEPT ![p] = [at |-> "removing", try |-> t, judged |-> proc[p].judged]]
    BY <1>1 DEF Match, MovesTo, Moves
  <2>2. t \in Nat /\ t = proc[p].try /\ "removing" \in Stages
    BY DEF IInv, ProcType, Stages
  <2> HIDE DEF t
  <2> QED
    BY <1>0, <2>1, <2>2, Stays DEF Created, InPossession
<1>2. CASE ~(Mine(p) /\ file.written)
  <2>1. "done" \in Stages \ (InPossession \cup {"probing", "unlinking"}) /\ MovesTo(p, "done")
    BY <1>2 DEF Stages, InPossession, Match
  <2> QED
    BY <1>0, <2>1, Leaves DEF Created
<1> QED
  BY <1>1, <1>2

LEMMA AgeKeeps == ASSUME IInv, Age PROVE IInv'
<1>1. /\ file # NoFile /\ file' = [file EXCEPT !.old = TRUE] /\ proc' = proc
      /\ overtaken' = overtaken
  BY DEF Age
<1>2. /\ FileType' /\ ProcType'
      /\ file'.by = file.by /\ file'.nth = file.nth /\ file'.written = file.written
  BY <1>1 DEF IInv, FileType, ProcType
<1>3. file' # NoFile
  BY <1>1, <1>2, LeaseAssumption DEF IInv, Begun, NoFile, LeaseAssumption
<1>4. Begun'
  BY <1>1, <1>2 DEF IInv, Begun
<1>5. JudgedRightly'
  BY <1>1, <1>2 DEF IInv, JudgedRightly, Token
<1>6. InFile'
  BY <1>1, <1>2, <1>3 DEF IInv, InFile, Mine, Token
<1> QED
  BY <1>2, <1>4, <1>5, <1>6 DEF IInv

LEMMA NextIInv == IInv /\ [Next]_vars => IInv'
<1> SUFFICES ASSUME IInv, [Next]_vars PROVE IInv'
  OBVIOUS
<1>1. CASE UNCHANGED vars
  BY <1>1 DEF vars, IInv, ProcType, FileType, Begun, JudgedRightly, InFile, Mine
<1>2. ASSUME NEW p \in Procs, Exists(p) PROVE IInv'
  <2>1. /\ "reading" \in Stages \ (InPossession \cup {"probing", "unlinking"})
        /\ MovesTo(p, "reading") /\ proc[p].at = "creating" /\ file' = file
        /\ overtaken' = overtaken
    BY <1>2 DEF Stages, InPossession, Exists
  <2> QED
    BY <2>1, Leaves DEF Created
<1>3. ASSUME NEW p \in Procs, Crash(p) PROVE IInv'
  <2>1. /\ "dead" \in Stages \ (InPossession \cup {"probing", "unlinking"})
        /\ MovesTo(p, "dead") /\ proc[p].at # "dead" /\ file' = file /\ overtaken' = overtaken
    BY <1>3 DEF Stages, InPossession, Crash, Terminal
  <2> QED
    BY <2>1, Leaves DEF Created
<1> QED
  BY <1>1, <1>2, <1>3, BeginKeeps, CreateKeeps, ReadKeeps, AgeCheckKeeps, ProbeKeeps,
     UnlinkKeeps, WriteKeeps, MatchKeeps, RemoveKeeps, AgeKeeps DEF Next

\* However many processes compete and wherever they die, the holder of the lease is
\* alone and its token is on file until a takeover has unlinked a lease it had not
\* judged (acquire and release).
THEOREM LeaseIsExclusive == Spec => []ExclusiveUnlessOvertaken
<1>1. Init => IInv
  BY InitIInv
<1>2. IInv /\ [Next]_vars => IInv'
  BY NextIInv
<1>3. IInv => ExclusiveUnlessOvertaken
  <2> SUFFICES ASSUME IInv, ~overtaken
               PROVE  Cardinality(Owners) <= 1 /\ \A p \in Owners : Mine(p) /\ file.written
    BY DEF ExclusiveUnlessOvertaken
  <2>1. \A p \in Owners : Mine(p) /\ file.written
    BY DEF IInv, InFile, Owners, InPossession
  <2>2. \A p, q \in Owners : p = q
    BY <2>1 DEF Mine, Token
  <2>3. CASE Owners = {}
    BY <2>1, <2>3, FS_EmptySet
  <2>4. CASE Owners # {}
    <3>1. PICK p \in Owners : Owners = {p}
      BY <2>2, <2>4
    <3>2. Cardinality(Owners) = 1
      BY <3>1, FS_Singleton
    <3> QED
      BY <2>1, <3>2
  <2> QED
    BY <2>3, <2>4
<1> QED
  BY <1>1, <1>2, <1>3, PTL DEF Spec

----------------------------------------------------------------------------
(* A process that runs alone. *)

Owning == {"writing", "holding", "removing", "dead"}

\* The lease on file is the last one its owner created, and is written unless the
\* owner has yet to write it or died.
FileOwned ==
  file # NoFile =>
    /\ file.by \in Procs
    /\ proc[file.by].at \in Owning
    /\ file.nth = proc[file.by].try
    /\ proc[file.by].at = "writing" => ~file.written
    /\ proc[file.by].at \in {"holding", "removing"} => file.written

AloneType == alone \in [Procs -> BOOLEAN]

Looking == {"reading", "aging", "probing", "unlinking"}

\* What a process knows that has run alone so far: the lease it looks at is still
\* there, it is on its first attempt until it has unlinked one, and then the file is
\* gone.
LoneKnows(p) ==
  /\ proc[p].at # "idle"
  /\ proc[p].at = "creating" => file = NoFile \/ proc[p].try = 1
  /\ proc[p].at \in Looking => file # NoFile /\ proc[p].try = 1
  /\ proc[p].at = "aging" => ~file.written
  /\ proc[p].at = "probing" => proc[p].judged.token = Token(file)

Lone ==
  \A p \in Procs : alone[p] =>
    LoneKnows(p) /\ \A r \in Procs \ {p} : proc[r].at \in Terminal

LoneInv == FileOwned /\ AloneType /\ Lone

\* A step of p ends the others' being alone, and leaves p alone if it was.
LEMMA RunsAlone ==
  ASSUME NEW p \in Procs, LoneInv,
         \A q \in Procs \ {p} : proc'[q] = proc[q],
         alone' = [q \in Procs |-> q = p /\ alone[p]],
         FileOwned',
         alone[p] => LoneKnows(p)'
  PROVE  LoneInv'
<1>1. AloneType'
  BY Zenon DEF LoneInv, AloneType
<1>2. Lone'
  <2> SUFFICES ASSUME NEW q \in Procs, alone'[q]
               PROVE  LoneKnows(q)' /\ \A r \in Procs \ {q} : proc'[r].at \in Terminal
    BY DEF Lone
  <2>1. q = p /\ alone[p]
    BY Zenon
  <2> QED
    BY <2>1 DEF LoneInv, Lone
<1> QED
  BY <1>1, <1>2 DEF LoneInv

\* A process that has no lease on file moves on: the file stays its owner's.
LEMMA OwnerStays ==
  ASSUME NEW p \in Procs, LoneInv, file' = file,
         \A q \in Procs \ {p} : proc'[q] = proc[q],
         proc[p].at \notin Owning
  PROVE  FileOwned'
  BY DEF LoneInv, FileOwned

\* Whoever else left a lease on file is dead.
LEMMA OwnerIsDead ==
  ASSUME NEW p \in Procs, LoneInv, alone[p], file # NoFile, proc[p].at \notin Owning
  PROVE  file.by \in Procs /\ proc[file.by].at = "dead"
  BY DEF LoneInv, FileOwned, Lone, Owning, Terminal

\* The first attempt to take over is followed by a second one.
LEMMA RetriesAgain ==
  ASSUME NEW p \in Procs, IInv, Retry(p)
  PROVE  /\ \A q \in Procs \ {p} : proc'[q] = proc[q]
         /\ alone' = [q \in Procs |-> q = p /\ alone[p]]
         /\ proc[p].try = 1 => proc'[p].at = "creating"
         /\ proc'[p].at \in {"creating", "busy"}
<1>1. PICK at \in {"creating", "busy"}, try \in Nat :
        /\ Moves(p, at, try, proc[p].judged)
        /\ proc[p].try = 1 => at = "creating"
  <2>1. proc[p].try \in Nat /\ Attempts \in Nat \ {0, 1}
    BY LeaseAssumption DEF LeaseAssumption, IInv, ProcType
  <2> QED
    BY <2>1 DEF Retry, MovesTo
<1>2. /\ \A q \in Procs \ {p} : proc'[q] = proc[q]
      /\ proc'[p].at = at
  BY <1>1 DEF Moves, IInv, ProcType
<1> QED
  BY <1>1, <1>2 DEF Moves

\* The effect of a step of p on the stages and on who is alone.
LEMMA StepOf ==
  ASSUME NEW p \in Procs, IInv, NEW at, MovesTo(p, at)
  PROVE  /\ \A q \in Procs \ {p} : proc'[q] = proc[q]
         /\ proc'[p].at = at /\ proc'[p].try = proc[p].try
         /\ proc'[p].judged = proc[p].judged
         /\ alone' = [q \in Procs |-> q = p /\ alone[p]]
<1> DEFINE t == proc[p].try
           j == proc[p].judged
<1>1. /\ proc' = [proc EXCEPT ![p] = [at |-> at, try |-> t, judged |-> j]]
      /\ alone' = [q \in Procs |-> q = p /\ alone[p]]
  BY DEF MovesTo, Moves
<1> HIDE DEF t, j
<1>2. /\ \A q \in Procs \ {p} : proc'[q] = proc[q]
      /\ proc'[p].at = at /\ proc'[p].try = t /\ proc'[p].judged = j
  BY <1>1 DEF IInv, ProcType
<1> QED
  BY <1>1, <1>2 DEF t, j

LEMMA LoneBegins == ASSUME NEW p \in Procs, IInv, LoneInv, Begin(p) PROVE LoneInv'
<1> DEFINE u == Unjudged
<1>1. /\ proc' = [proc EXCEPT ![p] = [at |-> "creating", try |-> 1, judged |-> u]]
      /\ proc[p].at = "idle" /\ file' = file
      /\ alone' = [q \in Procs |-> q = p /\ \A r \in Procs \ {p} : proc[r].at \in Terminal]
  BY DEF Begin
<1> HIDE DEF u
<1>2. /\ \A q \in Procs \ {p} : proc'[q] = proc[q]
      /\ proc'[p].at = "creating" /\ proc'[p].try = 1
  BY <1>1 DEF IInv, ProcType
<1>3. FileOwned'
  BY <1>1, <1>2, OwnerStays DEF Owning
<1>4. AloneType'
  BY <1>1, Zenon DEF AloneType
<1>5. LoneKnows(p)'
  BY <1>2 DEF LoneKnows, Looking
<1>6. Lone'
  <2> SUFFICES ASSUME NEW q \in Procs, alone'[q]
               PROVE  LoneKnows(q)' /\ \A r \in Procs \ {q} : proc'[r].at \in Terminal
    BY DEF Lone
  <2>1. q = p /\ \A r \in Procs \ {p} : proc[r].at \in Terminal
    BY <1>1, Zenon
  <2> QED
    BY <1>2, <1>5, <2>1
<1> QED
  BY <1>3, <1>4, <1>6 DEF LoneInv

LEMMA LoneCreates == ASSUME NEW p \in Procs, IInv, LoneInv, Create(p) PROVE LoneInv'
<1>1. /\ MovesTo(p, "writing") /\ file = NoFile
      /\ file' = [by |-> p, nth |-> proc[p].try, written |-> FALSE, old |-> FALSE]
  BY DEF Create
<1>2. /\ \A q \in Procs \ {p} : proc'[q] = proc[q]
      /\ proc'[p].at = "writing" /\ proc'[p].try = proc[p].try
      /\ alone' = [q \in Procs |-> q = p /\ alone[p]]
  BY <1>1, StepOf
<1>3. FileOwned'
  BY <1>1, <1>2 DEF FileOwned, Owning
<1>4. LoneKnows(p)'
  BY <1>2 DEF LoneKnows, Looking
<1> QED
  BY <1>2, <1>3, <1>4, RunsAlone

LEMMA LoneFinds == ASSUME NEW p \in Procs, IInv, LoneInv, Exists(p) PROVE LoneInv'
<1>1. MovesTo(p, "reading") /\ file # NoFile /\ file' = file /\ proc[p].at = "creating"
  BY DEF Exists
<1>2. /\ \A q \in Procs \ {p} : proc'[q] = proc[q]
      /\ proc'[p].at = "reading" /\ proc'[p].try = proc[p].try
      /\ alone' = [q \in Procs |-> q = p /\ alone[p]]
  BY <1>1, StepOf
<1>3. FileOwned'
  BY <1>1, <1>2, OwnerStays DEF Owning
<1>4. alone[p] => LoneKnows(p)'
  BY <1>1, <1>2 DEF LoneInv, Lone, LoneKnows, Looking
<1> QED
  BY <1>2, <1>3, <1>4, RunsAlone

LEMMA LoneReads == ASSUME NEW p \in Procs, IInv, LoneInv, ReadLease(p) PROVE LoneInv'
<1>1. file' = file /\ proc[p].at = "reading"
  BY DEF ReadLease
<1>2. alone[p] => file # NoFile /\ proc[p].try = 1
  BY <1>1 DEF LoneInv, Lone, LoneKnows, Looking
<1>3. CASE file.written
  <2> DEFINE j == Judged(file, "dead")
             t == proc[p].try
  <2>1. /\ proc' = [proc EXCEPT ![p] = [at |-> "probing", try |-> t, judged |-> j]]
        /\ alone' = [q \in Procs |-> q = p /\ alone[p]]
    BY <1>3 DEF ReadLease, Moves
  <2>2. j.token = Token(file) /\ t = proc[p].try
    BY DEF Judged
  <2> HIDE DEF j, t
  <2>3. /\ \A q \in Procs \ {p} : proc'[q] = proc[q]
        /\ proc'[p].at = "probing" /\ proc'[p].try = t /\ proc'[p].judged = j
    BY <2>1 DEF IInv, ProcType
  <2>4. FileOwned'
    BY <1>1, <2>3, OwnerStays DEF Owning
  <2>5. alone[p] => LoneKnows(p)'
    BY <1>1, <1>2, <2>2, <2>3 DEF LoneKnows, Looking, Token
  <2> QED
    BY <2>1, <2>3, <2>4, <2>5, RunsAlone
<1>4. CASE ~file.written
  <2>1. MovesTo(p, "aging")
    BY <1>4 DEF ReadLease
  <2>2. /\ \A q \in Procs \ {p} : proc'[q] = proc[q]
        /\ proc'[p].at = "aging" /\ proc'[p].try = proc[p].try
        /\ alone' = [q \in Procs |-> q = p /\ alone[p]]
    BY <2>1, StepOf
  <2>3. FileOwned'
    BY <1>1, <2>2, OwnerStays DEF Owning
  <2>4. alone[p] => LoneKnows(p)'
    BY <1>1, <1>2, <1>4, <2>2 DEF LoneKnows, Looking
  <2> QED
    BY <2>2, <2>3, <2>4, RunsAlone
<1> QED
  BY <1>3, <1>4

LEMMA LoneChecksAge == ASSUME NEW p \in Procs, IInv, LoneInv, CheckAge(p) PROVE LoneInv'
<1>1. file' = file /\ proc[p].at = "aging"
  BY DEF CheckAge
<1>2. alone[p] => file # NoFile /\ proc[p].try = 1 /\ ~file.written
  BY <1>1 DEF LoneInv, Lone, LoneKnows, Looking
<1>3. CASE file = NoFile /\ Retry(p)
  <2>1. /\ \A q \in Procs \ {p} : proc'[q] = proc[q]
        /\ alone' = [q \in Procs |-> q = p /\ alone[p]]
    BY <1>3, RetriesAgain
  <2>2. FileOwned'
    BY <1>1, <2>1, OwnerStays DEF Owning
  <2> QED
    BY <1>2, <1>3, <2>1, <2>2, RunsAlone
<1>4. CASE file # NoFile /\ ~file.old /\ MovesTo(p, "busy")
  <2>1. /\ \A q \in Procs \ {p} : proc'[q] = proc[q]
        /\ proc'[p].at = "busy"
        /\ alone' = [q \in Procs |-> q = p /\ alone[p]]
    BY <1>4, StepOf
  <2>2. FileOwned'
    BY <1>1, <2>1, OwnerStays DEF Owning
  <2>3. alone[p] => LoneKnows(p)'
    BY <1>1, <1>2, <2>1 DEF LoneKnows, Looking
  <2> QED
    BY <2>1, <2>2, <2>3, RunsAlone
<1>5. CASE file.old /\ Moves(p, "unlinking", proc[p].try, Judged(file, "old"))
  <2> DEFINE j == Judged(file, "old")
             t == proc[p].try
  <2>1. /\ proc' = [proc EXCEPT ![p] = [at |-> "unlinking", try |-> t, judged |-> j]]
        /\ alone' = [q \in Procs |-> q = p /\ alone[p]]
    BY <1>5 DEF Moves
  <2>2. t = proc[p].try
    OBVIOUS
  <2> HIDE DEF j, t
  <2>3. /\ \A q \in Procs \ {p} : proc'[q] = proc[q]
        /\ proc'[p].at = "unlinking" /\ proc'[p].try = t
    BY <2>1 DEF IInv, ProcType
  <2>4. FileOwned'
    BY <1>1, <2>3, OwnerStays DEF Owning
  <2>5. alone[p] => LoneKnows(p)'
    BY <1>1, <1>2, <2>2, <2>3 DEF LoneKnows, Looking
  <2> QED
    BY <2>1, <2>3, <2>4, <2>5, RunsAlone
<1> QED
  BY <1>3, <1>4, <1>5 DEF CheckAge

\* The owner of the lease that was read is dead, so the probe goes on to the takeover.
LEMMA LoneProbes == ASSUME NEW p \in Procs, IInv, LoneInv, Probe(p) PROVE LoneInv'
<1>1. PICK q \in Procs : /\ q = proc[p].judged.token[1]
                         /\ MovesTo(p, IF Alive(q) THEN "busy" ELSE "unlinking")
  BY DEF Probe
<1>2. proc[p].at = "probing" /\ file' = file
  BY DEF Probe
<1> DEFINE at == IF Alive(q) THEN "busy" ELSE "unlinking"
<1>3. /\ \A r \in Procs \ {p} : proc'[r] = proc[r]
      /\ proc'[p].at = at /\ proc'[p].try = proc[p].try
      /\ alone' = [r \in Procs |-> r = p /\ alone[p]]
  <2> HIDE DEF at
  <2>1. MovesTo(p, at)
    BY <1>1 DEF at
  <2> QED
    BY <2>1, StepOf
<1>4. FileOwned'
  BY <1>2, <1>3, OwnerStays DEF Owning
<1>5. alone[p] => LoneKnows(p)'
  <2> SUFFICES ASSUME alone[p] PROVE LoneKnows(p)'
    OBVIOUS
  <2>1. file # NoFile /\ proc[p].try = 1 /\ proc[p].judged.token = Token(file)
    BY <1>2 DEF LoneInv, Lone, LoneKnows, Looking
  <2>2. q = file.by
    BY <1>1, <2>1 DEF Token
  <2>3. proc[q].at = "dead"
    BY <1>2, <2>1, <2>2, OwnerIsDead DEF Owning
  <2>4. at = "unlinking"
    BY <2>3 DEF Alive
  <2> QED
    BY <1>2, <1>3, <2>1, <2>4 DEF LoneKnows, Looking
<1> QED
  BY <1>3, <1>4, <1>5, RunsAlone

\* The takeover leaves no file, and the second attempt creates one.
LEMMA LoneUnlinks == ASSUME NEW p \in Procs, IInv, LoneInv, Unlink(p) PROVE LoneInv'
<1>1. proc[p].at = "unlinking" /\ file' = NoFile /\ Retry(p)
  BY DEF Unlink
<1>2. /\ \A q \in Procs \ {p} : proc'[q] = proc[q]
      /\ alone' = [q \in Procs |-> q = p /\ alone[p]]
      /\ proc[p].try = 1 => proc'[p].at = "creating"
  BY <1>1, RetriesAgain
<1>3. FileOwned'
  BY <1>1 DEF FileOwned
<1>4. alone[p] => LoneKnows(p)'
  BY <1>1, <1>2 DEF LoneInv, Lone, LoneKnows, Looking
<1> QED
  BY <1>2, <1>3, <1>4, RunsAlone

LEMMA LoneWrites == ASSUME NEW p \in Procs, IInv, LoneInv, Write(p) PROVE LoneInv'
<1>1. /\ MovesTo(p, "holding") /\ proc[p].at = "writing"
      /\ file' = IF Mine(p) THEN [file EXCEPT !.written = TRUE, !.old = FALSE] ELSE file
  BY DEF Write
<1>2. /\ \A q \in Procs \ {p} : proc'[q] = proc[q]
      /\ proc'[p].at = "holding" /\ proc'[p].try = proc[p].try
      /\ alone' = [q \in Procs |-> q = p /\ alone[p]]
  BY <1>1, StepOf
<1>3. FileOwned'
  <2>1. CASE Mine(p)
    <3>1. file'.by = p /\ file'.nth = proc[p].try /\ file'.written
      BY <1>1, <2>1 DEF Mine, Token, IInv, FileType
    <3> QED
      BY <1>2, <3>1 DEF FileOwned, Owning
  <2>2. CASE ~Mine(p)
    <3>1. file' = file /\ (file # NoFile => file.by # p)
      BY <1>1, <2>2 DEF Mine, Token, LoneInv, FileOwned
    <3> QED
      BY <1>2, <3>1 DEF LoneInv, FileOwned
  <2> QED
    BY <2>1, <2>2
<1>4. LoneKnows(p)'
  BY <1>2 DEF LoneKnows, Looking
<1> QED
  BY <1>2, <1>3, <1>4, RunsAlone

\* A release that does not find its own written lease leaves somebody else's.
LEMMA LoneMatches == ASSUME NEW p \in Procs, IInv, LoneInv, Match(p) PROVE LoneInv'
<1>1. proc[p].at = "holding" /\ file' = file
  BY DEF Match
<1> DEFINE at == IF Mine(p) /\ file.written THEN "removing" ELSE "done"
<1>2. /\ \A q \in Procs \ {p} : proc'[q] = proc[q]
      /\ proc'[p].at = at /\ proc'[p].try = proc[p].try
      /\ alone' = [q \in Procs |-> q = p /\ alone[p]]
  <2> HIDE DEF at
  <2>1. MovesTo(p, at)
    BY DEF Match, at
  <2> QED
    BY <2>1, StepOf
<1>3. FileOwned'
  <2>1. file # NoFile /\ file.by = p => Mine(p) /\ file.written
    BY <1>1 DEF LoneInv, FileOwned, Mine, Token
  <2> QED
    BY <1>1, <1>2, <2>1 DEF LoneInv, FileOwned, Owning
<1>4. LoneKnows(p)'
  BY <1>2 DEF LoneKnows, Looking
<1> QED
  BY <1>2, <1>3, <1>4, RunsAlone

LEMMA LoneRemoves == ASSUME NEW p \in Procs, IInv, LoneInv, Remove(p) PROVE LoneInv'
<1>1. MovesTo(p, "done") /\ file' = NoFile
  BY DEF Remove
<1>2. /\ \A q \in Procs \ {p} : proc'[q] = proc[q]
      /\ proc'[p].at = "done"
      /\ alone' = [q \in Procs |-> q = p /\ alone[p]]
  BY <1>1, StepOf
<1>3. FileOwned' /\ LoneKnows(p)'
  BY <1>1, <1>2 DEF FileOwned, LoneKnows, Looking
<1> QED
  BY <1>2, <1>3, RunsAlone

LEMMA LoneCrashes == ASSUME NEW p \in Procs, IInv, LoneInv, Crash(p) PROVE LoneInv'
<1>1. MovesTo(p, "dead") /\ file' = file
  BY DEF Crash
<1>2. /\ \A q \in Procs \ {p} : proc'[q] = proc[q]
      /\ proc'[p].at = "dead" /\ proc'[p].try = proc[p].try
      /\ alone' = [q \in Procs |-> q = p /\ alone[p]]
  BY <1>1, StepOf
<1>3. FileOwned'
  BY <1>1, <1>2 DEF LoneInv, FileOwned, Owning
<1>4. LoneKnows(p)'
  BY <1>2 DEF LoneKnows, Looking
<1> QED
  BY <1>2, <1>3, <1>4, RunsAlone

LEMMA LoneAges == ASSUME IInv, LoneInv, Age PROVE LoneInv'
<1>1. /\ file # NoFile /\ proc' = proc /\ alone' = alone
      /\ file' = [file EXCEPT !.old = TRUE]
  BY DEF Age
<1>2. /\ file'.by = file.by /\ file'.nth = file.nth /\ file'.written = file.written
      /\ file.by \in Procs
  BY <1>1 DEF IInv, FileType, LoneInv, FileOwned
<1>3. file' # NoFile /\ Token(file)' = Token(file)
  BY <1>2, LeaseAssumption DEF NoFile, LeaseAssumption, Token
<1>4. FileOwned' /\ AloneType'
  BY <1>1, <1>2 DEF LoneInv, FileOwned, AloneType
<1>5. Lone'
  BY <1>1, <1>2, <1>3 DEF LoneInv, Lone, LoneKnows
<1> QED
  BY <1>4, <1>5 DEF LoneInv

\* Acquire gives up only after a look at the age, a probe or a takeover.
LEMMA Refusals ==
  ASSUME IInv, [Next]_vars, NEW p \in Procs, proc[p].at # "busy", proc'[p].at = "busy"
  PROVE  CheckAge(p) \/ Probe(p) \/ Unlink(p)
<1>1. ASSUME NEW q \in Procs, Begin(q)
      PROVE  FALSE
  BY <1>1 DEF Begin, IInv, ProcType
<1>2. ASSUME NEW q \in Procs, NEW at, NEW try, NEW judged, Moves(q, at, try, judged)
      PROVE  q = p /\ at = "busy"
  BY <1>2 DEF Moves, IInv, ProcType
<1>3. ASSUME NEW q \in Procs,
             \/ Create(q) \/ Exists(q) \/ ReadLease(q) \/ Write(q) \/ Match(q)
             \/ Remove(q) \/ Crash(q)
      PROVE  FALSE
  <2> DEFINE Goes(at) == \E try, judged : Moves(q, at, try, judged)
  <2>1. \E at \in {"writing", "reading", "probing", "aging", "holding", "removing",
                   "done", "dead"} : Goes(at)
    BY <1>3 DEF Create, Exists, ReadLease, Write, Match, Remove, Crash, MovesTo
  <2> QED
    BY <1>2, <2>1
<1>4. ASSUME NEW q \in Procs, CheckAge(q) \/ Probe(q) \/ Unlink(q)
      PROVE  q = p
  <2>1. \E at, try, judged : Moves(q, at, try, judged)
    BY <1>4 DEF CheckAge, Probe, Unlink, Retry, MovesTo
  <2> QED
    BY <1>2, <2>1
<1> QED
  BY <1>1, <1>3, <1>4 DEF Next, Age, vars

\* A process that runs alone finds the owner of the lease dead: it gives up only on
\* one that is unwritten and young.
LEMMA LoneRefusal ==
  ASSUME IInv, LoneInv, [Next]_vars, NEW p \in Procs,
         alone[p], proc[p].at # "busy", proc'[p].at = "busy"
  PROVE  file # NoFile /\ ~file.written /\ ~file.old /\ ~Alive(file.by)
<1>1. proc[p].at \in {"aging", "probing", "unlinking"}
  BY Refusals DEF CheckAge, Probe, Unlink
<1>2. /\ file # NoFile /\ proc[p].try = 1
      /\ proc[p].at = "aging" => ~file.written
      /\ proc[p].at = "probing" => proc[p].judged.token = Token(file)
  BY <1>1 DEF LoneInv, Lone, LoneKnows, Looking
<1>3. ~Alive(file.by)
  BY <1>1, <1>2, OwnerIsDead DEF Owning, Alive
<1>4. ~Unlink(p)
  BY <1>2, RetriesAgain DEF Unlink
<1>5. ~Probe(p)
  <2> SUFFICES ASSUME Probe(p) PROVE FALSE
    OBVIOUS
  <2>1. MovesTo(p, "unlinking")
    BY <1>2, <1>3 DEF Probe, Token
  <2> QED
    BY <2>1, StepOf
<1>6. CheckAge(p)
  BY <1>4, <1>5, Refusals
<1>7. ~Moves(p, "unlinking", proc[p].try, Judged(file, "old"))
  BY DEF Moves, IInv, ProcType
<1> QED
  BY <1>2, <1>3, <1>6, <1>7 DEF CheckAge

\* A process nobody else runs beside is refused only by a young lease whose creator
\* died before writing it: a dead owner's written lease is probed, an old unwritten one
\* judged by its age, and either is unlinked and replaced within the two attempts of
\* acquire.
THEOREM LoneProcessIsServed == Spec => LoneIsServed
<1>1. Init => LoneInv
  BY DEF Init, LoneInv, FileOwned, AloneType, Lone
<1>2. IInv /\ LoneInv /\ [Next]_vars => LoneInv'
  <2> SUFFICES ASSUME IInv, LoneInv, [Next]_vars PROVE LoneInv'
    OBVIOUS
  <2>1. CASE UNCHANGED vars
    BY <2>1 DEF vars, LoneInv, FileOwned, AloneType, Lone, LoneKnows, Token
  <2> QED
    BY <2>1, LoneBegins, LoneCreates, LoneFinds, LoneReads, LoneChecksAge, LoneProbes,
       LoneUnlinks, LoneWrites, LoneMatches, LoneRemoves, LoneCrashes, LoneAges DEF Next
<1>3. IInv /\ LoneInv /\ [Next]_vars =>
        [\A p \in Procs :
           alone[p] /\ proc[p].at # "busy" /\ proc'[p].at = "busy" =>
             file # NoFile /\ ~file.written /\ ~file.old /\ ~Alive(file.by)]_vars
  BY LoneRefusal
<1>4. Init => IInv
  BY InitIInv
<1>5. IInv /\ [Next]_vars => IInv'
  BY NextIInv
<1> QED
  BY <1>1, <1>2, <1>3, <1>4, <1>5, PTL DEF Spec, LoneIsServed
=============================================================================
