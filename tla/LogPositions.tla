----------------------------- MODULE LogPositions -----------------------------
(***************************************************************************)
(* ktail/tailer.go: which lines of a log a ContainerTailer shows.  Ktail   *)
(* has the tailers of a changing cluster and no lines; here is one tailer  *)
(* and one container, with the lines and the clock.  getStream asks for    *)
(* the log since one second ago, in whole seconds, when it is entered, and *)
(* retries with that time for as long as the container is not ready.       *)
(***************************************************************************)
EXTENDS Naturals, Sequences, FiniteSets

CONSTANTS
  Second,     \* ticks of the clock in a second
  Start,      \* when the tailer is made
  FirstLogs,  \* what the container may have written by then
  MaxTime,    \* bound on the clock
  MaxLines,   \* bound on the log
  MaxBreaks   \* bound on the streams that end while the container runs

\* of a log: when each of its lines was written
Sorted(s) == \A i, j \in 1..Len(s) : i <= j => s[i] <= s[j]

ASSUME PositionsAssumption ==
  /\ Second \in Nat \ {0}
  /\ Start \in Nat /\ Start >= Second
  /\ MaxTime \in Nat /\ MaxTime >= Start
  /\ MaxLines \in Nat /\ MaxBreaks \in Nat
  /\ \A s \in FirstLogs : s \in Seq(0..Start) /\ Sorted(s) /\ Len(s) <= MaxLines

VARIABLES
  now,            \* the clock, the same for the tailer and the kubelet
  container,      \* what the kubelet says of the container
  log,            \* when each line was written
  torn,           \* the last line has no newline: the container ended within it
  newlyCreated,   \* what onInitialAdd and onAdd say of the pod
  pc, stop, fromBeginning,
  since,          \* sinceTime, while getStream runs
  next,           \* the first line that the stream has not delivered, while there is one
  breaks,         \* the streams that have ended too soon
  seen,           \* the lines that have been shown
  excused,        \* the lines that need not be shown
  opened,         \* a stream has been opened
  broke           \* when the last stream ended, or the tailer was made

kubelet == <<now, container, log, torn>>
tailer == <<newlyCreated, pc, stop, fromBeginning, since, next, breaks>>
history == <<seen, excused, opened, broke>>
vars == <<kubelet, tailer, history>>

Lines == 1..Len(log)

TypeOK ==
  /\ now \in Start..MaxTime
  /\ container \in {"waiting", "running", "exited", "gone"}
  /\ log \in Seq(0..now) /\ Len(log) <= MaxLines + 1
  /\ torn \in BOOLEAN /\ (torn => log # <<>> /\ container \in {"exited", "gone"})
  /\ newlyCreated \in BOOLEAN /\ stop \in BOOLEAN /\ fromBeginning \in BOOLEAN
  /\ pc \in {"test", "open", "backoff", "read", "ended", "failed"}
  /\ since \in 0..now /\ next \in 1..Len(log) + 1
  /\ breaks \in 0..MaxBreaks
  /\ seen \subseteq Lines /\ excused \subseteq Lines
  /\ opened \in BOOLEAN /\ broke \in Start..now

\* the lines with a newline
Whole == IF torn THEN 1..Len(log) - 1 ELSE Lines

\* A pod that was there before the tailer owes only the lines from now on.
Init ==
  /\ now = Start
  /\ container \in {"waiting", "running", "exited"}
  /\ log \in FirstLogs /\ (container = "waiting" => log = <<>>)
  /\ torn \in BOOLEAN /\ (torn => log # <<>> /\ container = "exited")
  /\ newlyCreated \in BOOLEAN
  /\ pc = "test" /\ stop = FALSE /\ fromBeginning = newlyCreated
  /\ since = 0 /\ next = 1 /\ breaks = 0
  /\ seen = {} /\ opened = FALSE /\ broke = Start
  /\ excused = IF newlyCreated THEN {} ELSE {i \in Lines : log[i] < Start}

-----------------------------------------------------------------------------
(* The clock, the container and its kubelet (external), and the controller   *)

\* what becomes of the container is of no interest once the tailer has ended
Tailed == pc \notin {"ended", "failed"}

Tick ==
  /\ Tailed /\ container # "gone"
  /\ now < MaxTime
  /\ now' = now + 1
  /\ UNCHANGED <<container, log, torn, tailer, history>>

Write ==
  /\ Tailed /\ container = "running" /\ Len(log) < MaxLines
  /\ log' = Append(log, now)
  /\ UNCHANGED <<now, container, torn, tailer, history>>

Starts ==
  /\ Tailed /\ container = "waiting"
  /\ container' = "running"
  /\ UNCHANGED <<now, log, torn, tailer, history>>

\* the container ends, perhaps within a line
Exits ==
  /\ Tailed /\ container = "running"
  /\ container' = "exited"
  /\ \/ log' = log /\ torn' = FALSE
     \/ log' = Append(log, now) /\ torn' = TRUE
  /\ UNCHANGED <<now, tailer, history>>

Goes ==
  /\ Tailed /\ container # "gone"
  /\ container' = "gone"
  /\ UNCHANGED <<now, log, torn, tailer, history>>

\* ContainerTailer.Stop: the controller has heard that the pod is gone
Stop ==
  /\ Tailed /\ container = "gone"
  /\ stop' = TRUE
  /\ UNCHANGED <<kubelet, newlyCreated, pc, fromBeginning, since, next, breaks, history>>

-----------------------------------------------------------------------------
(* The tailer *)

GoesTo(where) ==
  /\ pc' = where
  /\ UNCHANGED <<newlyCreated, stop>>

\* a metav1.Time is sent in whole seconds (RFC3339)
WholeSeconds(t) == (t \div Second) * Second

\* time.Now().Add(-1 * time.Second), unless the log is read from its beginning
SinceTime == IF fromBeginning THEN 0 ELSE WholeSeconds(now - Second)

\* The lines that may be lost when a stream is asked for now: those that were
\* written more than a second ago and have not been shown.
Overdue == {i \in Lines \ seen : log[i] + Second < now}

Excuse(lines) ==
  /\ excused' = excused \cup lines
  /\ UNCHANGED <<seen, opened, broke>>

\* for !ct.stop, and the entry of getStream, which sets sinceTime once
Run ==
  /\ pc = "test"
  /\ \/ /\ stop /\ GoesTo("ended")
        /\ UNCHANGED <<since, history>>
     \/ /\ ~stop /\ GoesTo("open")
        /\ since' = SinceTime
        /\ Excuse(IF newlyCreated /\ ~opened THEN {} ELSE Overdue)
  /\ UNCHANGED <<kubelet, fromBeginning, next, breaks>>

\* the stream starts with the first line that is not older than sinceTime
FirstSince(t) ==
  IF \A i \in Lines : log[i] < t THEN Len(log) + 1
  ELSE CHOOSE i \in Lines : log[i] >= t /\ \A j \in 1..i-1 : log[j] < t

\* Mutant: ct.fromBeginning is not reset.
OpensAgain ==
  /\ pc = "open" /\ container \in {"running", "exited"}
  /\ GoesTo("read")
  /\ next' = FirstSince(since)
  /\ since' = 0
  /\ opened' = TRUE
  /\ UNCHANGED <<kubelet, fromBeginning, breaks, seen, excused, broke>>

\* GetLogs(...).Stream() answers with a stream: we have now started
Opens ==
  /\ pc = "open" /\ container \in {"running", "exited"}
  /\ GoesTo("read")
  /\ next' = FirstSince(since)
  /\ fromBeginning' = FALSE /\ since' = 0
  /\ opened' = TRUE
  /\ UNCHANGED <<kubelet, breaks, seen, excused, broke>>

\* 400: the container is not ready for log reading yet
NotReady ==
  /\ pc = "open" /\ container = "waiting"
  /\ GoesTo("backoff")
  /\ UNCHANGED <<kubelet, fromBeginning, since, next, breaks, history>>

\* Mutant: sinceTime is set again at every retry.
WakeUpLate ==
  /\ pc = "backoff"
  /\ GoesTo("open")
  /\ since' = SinceTime
  /\ UNCHANGED <<kubelet, fromBeginning, next, breaks, history>>

\* time.Sleep(boff.Duration()) is over; the request is made again as it was
WakeUp ==
  /\ pc = "backoff"
  /\ GoesTo("open")
  /\ UNCHANGED <<kubelet, fromBeginning, since, next, breaks, history>>

\* 404: no stream and no error
NotFound ==
  /\ pc = "open" /\ container = "gone"
  /\ GoesTo("ended")
  /\ UNCHANGED <<kubelet, fromBeginning, since, next, breaks, history>>

\* any other error of the request or of the stream: Run returns it
Fails ==
  /\ pc \in {"open", "read"}
  /\ GoesTo("failed")
  /\ UNCHANGED <<kubelet, fromBeginning, since, next, breaks, history>>

\* Mutant: the rest of the line is taken for a line of its own.
ReadLineTwice ==
  /\ pc = "read" /\ next \in Whole
  /\ seen' = seen \cup {next}
  /\ next' = next + 2
  /\ UNCHANGED <<kubelet, newlyCreated, pc, stop, fromBeginning, since, breaks,
                 excused, opened, broke>>

\* ReadString and receiveLine
ReadLine ==
  /\ pc = "read" /\ next \in Whole
  /\ seen' = seen \cup {next}
  /\ next' = next + 1
  /\ UNCHANGED <<kubelet, newlyCreated, pc, stop, fromBeginning, since, breaks,
                 excused, opened, broke>>

\* Mutant: io.EOF ends the tailer.
EndOfStreamIsEnd ==
  /\ pc = "read" /\ GoesTo("ended")
  /\ broke' = now /\ next' = 1
  /\ UNCHANGED <<kubelet, fromBeginning, since, seen, excused, opened>>

\* io.EOF: what comes without a newline before it is dropped, and Run goes on
EndOfStream ==
  /\ pc = "read" /\ GoesTo("test")
  /\ broke' = now /\ next' = 1
  /\ UNCHANGED <<kubelet, fromBeginning, since, seen, excused, opened>>

\* the kubelet has delivered all that the container ever wrote, or lost the pod
LogIsOver ==
  /\ \/ container = "exited" /\ next \notin Whole
     \/ container = "gone"
  /\ EndOfStream
  /\ UNCHANGED breaks

\* the stream is closed in good order and too soon
Breaks ==
  /\ container \in {"running", "exited"} /\ breaks < MaxBreaks
  /\ breaks' = breaks + 1
  /\ EndOfStream

Tailer == Run \/ Opens \/ NotReady \/ WakeUp \/ NotFound \/ ReadLine \/ LogIsOver

Next ==
  \/ Tick \/ Write \/ Starts \/ Exits \/ Goes \/ Stop
  \/ Tailer \/ Fails \/ Breaks

Spec == Init /\ [][Next]_vars

\* the goroutine runs, the API server answers and the lines of a stream arrive
Fairness == WF_vars(Tailer)

FairSpec == Spec /\ Fairness
-----------------------------------------------------------------------------
(* Properties *)

Top == CHOOSE i \in seen \cup {0} : \A j \in seen : j <= i

Promise == INSTANCE LogReader WITH written <- Len(log), top <- Top

\* The lines are shown in order and without a gap, the log of a new pod from its
\* first line, however often streams end and requests are retried; only a line
\* that was more than a second old when a stream was asked for may be skipped
\* (Run, getStream, runStream).
InOrder == Promise!Spec

\* What is repeated after a break, or shown of a pod that was there before, is not
\* older than the two seconds before the break, or before the start.
NoReplay ==
  [][\A i \in Lines :
       /\ pc = "read" /\ next = i /\ next' # i
       /\ i \in seen \/ ~newlyCreated
       => log[i] + 2 * Second > broke]_vars

\* Again and again every line that ends in a newline has been shown, unless it was overdue,
\* the pod goes or an error ends the tailer: a break is not an end.
EveryLineShown ==
  []<>(Whole \subseteq seen \cup excused \/ container = "gone" \/ pc = "failed")
=============================================================================
