----------------------------- MODULE LogStreams -----------------------------
(***************************************************************************)
(* Live container logs: StreamContainerLogs, its limits (streamTracker) and*)
(* the goroutines of streamDockerLogs:                                     *)
(*                                                                         *)
(*   container -> StdCopy -> pipe -> scanner "stdout" -> lines -> handler  *)
(*                        -> pipe -> scanner "stderr" ->                   *)
(*                                                                         *)
(* A request has one handler.  Writes to an io.Pipe are synchronous: StdCopy*)
(* waits until a scanner has read what it wrote.  A line is its origin and *)
(* its number; timestamps, redaction and the heartbeat are left out.       *)
(***************************************************************************)
EXTENDS Naturals, Sequences, FiniteSets

CONSTANTS
  Requests,    \* requests for a log stream
  Ips, Ports,  \* where they come from
  RemoteAddr,  \* RemoteAddr of each request, an ip and a port
  Forwarded,   \* X-Forwarded-For of each request, an ip or NoHeader
  NoHeader,
  MaxPerUser,  \* maxPerUser
  MaxGlobal,   \* maxGlobal
  LineCap,     \* capacity of the channel lines (100 in the code)
  MaxEvents,   \* events that fit in maxBytes
  Live,        \* requests that name a docker agent with a container
  MaxLines     \* bound: lines a container prints

Origins == {"stdout", "stderr"}
Lines == [origin : Origins, n : Nat \ {0}]
NoLine == [origin |-> "none", n |-> 0]

ASSUME AddressAssumption ==
  /\ RemoteAddr \in [Requests -> [ip : Ips, port : Ports]]
  /\ Forwarded \in [Requests -> Ips \cup {NoHeader}]
  /\ NoHeader \notin Ips
ASSUME LimitsAssumption == MaxPerUser \in Nat \ {0} /\ MaxGlobal \in Nat \ {0}
ASSUME CapsAssumption == LineCap \in Nat \ {0} /\ MaxEvents \in Nat
ASSUME LiveAssumption == Live \subseteq Requests /\ MaxLines \in Nat

(* extractUserFromRequest: without a proxy the user is an ip and a port.   *)
UserOf(r) ==
  IF Forwarded[r] # NoHeader THEN [ip |-> Forwarded[r]] ELSE RemoteAddr[r]

Users == {UserOf(r) : r \in Requests}

VARIABLES
  userStreams,  \* streamTracker: streams of each user
  globalCount,  \* streamTracker: all streams
  hpc,          \* handler: where it is
  why,          \* handler: why streamDockerLogs returned, until it returns itself
  ctxDone,      \* streamCtx is done
  copy,         \* StdCopy goroutine: "off", "read", "write", "ended"
  written,      \* line it is writing to a pipe
  done,         \* channel done: "empty", "eof", "failed"
  printed,      \* lines the container printed, by origin
  scan,         \* scanners: "off", "scan", "send", "ended", "cut"
  text,         \* line a scanner holds
  lines,        \* channel lines
  closed,       \* lines is closed
  event,        \* line the handler is sending
  shown         \* history: lines sent to the client

trackerVars == <<userStreams, globalCount>>
copyVars == <<copy, written, done, printed>>
scanVars == <<scan, text>>
logVars == <<trackerVars, hpc, why, ctxDone, copyVars, scanVars, lines, closed, event, shown>>

(* Between acquire and the deferred release.                               *)
Holding == {"lookup", "open", "loop", "emit", "finish", "release"}
Phases == {"idle", "refused", "returned"} \cup Holding

LogTypeOK ==
  /\ userStreams \in [Users -> 0 .. MaxPerUser]
  /\ globalCount \in 0 .. MaxGlobal
  /\ hpc \in [Requests -> Phases]
  /\ why \in [Requests -> {"none", "open", "ctx", "limit", "closed", "eof", "failed"}]
  /\ ctxDone \in [Requests -> BOOLEAN]
  /\ copy \in [Requests -> {"off", "read", "write", "ended"}]
  /\ written \in [Requests -> Lines \cup {NoLine}]
  /\ done \in [Requests -> {"empty", "eof", "failed"}]
  /\ printed \in [Requests -> [Origins -> Nat]]
  /\ scan \in [Requests -> [Origins -> {"off", "scan", "send", "ended", "cut"}]]
  /\ text \in [Requests -> [Origins -> Lines \cup {NoLine}]]
  /\ lines \in [Requests -> Seq(Lines)]
  /\ \A r \in Requests : Len(lines[r]) <= LineCap
  /\ closed \in [Requests -> BOOLEAN]
  /\ event \in [Requests -> Lines \cup {NoLine}]
  /\ shown \in [Requests -> Seq(Lines)]

LogInit ==
  /\ userStreams = [u \in Users |-> 0]
  /\ globalCount = 0
  /\ hpc = [r \in Requests |-> "idle"]
  /\ why = [r \in Requests |-> "none"]
  /\ ctxDone = [r \in Requests |-> FALSE]
  /\ copy = [r \in Requests |-> "off"]
  /\ written = [r \in Requests |-> NoLine]
  /\ done = [r \in Requests |-> "empty"]
  /\ printed = [r \in Requests |-> [o \in Origins |-> 0]]
  /\ scan = [r \in Requests |-> [o \in Origins |-> "off"]]
  /\ text = [r \in Requests |-> [o \in Origins |-> NoLine]]
  /\ lines = [r \in Requests |-> <<>>]
  /\ closed = [r \in Requests |-> FALSE]
  /\ event = [r \in Requests |-> NoLine]
  /\ shown = [r \in Requests |-> <<>>]

-----------------------------------------------------------------------------
(* StreamContainerLogs and streamTracker.                                  *)

Goto(r, here, there) ==
  /\ hpc[r] = here
  /\ hpc' = [hpc EXCEPT ![r] = there]

LimitReached(u) == globalCount >= MaxGlobal \/ userStreams[u] >= MaxPerUser

pipeVars == <<copyVars, scanVars, lines, closed, event, shown>>

\* streamTracker.acquire, and 429 when it fails.
Acquire(r) ==
  /\ ~LimitReached(UserOf(r))
  /\ Goto(r, "idle", "lookup")
  /\ userStreams' = [userStreams EXCEPT ![UserOf(r)] = @ + 1]
  /\ globalCount' = globalCount + 1
  /\ UNCHANGED <<why, ctxDone, pipeVars>>

Refuse(r) ==
  /\ LimitReached(UserOf(r))
  /\ Goto(r, "idle", "refused")
  /\ UNCHANGED <<trackerVars, why, ctxDone, pipeVars>>

\* No such agent, not a docker agent, bad parameters, no container.
BadLookupFails(r) ==
  /\ Goto(r, "lookup", "returned")
  /\ UNCHANGED <<trackerVars, why, ctxDone, pipeVars>>

LookupFails(r) ==
  /\ Goto(r, "lookup", "release")
  /\ UNCHANGED <<trackerVars, why, ctxDone, pipeVars>>

Connect(r) ==
  /\ r \in Live
  /\ Goto(r, "lookup", "open")
  /\ UNCHANGED <<trackerVars, why, ctxDone, pipeVars>>

(* The client leaves, or LOG_STREAM_MAX_DURATION is over.                  *)
Expire(r) ==
  /\ hpc[r] \in {"open", "loop", "emit", "finish"}
  /\ ~ctxDone[r]
  /\ ctxDone' = [ctxDone EXCEPT ![r] = TRUE]
  /\ UNCHANGED <<trackerVars, hpc, why, pipeVars>>

\* After streamDockerLogs: the last event, and the deferred cancel().
Finish(r) ==
  /\ Goto(r, "finish", "release")
  /\ ctxDone' = [ctxDone EXCEPT ![r] = TRUE]
  /\ UNCHANGED <<trackerVars, why, pipeVars>>

GiveBack(u) == userStreams' = [userStreams EXCEPT ![u] = IF @ > 0 THEN @ - 1 ELSE 0]

\* The deferred streamTracker.release.
Release(r) ==
  /\ Goto(r, "release", "returned")
  /\ GiveBack(UserOf(r))
  /\ globalCount' = IF globalCount > 0 THEN globalCount - 1 ELSE 0
  /\ why' = [why EXCEPT ![r] = "none"]
  /\ UNCHANGED <<ctxDone, pipeVars>>

-----------------------------------------------------------------------------
(* streamDockerLogs.                                                       *)

\* streamDockerLogs returns; the deferred reader.Close() runs.
Return(r, here, cause) ==
  /\ Goto(r, here, "finish")
  /\ why' = [why EXCEPT ![r] = cause]

ReaderClosed(r) == hpc[r] \in {"finish", "release", "returned"}

OpenFails(r) ==
  /\ Return(r, "open", "open")
  /\ UNCHANGED <<trackerVars, ctxDone, pipeVars>>

\* The log reader is there; StdCopy and both scanners start.
OpenLogs(r) ==
  /\ Goto(r, "open", "loop")
  /\ copy' = [copy EXCEPT ![r] = "read"]
  /\ scan' = [scan EXCEPT ![r] = [o \in Origins |-> "scan"]]
  /\ UNCHANGED <<trackerVars, why, ctxDone, written, done, printed, text, lines, closed, event, shown>>

(* StdCopy reads a line from the container and writes it to its pipe.      *)
CopyLine(r, o) ==
  /\ copy[r] = "read" /\ ~ReaderClosed(r)
  /\ printed[r]["stdout"] + printed[r]["stderr"] < MaxLines
  /\ printed' = [printed EXCEPT ![r][o] = @ + 1]
  /\ written' = [written EXCEPT ![r] = [origin |-> o, n |-> printed[r][o] + 1]]
  /\ copy' = [copy EXCEPT ![r] = "write"]
  /\ UNCHANGED <<trackerVars, hpc, why, ctxDone, done, scanVars, lines, closed, event, shown>>

(* StdCopy returns: both pipes' writers are closed and done gets its error.*)
CopyEnds(r, result) ==
  /\ copy[r] = "read"
  /\ copy' = [copy EXCEPT ![r] = "ended"]
  /\ done' = [done EXCEPT ![r] = result]
  /\ UNCHANGED <<trackerVars, hpc, why, ctxDone, written, printed, scanVars, lines, closed, event, shown>>

\* The container stops, or the connection to Docker breaks.
LogEnds(r) == \E result \in {"eof", "failed"} : CopyEnds(r, result)

\* The read fails because the reader is closed or its request cancelled.
CopyInterrupted(r) == (ReaderClosed(r) \/ ctxDone[r]) /\ CopyEnds(r, "failed")

(* A scanner reads the line that StdCopy is writing to its pipe.           *)
ScanLine(r, o) ==
  /\ copy[r] = "write" /\ written[r].origin = o
  /\ scan[r][o] = "scan"
  /\ scan' = [scan EXCEPT ![r][o] = "send"]
  /\ text' = [text EXCEPT ![r][o] = written[r]]
  /\ written' = [written EXCEPT ![r] = NoLine]
  /\ copy' = [copy EXCEPT ![r] = "read"]
  /\ UNCHANGED <<trackerVars, hpc, why, ctxDone, done, printed, lines, closed, event, shown>>

(* Scan returns false on a line of more than LogStreamMaxLineSize.  What   *)
(* the scanner's buffer had no room for stays in StdCopy's write.          *)
ScanTooLong(r, o) ==
  /\ copy[r] = "write" /\ written[r].origin = o
  /\ scan[r][o] = "scan"
  /\ scan' = [scan EXCEPT ![r][o] = "cut"]
  /\ \/ /\ written' = [written EXCEPT ![r] = NoLine]
        /\ copy' = [copy EXCEPT ![r] = "read"]
     \/ UNCHANGED <<written, copy>>
  /\ UNCHANGED <<trackerVars, hpc, why, ctxDone, done, printed, text, lines, closed, event, shown>>

\* Scan returns false at the end of the pipe.
ScanEnds(r, o) ==
  /\ copy[r] = "ended"
  /\ scan[r][o] = "scan"
  /\ scan' = [scan EXCEPT ![r][o] = "ended"]
  /\ UNCHANGED <<trackerVars, hpc, why, ctxDone, copyVars, text, lines, closed, event, shown>>

\* A scanner that would not wait for a slow client.
BadSendLine(r, o) ==
  /\ scan[r][o] = "send"
  /\ lines' = [lines EXCEPT ![r] = IF Len(@) < LineCap THEN Append(@, text[r][o]) ELSE @]
  /\ scan' = [scan EXCEPT ![r][o] = "scan"]
  /\ text' = [text EXCEPT ![r][o] = NoLine]
  /\ UNCHANGED <<trackerVars, hpc, why, ctxDone, copyVars, closed, event, shown>>

\* The scanner's select: lines has room, or ctx is done.
SendLine(r, o) ==
  /\ scan[r][o] = "send"
  /\ Len(lines[r]) < LineCap
  /\ lines' = [lines EXCEPT ![r] = Append(@, text[r][o])]
  /\ scan' = [scan EXCEPT ![r][o] = "scan"]
  /\ text' = [text EXCEPT ![r][o] = NoLine]
  /\ UNCHANGED <<trackerVars, hpc, why, ctxDone, copyVars, closed, event, shown>>

BadQuit(r, o) == FALSE
Quit(r, o) == scan[r][o] = "send" /\ ctxDone[r]

DropLine(r, o) ==
  /\ Quit(r, o)
  /\ scan' = [scan EXCEPT ![r][o] = "ended"]
  /\ text' = [text EXCEPT ![r][o] = NoLine]
  /\ UNCHANGED <<trackerVars, hpc, why, ctxDone, copyVars, lines, closed, event, shown>>

Ended(r, o) == scan[r][o] \in {"ended", "cut"}

BadScannersEnded(r) == \E o \in Origins : Ended(r, o)
ScannersEnded(r) == \A o \in Origins : Ended(r, o)

\* wg.Wait() and close(lines).
CloseLines(r) ==
  /\ ScannersEnded(r)
  /\ ~closed[r]
  /\ closed' = [closed EXCEPT ![r] = TRUE]
  /\ UNCHANGED <<trackerVars, hpc, why, ctxDone, copyVars, scanVars, lines, event, shown>>

(* The handler's select.  When several cases are ready any may be taken.   *)
TakeLine(r) ==
  /\ lines[r] # <<>>
  /\ lines' = [lines EXCEPT ![r] = Tail(@)]
  /\ \/ /\ Len(shown[r]) < MaxEvents
        /\ Goto(r, "loop", "emit")
        /\ event' = [event EXCEPT ![r] = Head(lines[r])]
        /\ UNCHANGED why
     \/ /\ Len(shown[r]) >= MaxEvents
        /\ Return(r, "loop", "limit")
        /\ UNCHANGED event
  /\ UNCHANGED <<trackerVars, ctxDone, copyVars, scanVars, closed, shown>>

\* The event is written to the client.
Emit(r) ==
  /\ Goto(r, "emit", "loop")
  /\ shown' = [shown EXCEPT ![r] = Append(@, event[r])]
  /\ event' = [event EXCEPT ![r] = NoLine]
  /\ UNCHANGED <<trackerVars, why, ctxDone, copyVars, scanVars, lines, closed>>

LinesClosed(r) ==
  /\ lines[r] = <<>> /\ closed[r]
  /\ Return(r, "loop", "closed")
  /\ UNCHANGED <<trackerVars, ctxDone, pipeVars>>

CopyDone(r) ==
  /\ done[r] # "empty"
  /\ Return(r, "loop", done[r])
  /\ done' = [done EXCEPT ![r] = "empty"]
  /\ UNCHANGED <<trackerVars, ctxDone, copy, written, printed, scanVars, lines, closed, event, shown>>

BadContextDone(r) == FALSE
ContextDone(r) == ctxDone[r]

Cancelled(r) ==
  /\ ContextDone(r)
  /\ Return(r, "loop", "ctx")
  /\ UNCHANGED <<trackerVars, ctxDone, pipeVars>>

-----------------------------------------------------------------------------
LogHandlerStep(r) ==
  \/ LookupFails(r) \/ Connect(r)
  \/ OpenFails(r) \/ OpenLogs(r)
  \/ TakeLine(r) \/ Emit(r) \/ LinesClosed(r) \/ CopyDone(r) \/ Cancelled(r)
  \/ Finish(r) \/ Release(r)

ScannerStep(r, o) == ScanLine(r, o) \/ ScanEnds(r, o) \/ SendLine(r, o) \/ DropLine(r, o)

LogNext ==
  \E r \in Requests :
    \/ Acquire(r) \/ Refuse(r)
    \/ LogHandlerStep(r) \/ Expire(r)
    \/ LogEnds(r) \/ CopyInterrupted(r) \/ CloseLines(r)
    \/ \E o \in Origins : CopyLine(r, o) \/ ScannerStep(r, o) \/ ScanTooLong(r, o)

LogSpec == LogInit /\ [][LogNext]_logVars

(* Goroutines run, the maximal duration passes, Docker answers, and a      *)
(* client reads what it is sent or closes its connection.  Nothing is      *)
(* assumed of the container.                                               *)
LogFairSpec ==
  /\ LogSpec
  /\ \A r \in Requests : WF_logVars(LogHandlerStep(r))
  /\ \A r \in Live :
       /\ WF_logVars(Expire(r)) /\ SF_logVars(Cancelled(r))
       /\ WF_logVars(CopyInterrupted(r)) /\ WF_logVars(CloseLines(r))
       /\ \A o \in Origins : WF_logVars(ScannerStep(r, o))

-----------------------------------------------------------------------------
(* Properties.                                                             *)

Streams(u) == {r \in Requests : UserOf(r) = u /\ hpc[r] \in Holding}

(* streamTracker counts exactly the handlers between acquire and release,  *)
(* per user and in all: no way out of StreamContainerLogs keeps a place or *)
(* gives one back twice, so a request is refused only when the limit is    *)
(* really used up by others.                                               *)
CountsExact ==
  /\ \A u \in Users : userStreams[u] = Cardinality(Streams(u))
  /\ globalCount = Cardinality({r \in Requests : hpc[r] \in Holding})

(* Every line comes after all earlier lines of its origin, and only once.  *)
InOrder(s) ==
  \A i \in 1 .. Len(s) :
    LET before == {s[j] : j \in 1 .. i - 1}
    IN  /\ \A k \in 1 .. s[i].n - 1 : [origin |-> s[i].origin, n |-> k] \in before
        /\ \A x \in before : x.origin = s[i].origin => x.n < s[i].n

(* Lines of one origin are shown in the order they were printed, without a *)
(* gap and without a repetition, whatever the goroutines' order.           *)
OrderKept ==
  \A r \in Requests :
    /\ InOrder(shown[r])
    /\ \A i \in 1 .. Len(shown[r]) : shown[r][i].n <= printed[r][shown[r][i].origin]

(* When streamDockerLogs returns because lines was closed ("All lines      *)
(* processed"), nobody had cancelled it and no scanner had given up on an  *)
(* overlong line, the client was shown every line that the container       *)
(* printed, and StdCopy is over.                                           *)
ClosedMeansAllShown ==
  [][\A r \in Requests :
       /\ why'[r] = "closed" /\ why[r] = "none" /\ ~ctxDone[r]
       /\ \A o \in Origins : scan[r][o] # "cut"
       =>
         /\ copy[r] = "ended"
         /\ Len(shown[r]) = printed[r]["stdout"] + printed[r]["stderr"]]_logVars

(* A place in the limits that was taken is given back: no goroutine, full  *)
(* channel or silent container keeps a handler beyond its maximal duration.*)
PlacesComeBack == \A r \in Requests : (hpc[r] = "lookup") ~> (hpc[r] = "returned")

(* After the handler has returned every goroutine of its stream ends, with *)
(* one exception: StdCopy writing to a pipe whose scanner has ended, which *)
(* nobody will read and nobody closes.                                     *)
AllEnded(r) ==
  /\ copy[r] \in {"off", "ended"}
  /\ \A o \in Origins : scan[r][o] = "off" \/ Ended(r, o)
  /\ closed[r] = (copy[r] = "ended")

StuckInPipe(r) ==
  copy[r] = "write" /\ \E o \in Origins : written[r].origin = o /\ Ended(r, o)

LeaksOnlyInPipe ==
  \A r \in Live : (hpc[r] = "returned") ~> (AllEnded(r) \/ StuckInPipe(r))

=============================================================================
