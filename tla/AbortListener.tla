--------------------------- MODULE AbortListener ---------------------------
(***************************************************************************)
(* The console abort listener (deploy/abort_listener.py): one caller that  *)
(* starts and stops it and registers the abort event of the deployment     *)
(* that runs, the threads that read the input, and the operator who types. *)
(* A step is what the code does under one hold of the lock, or one         *)
(* readline.                                                               *)
(***************************************************************************)
EXTENDS Integers, Sequences

CONSTANTS Event,      \* abort events, one for each deployment
          NoEvent,
          Reader,     \* listener threads that may be created
          NoReader,
          MaxCalls,   \* bound on calls of start, stop, set and clear
          MaxLines    \* bound on lines typed

ASSUME NobodyAssumption == NoEvent \notin Event /\ NoReader \notin Reader
ASSUME BoundAssumption == MaxCalls \in Nat /\ MaxLines \in Nat

VARIABLES
    event,     \* _current_event
    thread,    \* _thread
    stop,      \* _stop_requested
    stopping,  \* is the caller inside stop(), joining?
    reader,    \* where each listener thread is
    input,     \* lines typed and not read yet
    eof,       \* has the operator ended the input?
    stream,    \* _input_stream: sys.stdin, or one that stop() closes
    fired,     \* the events that are set
    calls,     \* calls made so far (bounded)
    typed,     \* lines typed so far (bounded)
    over,      \* history: events registered once and no longer
    restarted  \* history: has stop() been called?

callerVars == <<event, thread, stop, stopping, stream, calls, over, restarted>>
inputVars  == <<eof, typed>>
vars == <<callerVars, reader, input, inputVars, fired>>

-----------------------------------------------------------------------------

Line == {"abort", "other"}

\* "top": before the test of the stop flag; "reading": in readline; "abort"
\* and "other": it has read such a line; "matched": about to set the event.
Place == {"unborn", "top", "reading", "abort", "other", "matched", "leaving",
          "dead"}

Alive(r) == reader[r] \notin {"unborn", "dead"}

Move(r, from, to) == reader[r] = from /\ reader' = [reader EXCEPT ![r] = to]

Call == ~stopping /\ calls < MaxCalls /\ calls' = calls + 1

CloseStream == stream' = IF stream = "open" THEN "closed" ELSE stream

\* The registration of the current event ends.
Unregister(new) ==
    /\ event' = new
    /\ over' = over \cup ({event} \ {NoEvent})

-----------------------------------------------------------------------------
(***************************************************************************)
(* Faulty variants, which are not part of the specification: each breaks   *)
(* the property its comment names.                                         *)
(***************************************************************************)

\* SingleReader: start() does not look for a running thread.
Start_Always ==
    /\ Call
    /\ \E r \in Reader : /\ Move(r, "unborn", "top")
                         /\ thread' = r
    /\ stop' = FALSE
    /\ UNCHANGED <<event, stopping, stream, over, restarted, input, inputVars,
                   fired>>

\* NoLateAbort: stop() leaves the event registered.
Stop_EventKept ==
    /\ Call
    /\ stop' = TRUE
    /\ over' = over \cup ({event} \ {NoEvent})
    /\ CloseStream
    /\ stopping' = TRUE
    /\ restarted' = TRUE
    /\ UNCHANGED <<event, thread, reader, input, inputVars, fired>>

\* AbortDelivered: the listener ends with the first line that is no abort.
SkipLine_Leaves(r) ==
    /\ ~stop
    /\ Move(r, "other", "leaving")
    /\ UNCHANGED <<callerVars, input, inputVars, fired>>

-----------------------------------------------------------------------------

Init ==
    /\ event = NoEvent /\ thread = NoReader
    /\ stop = FALSE /\ stopping = FALSE
    /\ reader = [r \in Reader |-> "unborn"]
    /\ input = <<>> /\ eof = FALSE
    /\ stream \in {"stdin", "open"}
    /\ fired = {}
    /\ calls = 0 /\ typed = 0
    /\ over = {} /\ restarted = FALSE

-----------------------------------------------------------------------------
(***************************************************************************)
(* The caller.                                                             *)
(***************************************************************************)

Start ==
    /\ Call
    /\ \/ thread # NoReader /\ UNCHANGED <<thread, stop, reader>>
       \/ /\ thread = NoReader
          /\ stop' = FALSE
          /\ \E r \in Reader : Move(r, "unborn", "top") /\ thread' = r
    /\ UNCHANGED <<event, stopping, stream, over, restarted, input, inputVars,
                   fired>>

Stop ==
    /\ Call
    /\ stop' = TRUE
    /\ Unregister(NoEvent)
    /\ CloseStream
    /\ stopping' = TRUE
    /\ restarted' = TRUE
    /\ UNCHANGED <<thread, reader, input, inputVars, fired>>

\* join() gives up after a tenth of a second: the thread may be alive.
StopReturns ==
    /\ stopping
    /\ thread' = NoReader
    /\ stopping' = FALSE
    /\ UNCHANGED <<event, stop, stream, calls, over, restarted, reader, input,
                   inputVars, fired>>

\* Each deployment brings an event of its own.
SetAbortEvent(e) ==
    /\ Call
    /\ e \notin over \cup {event}
    /\ Unregister(e)
    /\ UNCHANGED <<thread, stop, stopping, stream, restarted, reader, input,
                   inputVars, fired>>

ClearAbortEvent ==
    /\ Call
    /\ Unregister(NoEvent)
    /\ UNCHANGED <<thread, stop, stopping, stream, restarted, reader, input,
                   inputVars, fired>>

-----------------------------------------------------------------------------
(***************************************************************************)
(* A listener thread.                                                      *)
(***************************************************************************)

CheckStop(r) ==
    /\ Move(r, "top", IF stop THEN "leaving" ELSE "reading")
    /\ UNCHANGED <<callerVars, input, inputVars, fired>>

ReadLine(r) ==
    /\ stream # "closed"
    /\ input # <<>>
    /\ Move(r, "reading", Head(input))
    /\ input' = Tail(input)
    /\ UNCHANGED <<callerVars, inputVars, fired>>

\* The end of the input, or the error of a stream that is closed.
ReadNothing(r) ==
    /\ stream = "closed" \/ (eof /\ input = <<>>)
    /\ Move(r, "reading", "leaving")
    /\ UNCHANGED <<callerVars, input, inputVars, fired>>

\* The flag is tested again after the read.
StoppedReading(r) ==
    /\ stop
    /\ \E line \in Line : Move(r, line, "leaving")
    /\ UNCHANGED <<callerVars, input, inputVars, fired>>

SkipLine(r) ==
    /\ ~stop
    /\ Move(r, "other", "top")
    /\ UNCHANGED <<callerVars, input, inputVars, fired>>

MatchAbort(r) ==
    /\ ~stop
    /\ Move(r, "abort", "matched")
    /\ UNCHANGED <<callerVars, input, inputVars, fired>>

\* The event that is registered now, if there is one.
SetEvent(r) ==
    /\ Move(r, "matched", "top")
    /\ fired' = fired \cup ({event} \ {NoEvent})
    /\ UNCHANGED <<callerVars, input, inputVars>>

\* Whichever thread the field names by now, it is forgotten.
Leave(r) ==
    /\ Move(r, "leaving", "dead")
    /\ thread' = NoReader
    /\ UNCHANGED <<event, stop, stopping, stream, calls, over, restarted,
                   input, inputVars, fired>>

ReaderStep(r) ==
    \/ CheckStop(r) \/ ReadLine(r) \/ ReadNothing(r) \/ StoppedReading(r)
    \/ SkipLine(r) \/ MatchAbort(r) \/ SetEvent(r) \/ Leave(r)

-----------------------------------------------------------------------------
(***************************************************************************)
(* The operator.                                                           *)
(***************************************************************************)

TypeLine(line) ==
    /\ ~eof
    /\ typed < MaxLines
    /\ typed' = typed + 1
    /\ input' = Append(input, line)
    /\ UNCHANGED <<callerVars, reader, eof, fired>>

EndInput ==
    /\ ~eof
    /\ eof' = TRUE
    /\ UNCHANGED <<callerVars, reader, input, typed, fired>>

Caller == \/ Start \/ Stop \/ StopReturns \/ ClearAbortEvent
          \/ \E e \in Event : SetAbortEvent(e)

Next == \/ Caller
        \/ \E r \in Reader : ReaderStep(r)
        \/ \E line \in Line : TypeLine(line)
        \/ EndInput

Spec == Init /\ [][Next]_vars

\* A thread that is not blocked in readline or at the lock is scheduled.
FairSpec == Spec /\ \A r \in Reader : WF_vars(ReaderStep(r))

-----------------------------------------------------------------------------
(***************************************************************************)
(* Properties.                                                             *)
(***************************************************************************)

\* Every variable keeps to the values its Python counterpart can hold.
TypeOK ==
    /\ event \in Event \cup {NoEvent}
    /\ thread \in Reader \cup {NoReader}
    /\ stop \in BOOLEAN /\ stopping \in BOOLEAN
    /\ stream \in {"stdin", "open", "closed"}
    /\ reader \in [Reader -> Place]
    /\ input \in Seq(Line) /\ eof \in BOOLEAN
    /\ fired \in SUBSET Event
    /\ calls \in 0 .. MaxCalls /\ typed \in 0 .. MaxLines
    /\ over \in SUBSET Event /\ restarted \in BOOLEAN

\* Until stop() is called the input has one reader, and the listener knows it:
\* start() creates no second one, and may create one when it has ended.
SingleReader ==
    ~restarted => \A r \in Reader : Alive(r) => thread = r

\* A deployment that is over is not aborted any more, whichever threads hold a
\* line they read in its time: not after its event was cleared, nor replaced by
\* the next deployment's, nor after stop() with the thread still alive.
NoLateAbort == [][\A e \in over : e \in fired' => e \in fired]_vars

\* An abort line waits to be read, or a thread has read it and goes on.
AbortPending == \/ \E i \in DOMAIN input : input[i] = "abort"
                \/ \E r \in Reader : reader[r] \in {"abort", "matched"}

Listening == /\ ~stop
             /\ stream # "closed"
             /\ \E r \in Reader : Alive(r) /\ reader[r] # "leaving"

\* While a thread listens, an abort line sets the event that is registered,
\* unless the caller takes that event back first.
AbortDelivered ==
    \A e \in Event :
        (event = e /\ AbortPending /\ Listening) ~> (e \in fired \/ event # e)

=============================================================================
