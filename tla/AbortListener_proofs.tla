------------------------ MODULE AbortListener_proofs ------------------------
(***************************************************************************)
(* Theorems about AbortListener, for any number of events, threads, calls  *)
(* and lines.                                                              *)
(***************************************************************************)
EXTENDS AbortListener, TLAPS

-----------------------------------------------------------------------------
(***************************************************************************)
(* Type correctness.                                                       *)
(***************************************************************************)

LEMMA InitType == Init => TypeOK
<1> SUFFICES ASSUME Init PROVE TypeOK
  OBVIOUS
<1>1. reader \in [Reader -> Place] /\ input \in Seq(Line)
  BY DEF Init, Place
<1>2. calls \in 0 .. MaxCalls /\ typed \in 0 .. MaxLines
  BY BoundAssumption DEF Init
<1>3. fired \in SUBSET Event /\ over \in SUBSET Event
  BY DEF Init
<1>4. /\ event \in Event \cup {NoEvent} /\ thread \in Reader \cup {NoReader}
      /\ stop \in BOOLEAN /\ stopping \in BOOLEAN /\ eof \in BOOLEAN
      /\ restarted \in BOOLEAN /\ stream \in {"stdin", "open", "closed"}
  BY DEF Init
<1> QED
  BY <1>1, <1>2, <1>3, <1>4 DEF TypeOK

LEMMA CallerType ==
  ASSUME TypeOK, Caller
  PROVE  TypeOK'
<1> USE BoundAssumption DEF TypeOK, inputVars
<1>1. CASE Start
  <2>1. thread' \in Reader \cup {NoReader} /\ stop' \in BOOLEAN
    BY <1>1 DEF Start
  <2>2. reader' \in [Reader -> Place]
    BY <1>1 DEF Start, Move, Place
  <2>3. calls' \in 0 .. MaxCalls
    BY <1>1 DEF Start, Call
  <2> QED
    BY <1>1, <2>1, <2>2, <2>3 DEF Start
<1>2. CASE Stop
  BY <1>2 DEF Stop, Call, Unregister, CloseStream
<1>3. CASE StopReturns
  BY <1>3 DEF StopReturns
<1>4. CASE ClearAbortEvent
  BY <1>4 DEF ClearAbortEvent, Call, Unregister
<1>5. ASSUME NEW e \in Event, SetAbortEvent(e)
      PROVE  TypeOK'
  BY <1>5 DEF SetAbortEvent, Call, Unregister
<1> QED
  BY <1>1, <1>2, <1>3, <1>4, <1>5 DEF Caller

LEMMA ReaderType ==
  ASSUME TypeOK, NEW r \in Reader, ReaderStep(r)
  PROVE  TypeOK'
<1> USE DEF TypeOK, Move, callerVars, inputVars
<1>1. CASE CheckStop(r)
  BY <1>1 DEF CheckStop, Place
<1>2. CASE ReadLine(r)
  <2>1. Head(input) \in Line /\ Tail(input) \in Seq(Line)
    BY <1>2 DEF ReadLine
  <2> QED
    BY <1>2, <2>1 DEF ReadLine, Line, Place
<1>3. CASE ReadNothing(r)
  BY <1>3 DEF ReadNothing, Place
<1>4. CASE StoppedReading(r)
  BY <1>4 DEF StoppedReading, Place
<1>5. CASE SkipLine(r)
  BY <1>5 DEF SkipLine, Place
<1>6. CASE MatchAbort(r)
  BY <1>6 DEF MatchAbort, Place
<1>7. CASE SetEvent(r)
  BY <1>7 DEF SetEvent, Place
<1>8. CASE Leave(r)
  BY <1>8 DEF Leave, Place
<1> QED
  BY <1>1, <1>2, <1>3, <1>4, <1>5, <1>6, <1>7, <1>8 DEF ReaderStep

LEMMA NextType ==
  ASSUME TypeOK, [Next]_vars
  PROVE  TypeOK'
<1>1. CASE Caller
  BY <1>1, CallerType
<1>2. ASSUME NEW r \in Reader, ReaderStep(r)
      PROVE  TypeOK'
  BY <1>2, ReaderType
<1>3. ASSUME NEW line \in Line, TypeLine(line)
      PROVE  TypeOK'
  BY <1>3, BoundAssumption DEF TypeLine, TypeOK, callerVars
<1>4. CASE EndInput
  BY <1>4 DEF EndInput, TypeOK, callerVars
<1>5. CASE UNCHANGED vars
  BY <1>5 DEF TypeOK, vars, callerVars, inputVars
<1> QED
  BY <1>1, <1>2, <1>3, <1>4, <1>5 DEF Next

\* Every reachable state of the listener is well typed.
THEOREM ListenerTypeCorrect == Spec => []TypeOK
<1>1. Init => TypeOK
  BY InitType
<1>2. TypeOK /\ [Next]_vars => TypeOK'
  BY NextType
<1> QED
  BY <1>1, <1>2, PTL DEF Spec

-----------------------------------------------------------------------------
(***************************************************************************)
(* The threads and the events.                                             *)
(***************************************************************************)

\* stop() has been called by whoever is joining in it.
Joining == stopping => restarted

\* The registered event is not one whose registration has ended.
Current == event \notin over

IInv == TypeOK /\ Joining /\ SingleReader /\ Current

LEMMA InitIInv == Init => IInv
  BY InitType DEF Init, IInv, Joining, SingleReader, Current, Alive

\* A thread's move keeps SingleReader if it neither comes to life nor the
\* field is changed.
LEMMA MoveKeepsReader ==
  ASSUME TypeOK, SingleReader, NEW r \in Reader, Alive(r),
         NEW p \in Place, reader' = [reader EXCEPT ![r] = p],
         UNCHANGED <<thread, restarted>>
  PROVE  SingleReader'
  BY DEF TypeOK, SingleReader, Alive

LEMMA StartKeepsReader ==
  ASSUME IInv, Start
  PROVE  SingleReader'
<1>1. CASE thread # NoReader /\ UNCHANGED <<thread, stop, reader>>
  BY <1>1 DEF IInv, Start, SingleReader, Alive
<1>2. CASE thread = NoReader
  <2>1. ~restarted => \A r \in Reader : ~Alive(r)
    BY <1>2, NobodyAssumption DEF IInv, SingleReader
  <2>2. CASE UNCHANGED <<thread, stop, reader>>
    BY <2>2 DEF IInv, Start, SingleReader, Alive
  <2>3. ASSUME NEW r \in Reader, Move(r, "unborn", "top"), thread' = r
        PROVE  SingleReader'
    BY <2>1, <2>3 DEF IInv, TypeOK, Start, Move, SingleReader, Alive
  <2> QED
    BY <1>2, <2>2, <2>3 DEF Start
<1> QED
  BY <1>1, <1>2 DEF Start

\* Whoever leaves before stop() was called is the thread the field names.
LEMMA LeaveKeepsReader ==
  ASSUME IInv, NEW r \in Reader, Leave(r)
  PROVE  SingleReader'
<1>1. Alive(r) /\ restarted' = restarted
  BY DEF Leave, Move, Alive
<1>2. ~restarted => \A t \in Reader : Alive(t) => t = r
  BY <1>1 DEF IInv, SingleReader
<1> QED
  BY <1>1, <1>2 DEF IInv, TypeOK, Leave, Move, SingleReader, Alive

LEMMA ReaderKeeps ==
  ASSUME IInv, NEW r \in Reader, ReaderStep(r)
  PROVE  Joining' /\ SingleReader' /\ Current'
<1>1. Joining' /\ Current'
  BY DEF IInv, Joining, Current, ReaderStep, CheckStop, ReadLine, ReadNothing,
         StoppedReading, SkipLine, MatchAbort, SetEvent, Leave, callerVars
<1>2. CASE Leave(r)
  BY <1>1, <1>2, LeaveKeepsReader
<1>3. CASE ~Leave(r)
  <2>1. UNCHANGED <<thread, restarted>>
    BY <1>3 DEF ReaderStep, CheckStop, ReadLine, ReadNothing, StoppedReading,
                SkipLine, MatchAbort, SetEvent, callerVars
  <2>2. Alive(r)
    BY <1>3 DEF ReaderStep, CheckStop, ReadLine, ReadNothing, StoppedReading,
                SkipLine, MatchAbort, SetEvent, Move, Alive, Line
  <2>3. \E p \in Place : reader' = [reader EXCEPT ![r] = p]
    <3>1. CASE ReadLine(r)
      <4>1. Head(input) \in Line
        BY <3>1 DEF IInv, TypeOK, ReadLine
      <4> QED
        BY <3>1, <4>1 DEF ReadLine, Move, Line, Place
    <3>2. CASE ~ReadLine(r)
      BY <1>3, <3>2 DEF ReaderStep, CheckStop, ReadNothing, StoppedReading,
                        SkipLine, MatchAbort, SetEvent, Move, Place
    <3> QED
      BY <3>1, <3>2
  <2> QED
    BY <1>1, <2>1, <2>2, <2>3, MoveKeepsReader DEF IInv
<1> QED
  BY <1>2, <1>3

LEMMA CallerKeeps ==
  ASSUME IInv, Caller
  PROVE  Joining' /\ SingleReader' /\ Current'
<1> USE DEF IInv, Joining, Current
<1>1. CASE Start
  BY <1>1, StartKeepsReader DEF Start
<1>2. CASE Stop
  BY <1>2, NobodyAssumption DEF Stop, Unregister, SingleReader, TypeOK
<1>3. CASE StopReturns
  BY <1>3 DEF StopReturns, SingleReader
<1>4. CASE ClearAbortEvent
  BY <1>4, NobodyAssumption DEF ClearAbortEvent, Unregister, SingleReader, Alive, TypeOK
<1>5. ASSUME NEW e \in Event, SetAbortEvent(e)
      PROVE  Joining' /\ SingleReader' /\ Current'
  BY <1>5 DEF SetAbortEvent, Unregister, SingleReader, Alive
<1> QED
  BY <1>1, <1>2, <1>3, <1>4, <1>5 DEF Caller

LEMMA NextIInv ==
  ASSUME IInv, [Next]_vars
  PROVE  IInv'
<1>1. TypeOK'
  BY NextType DEF IInv
<1>2. CASE Caller
  BY <1>1, <1>2, CallerKeeps DEF IInv
<1>3. ASSUME NEW r \in Reader, ReaderStep(r)
      PROVE  IInv'
  BY <1>1, <1>3, ReaderKeeps DEF IInv
<1>4. CASE UNCHANGED <<callerVars, reader>>
  BY <1>1, <1>4 DEF IInv, Joining, SingleReader, Current, Alive, callerVars
<1> QED
  BY <1>2, <1>3, <1>4 DEF Next, TypeLine, EndInput, vars

THEOREM IInvHolds == Spec => []IInv
<1>1. Init => IInv
  BY InitIInv
<1>2. IInv /\ [Next]_vars => IInv'
  BY NextIInv
<1> QED
  BY <1>1, <1>2, PTL DEF Spec

\* Until stop() is called no two threads read the input, and the listener's
\* field names the one that does (abort_listener.py, start and _run).
THEOREM SingleReaderHolds == Spec => []SingleReader
<1>1. IInv => SingleReader
  BY DEF IInv
<1> QED
  BY <1>1, IInvHolds, PTL

\* No thread, however old, sets an event whose registration has ended.
LEMMA StepIsNotLate ==
  ASSUME IInv, [Next]_vars
  PROVE  [\A e \in over : e \in fired' => e \in fired]_vars
<1>1. ASSUME NEW r \in Reader, SetEvent(r)
      PROVE  \A e \in over : e \in fired' => e \in fired
  BY <1>1 DEF SetEvent, IInv, Current
<1>2. CASE \A r \in Reader : ~SetEvent(r)
  <2>1. fired' = fired
    BY <1>2 DEF Next, Caller, Start, Stop, StopReturns, ClearAbortEvent,
                SetAbortEvent, ReaderStep, CheckStop, ReadLine, ReadNothing,
                StoppedReading, SkipLine, MatchAbort, Leave, TypeLine, EndInput,
                vars
  <2> QED
    BY <2>1
<1> QED
  BY <1>1, <1>2

\* A deployment that is over is never aborted, whatever lines its time has left
\* in the threads (abort_listener.py, set_abort_event, clear_abort_event, stop).
THEOREM NoLateAbortHolds == Spec => NoLateAbort
<1>1. IInv /\ [Next]_vars => [\A e \in over : e \in fired' => e \in fired]_vars
  BY StepIsNotLate
<1> QED
  BY <1>1, IInvHolds, PTL DEF Spec, NoLateAbort

=============================================================================
