------------------------------ MODULE RunStream ------------------------------
(***************************************************************************)
(* entities/run/hooks/useDbtRunStream.ts: the log stream of a project's    *)
(* dbt command.  activeStreams lives outside the component, so a stream    *)
(* goes on when the IDE is left, and what arrives meanwhile is kept to be  *)
(* replayed.  The callbacks are those of DevelopLayout.                    *)
(*                                                                         *)
(* Messages are numbered in the order the browser receives them.           *)
(***************************************************************************)
EXTENDS Naturals, Sequences, FiniteSets, SequencesExt

CONSTANTS
    MaxMessages,    \* messages of all streams
    MaxMounts,      \* how often the IDE is opened
    MaxBackground   \* backgroundMessages, 5000 in the code

ASSUME StreamAssumption ==
    {MaxMessages, MaxMounts, MaxBackground} \subseteq Nat /\ MaxBackground > 0

VARIABLES
    mounted,
    me,             \* the mounted (or last) instance of the hook
    attached,       \* its effect found a stream, so its clean-up detaches it
    listeners,      \* instances in the listeners of the current stream
    conn,           \* "none", "connecting", "connected" or "ended"
    background,     \* backgroundMessages
    received,       \* messages received so far
    first,          \* ghost: the first message of the current stream
    shown,          \* the messages the terminal has shown
    commandInFlight \* commandInFlightRef and isCommandRunning

streamVars == <<mounted, me, attached, listeners, conn, background, received, first, shown,
                commandInFlight>>

StreamInit ==
    /\ mounted = TRUE /\ me = 1 /\ attached = FALSE /\ listeners = {}
    /\ conn = "none" /\ background = <<>> /\ received = 0 /\ first = 1 /\ shown = <<>>
    /\ commandInFlight = FALSE

Running == conn \in {"connecting", "connected"}
Heard == mounted /\ me \in listeners

\* What a message does to the slot: onCommandStart, onCommandComplete, onError.
SlotAfter(kind, slot) ==
    CASE kind = "started" -> TRUE
      [] kind \in {"completed", "error"} -> FALSE
      [] OTHER -> slot

\* sendCommand: the previous stream is aborted and its listeners inherited.
SendCommand ==
    /\ conn' = "connecting"
    /\ listeners' = listeners \cup {me}
    /\ background' = <<>>
    /\ first' = received + 1
    /\ commandInFlight' = TRUE
    /\ UNCHANGED <<mounted, me, attached, received, shown>>

\* The same by a handler of an instance that is gone: its listener is null, and
\* the status effect of the page now open claims the slot if it hears of it.
SendUnheard ==
    /\ conn' = "connecting"
    /\ background' = <<>>
    /\ first' = received + 1
    /\ commandInFlight' = (commandInFlight \/ Heard)
    /\ UNCHANGED <<mounted, me, attached, listeners, received, shown>>

\* The response headers arrive; the status effect claims the slot again.
Accepted ==
    /\ conn = "connecting"
    /\ conn' = "connected"
    /\ commandInFlight' = IF Heard THEN TRUE ELSE commandInFlight
    /\ UNCHANGED <<mounted, me, attached, listeners, background, received, first, shown>>

\* emitMessage.  A listener of an instance that is gone hears it in vain.
Message(kind) ==
    LET m == [n |-> received + 1, kind |-> kind]
    IN  /\ received < MaxMessages
        /\ received' = received + 1
        /\ IF listeners = {}
           THEN /\ background' = IF Len(background) = MaxBackground
                                 THEN Append(Tail(background), m) ELSE Append(background, m)
                /\ UNCHANGED <<shown, commandInFlight>>
           ELSE /\ shown' = IF Heard THEN Append(shown, m.n) ELSE shown
                /\ commandInFlight' = IF Heard THEN SlotAfter(kind, commandInFlight)
                                      ELSE commandInFlight
                /\ UNCHANGED background

Receive(kind) ==
    /\ conn = "connected" /\ kind \in {"started", "output", "completed"}
    /\ Message(kind)
    /\ UNCHANGED <<mounted, me, attached, listeners, conn, first>>

\* A refusal, or a connection that breaks: an error message, then the end.
Fail ==
    /\ Running
    /\ conn' = "ended"
    /\ Message("error")
    /\ UNCHANGED <<mounted, me, attached, listeners, first>>

\* The reader is done.
EndOfStream ==
    /\ conn = "connected"
    /\ conn' = "ended"
    /\ UNCHANGED <<mounted, me, attached, listeners, background, received, first, shown,
                   commandInFlight>>

\* The IDE is left.  Only an effect that found a stream returned the clean-up
\* that removes the listener.
Detach == IF attached THEN listeners \ {me} ELSE listeners

Unmount ==
    /\ mounted
    /\ mounted' = FALSE
    /\ listeners' = Detach
    /\ UNCHANGED <<me, attached, conn, background, received, first, shown, commandInFlight>>

\* The IDE is opened again: the hook's effect attaches and replays, then the
\* effect of DevelopLayout claims the slot while the stream is up.
\* Of the messages replayed, the last that is not output decides on the slot.
Replay(slot) ==
    LET deciding == {i \in DOMAIN background : background[i].kind # "output"}
    IN  IF deciding = {} THEN slot ELSE SlotAfter(background[Max(deciding)].kind, slot)

MountKeepsBuffer ==
    /\ ~mounted /\ me < MaxMounts
    /\ mounted' = TRUE /\ me' = me + 1
    /\ attached' = (conn # "none")
    /\ listeners' = IF conn = "none" THEN listeners ELSE listeners \cup {me + 1}
    /\ shown' = shown \o [i \in DOMAIN background |-> background[i].n]
    /\ commandInFlight' = (Replay(FALSE) \/ Running)
    /\ UNCHANGED <<conn, received, first, background>>

Mount ==
    /\ ~mounted /\ me < MaxMounts
    /\ mounted' = TRUE /\ me' = me + 1
    /\ attached' = (conn # "none")
    /\ listeners' = IF conn = "none" THEN listeners ELSE listeners \cup {me + 1}
    /\ shown' = shown \o [i \in DOMAIN background |-> background[i].n]
    /\ background' = <<>>
    /\ commandInFlight' = (Replay(FALSE) \/ Running)
    /\ UNCHANGED <<conn, received, first>>

StreamStep ==
    \/ Accepted
    \/ \E kind \in {"started", "output", "completed"} : Receive(kind)
    \/ Fail
    \/ EndOfStream
    \/ Unmount
    \/ Mount
-----------------------------------------------------------------------------
\* The terminal shows the messages in the order they came, none twice, over
\* every leaving and opening of the IDE.
ShownInOrder ==
    \A i, j \in DOMAIN shown : i < j => shown[i] < shown[j]

\* useDbtRunStream.ts: messages received while the IDE is unmounted are
\* replayed when it mounts again.  Once mounted, with nothing left to replay,
\* every message of the current stream has been shown.
NothingMissed ==
    mounted /\ background = <<>> => \A n \in first .. received : n \in ToSet(shown)
=============================================================================
