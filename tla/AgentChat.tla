------------------------------ MODULE AgentChat ------------------------------
(***************************************************************************)
(* One conversation with the assistant: useAgentStream.ts and the controls *)
(* of AgentPanel.tsx.  A message is its role, the turns its tokens came    *)
(* from and the session it belongs to; the service (external) streams the  *)
(* events of a turn in order and keeps each session's log.                 *)
(***************************************************************************)
EXTENDS Naturals, Sequences, SequencesExt

CONSTANTS
    Sessions, NoSession,
    MaxTurns, MaxChatEvents, MaxOpens

ASSUME ChatAssumption ==
    NoSession \notin Sessions /\ {MaxTurns, MaxChatEvents, MaxOpens} \subseteq Nat

VARIABLES
    chat,           \* messages
    sessionId,
    isStreaming, turn,
    reply,          \* the stream under way: its session and turn, what it sent
    logs,           \* the service: messages of each session
    histories,      \* session logs asked for and not yet answered
    opens, chatEvents,
    raced           \* history: a prompt was sent before a conversation had been loaded

chatVars == <<chat, sessionId, isStreaming, turn, reply, logs, histories, opens, chatEvents,
              raced>>

NoReply == [session |-> NoSession, turn |-> 0]
Message(role, t, s, open) == [role |-> role, turns |-> {t}, session |-> s, streaming |-> open]

ChatInit ==
    /\ chat = <<>> /\ sessionId = NoSession /\ isStreaming = FALSE /\ turn = 0
    /\ reply = NoReply /\ logs = [s \in Sessions |-> <<>>]
    /\ histories = {} /\ opens = 0 /\ chatEvents = 0 /\ raced = FALSE

\* finally: nothing is in flight any more.
Settle(ms) == [i \in DOMAIN ms |-> [ms[i] EXCEPT !.streaming = FALSE]]

\* reduce
Grow(ms, role, t, s) ==
    IF ms # <<>> /\ Last(ms).streaming /\ Last(ms).role = role
    THEN [ms EXCEPT ![Len(ms)].turns = @ \cup {t}]
    ELSE Append(ms, Message(role, t, s, TRUE))
Commit(ms, t, s) ==
    IF ms # <<>> /\ Last(ms).streaming /\ Last(ms).role = "assistant"
    THEN [ms EXCEPT ![Len(ms)] = Message("assistant", t, s, FALSE)]
    ELSE Append(ms, Message("assistant", t, s, FALSE))
-----------------------------------------------------------------------------
\* send: the prompt appears at once; the request names the session, and the
\* first event of a new one brings its id.
send ==
    /\ ~isStreaming /\ turn < MaxTurns
    /\ turn' = turn + 1 /\ isStreaming' = TRUE
    /\ \E s \in Sessions :
         /\ IF sessionId = NoSession THEN logs[s] = <<>> ELSE s = sessionId
         /\ reply' = [session |-> s, turn |-> turn + 1]
         /\ chat' = Append(chat, Message("user", turn + 1, s, FALSE))
         /\ logs' = [logs EXCEPT ![s] = Append(@, Message("user", turn + 1, s, FALSE))]
    /\ raced' = (raced \/ histories # {})
    /\ UNCHANGED <<sessionId, histories, opens, chatEvents>>

\* One event of the stream, through apply.
Event(ms, l) ==
    /\ reply # NoReply /\ chatEvents < MaxChatEvents /\ chatEvents' = chatEvents + 1
    /\ sessionId' = reply.session
    /\ chat' = ms /\ logs' = [logs EXCEPT ![reply.session] = l]
    /\ UNCHANGED <<isStreaming, turn, reply, histories, opens, raced>>
Delta == \E role \in {"assistant", "reasoning"} :
    Event(Grow(chat, role, reply.turn, reply.session), logs[reply.session])
TextEvent ==
    Event(Commit(chat, reply.turn, reply.session),
          Append(logs[reply.session], Message("assistant", reply.turn, reply.session, FALSE)))

\* The end of the stream, an error of it, or the AbortError of a stopped one.
ChatStreamEnds ==
    /\ isStreaming
    /\ isStreaming' = FALSE /\ reply' = NoReply /\ chat' = Settle(chat)
    /\ UNCHANGED <<sessionId, turn, logs, histories, opens, chatEvents, raced>>

\* openSession and startNewSession abort the stream first.
Abort == reply' = NoReply
NoAbort == UNCHANGED reply
AbortRead == Abort
openSession(s) ==
    /\ opens < MaxOpens /\ opens' = opens + 1 /\ logs[s] # <<>>
    /\ AbortRead
    /\ sessionId' = s /\ chat' = <<>>
    /\ histories' = histories \cup {[session |-> s, n |-> opens + 1, events |-> <<>>]}
    /\ UNCHANGED <<isStreaming, turn, logs, chatEvents, raced>>
startNewSession ==
    /\ opens < MaxOpens /\ opens' = opens + 1
    /\ AbortRead
    /\ sessionId' = NoSession /\ chat' = <<>>
    /\ UNCHANGED <<isStreaming, turn, logs, histories, chatEvents, raced>>
\* The service reads the log; the answer then replaces what is shown.
HistoryRead(h) ==
    /\ h \in histories /\ h.events = <<>>
    /\ histories' = (histories \ {h}) \cup {[h EXCEPT !.events = logs[h.session]]}
    /\ UNCHANGED <<chat, sessionId, isStreaming, turn, reply, logs, opens, chatEvents, raced>>
HistoryAnswer(h, ok) ==
    /\ h \in histories /\ h.events # <<>> /\ histories' = histories \ {h}
    /\ chat' = IF ok THEN h.events ELSE chat
    /\ UNCHANGED <<sessionId, isStreaming, turn, reply, logs, opens, chatEvents, raced>>
stop ==
    /\ isStreaming /\ reply # NoReply /\ reply' = NoReply
    /\ UNCHANGED <<chat, sessionId, isStreaming, turn, logs, histories, opens, chatEvents, raced>>

ChatNext ==
    \/ send
    \/ Delta
    \/ TextEvent
    \/ ChatStreamEnds
    \/ \E s \in Sessions : openSession(s)
    \/ startNewSession
    \/ \E h \in histories : HistoryRead(h)
    \/ \E h \in histories, ok \in BOOLEAN : HistoryAnswer(h, ok)
    \/ stop
-----------------------------------------------------------------------------
\* Every piece of an answer stands below the prompt it answers, whatever was
\* stopped, opened or begun anew meanwhile; the exception is a prompt sent while
\* the log of its conversation was still being loaded, which wipes it.
PromptFirst ==
    ~raced =>
        \A i \in DOMAIN chat : chat[i].role # "user" =>
            \E j \in 1 .. i - 1 : chat[j].role = "user" /\ chat[j].turns = chat[i].turns

\* Opening another conversation ends the stream of the one left: no event of it
\* reaches the messages, or moves the panel back to that session.
LeftForGood ==
    [][(\E s \in Sessions : sessionId' = s /\ sessionId # s) =>
         (reply # NoReply /\ sessionId' = reply.session /\ sessionId = NoSession)
            \/ opens' > opens]_chatVars

\* "A reopened conversation looks like the one that was left": once every answer
\* is in, the messages shown are those of the session the panel names.
HistoryOfSession ==
    histories = {} /\ sessionId # NoSession =>
        \A i \in DOMAIN chat : chat[i].session = sessionId
=============================================================================
