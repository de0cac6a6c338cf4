------------------------------ MODULE IdeProofs ------------------------------
(***************************************************************************)
(* Proofs about the parts of the IDE page, for every value of their        *)
(* constants.  Each part has its inductive invariant, kept by its own      *)
(* steps; the composition MCIde takes no others.                           *)
(***************************************************************************)
EXTENDS MCIde, SequenceTheorems, FiniteSetTheorems, TLAPS

\* A step of the page is a step of each of its parts, or leaves it as it was.
LEMMA IdeSteps ==
    [Next]_vars =>
        /\ [BufferNext]_bufferVars /\ [TreeNext]_treeVars /\ [SearchNext]_searchVars
        /\ [WatcherNext]_watcherVars /\ [ConsoleNext]_consoleVars
        /\ [OptionsNext]_optionsVars /\ [DialogsNext]_dialogVars /\ [GitNext]_gitVars
BY DEF Next, Turn, vars

-----------------------------------------------------------------------------
(* The search box.                                                         *)

\* An effect that is not cancelled searches for what is in the box.
SearchInv ==
    \A e \in effects : /\ DOMAIN e = {"q", "n", "at", "cancelled"}
                       /\ e.cancelled \/ e.q = query

\* A late answer changes nothing.
SearchStep == [results' # results => results' \in {query', ""}]_searchVars

\* Every step keeps the invariant.
LEMMA SearchStepInv == SearchInv /\ [SearchNext]_searchVars => SearchInv'
<1> SUFFICES ASSUME SearchInv, [SearchNext]_searchVars PROVE SearchInv'
  OBVIOUS
<1>1. ASSUME NEW q \in Queries \cup {""}, TypeQuery(q) PROVE SearchInv'
  <2>1. PICK old, new :
          /\ old = {[e EXCEPT !.cancelled = TRUE] : e \in {f \in effects : f.at = "sent"}}
          /\ new = [q |-> q, n |-> typed, at |-> "timer", cancelled |-> FALSE]
    OBVIOUS
  <2>2. query' = q /\ effects' \subseteq old \cup {new}
    BY <1>1, <2>1 DEF TypeQuery
  <2>3. DOMAIN new = {"q", "n", "at", "cancelled"} /\ new.q = q
    BY <2>1
  <2>4. \A e \in old : DOMAIN e = {"q", "n", "at", "cancelled"} /\ e.cancelled
    BY <2>1 DEF SearchInv
  <2>5. QED
    BY <2>2, <2>3, <2>4 DEF SearchInv
<1>2. ASSUME NEW e \in effects, SearchStart(e) PROVE SearchInv'
  BY <1>2 DEF SearchStart, SearchInv
<1>3. ASSUME NEW e \in effects, NEW ok \in BOOLEAN, SearchAnswer(e, ok) PROVE SearchInv'
  BY <1>3 DEF SearchAnswer, SearchInv
<1>4. CASE UNCHANGED searchVars
  BY <1>4 DEF searchVars, SearchInv
<1>5. QED
  BY <1>1, <1>2, <1>3, <1>4 DEF SearchNext

\* Results change to those of the query in the box, or to none.
LEMMA SearchStepCurrent == SearchInv /\ [SearchNext]_searchVars => SearchStep
BY DEF SearchInv, SearchNext, SearchStep, TypeQuery, SearchStart, SearchAnswer, searchVars

\* For any queries and any order of the answers: the answer of a query that was
\* replaced, or of a box that was emptied, is dropped.
THEOREM SearchCurrent == Spec => LateResultsDropped
<1>1. Init => SearchInv
  BY DEF Init, SearchInit, SearchInv
<1>2. Spec => [][SearchStep]_searchVars
  BY <1>1, SearchStepInv, SearchStepCurrent, IdeSteps, PTL DEF Spec
<1>3. [SearchStep]_searchVars => [results' # results => results' \in {query', ""}]_searchVars
  BY DEF SearchStep
<1>4. QED
  BY <1>2, <1>3, PTL DEF LateResultsDropped

-----------------------------------------------------------------------------
(* The log stream.                                                         *)

Notes == [n : Nat, kind : {"started", "output", "completed", "error"}]
Increasing(s) == \A i, j \in 1 .. Len(s) : i < j => s[i] < s[j]
Ordered(b) == \A i, j \in 1 .. Len(b) : i < j => b[i].n < b[j].n
SeenUpTo(s, n) == \A i \in 1 .. Len(s) : s[i] <= n
Waiting(b, n) == \A i \in 1 .. Len(b) : b[i].n <= n
Later(s, b) == \A i \in 1 .. Len(s), j \in 1 .. Len(b) : s[i] < b[j].n

\* What waits to be replayed came after what was shown, and nothing waits while the
\* terminal hears the stream.
OrderInv ==
    /\ received \in Nat /\ me \in Nat /\ mounted \in BOOLEAN
    /\ shown \in Seq(Nat) /\ Increasing(shown)
    /\ background \in Seq(Notes) /\ Ordered(background)
    /\ SeenUpTo(shown, received) /\ Waiting(background, received) /\ Later(shown, background)
    /\ Heard => background = <<>>

\* Init establishes it.
LEMMA OrderInit == StreamInit => OrderInv
BY DEF StreamInit, OrderInv, Heard, Increasing, Ordered, SeenUpTo, Waiting, Later

\* One more message, greater than all before.
LEMMA AppendGreater ==
    ASSUME NEW s \in Seq(Nat), Increasing(s), NEW n \in Nat, SeenUpTo(s, n)
    PROVE  Append(s, n + 1) \in Seq(Nat) /\ Increasing(Append(s, n + 1))
           /\ SeenUpTo(Append(s, n + 1), n + 1)
<1>0. PICK w : w = Append(s, n + 1)
  OBVIOUS
<1>1. /\ w \in Seq(Nat) /\ Len(w) = Len(s) + 1 /\ Len(s) \in Nat
      /\ \A i \in 1 .. Len(s) : w[i] = s[i] /\ s[i] \in Nat /\ s[i] <= n
      /\ w[Len(s) + 1] = n + 1
  BY <1>0, AppendProperties, LenProperties, ElementOfSeq DEF SeenUpTo
<1>2. ASSUME NEW i \in 1 .. Len(s) + 1, NEW j \in 1 .. Len(s) + 1, i < j PROVE w[i] < w[j]
  <2>1. i \in 1 .. Len(s)
    BY <1>1, <1>2
  <2>2. CASE j \in 1 .. Len(s)
    BY <1>1, <1>2, <2>1, <2>2 DEF Increasing
  <2>3. CASE j = Len(s) + 1
    BY SMTT(30), <1>1, <2>1, <2>3
  <2>4. QED
    BY <1>1, <2>2, <2>3
<1>3. QED
  BY <1>0, <1>1, <1>2 DEF Increasing, SeenUpTo

\* A message that waits: the oldest of a full buffer goes.
LEMMA BufferMessage ==
    ASSUME NEW b \in Seq(Notes), NEW n \in Nat, NEW m \in Notes, m.n = n + 1, NEW c, NEW s,
           Ordered(b), Waiting(b, n), c = b \/ (b # <<>> /\ c = Tail(b)),
           s \in Seq(Nat), SeenUpTo(s, n), Later(s, b)
    PROVE  /\ Append(c, m) \in Seq(Notes) /\ Ordered(Append(c, m))
           /\ Waiting(Append(c, m), n + 1) /\ Later(s, Append(c, m)) /\ SeenUpTo(s, n + 1)
<1>1. PICK d \in {0, 1} :
         /\ c \in Seq(Notes) /\ Len(c) \in Nat
         /\ \A i \in 1 .. Len(c) : i + d \in 1 .. Len(b) /\ c[i] = b[i + d]
  <2>1. CASE c = b
    BY <2>1, LenProperties
  <2>2. CASE b # <<>> /\ c = Tail(b)
    BY <2>2, HeadTailProperties, LenProperties, EmptySeq
  <2>3. QED
    BY <2>1, <2>2
<1>2. PICK w : w = Append(c, m)
  OBVIOUS
<1>3. /\ w \in Seq(Notes) /\ Len(w) = Len(c) + 1
      /\ \A i \in 1 .. Len(c) : w[i] = c[i] /\ c[i] \in Notes
      /\ w[Len(c) + 1] = m
  BY <1>1, <1>2, AppendProperties, ElementOfSeq
<1>4. \A i \in 1 .. Len(c) : w[i] = b[i + d] /\ w[i].n \in Nat /\ w[i].n <= n
                             /\ i + d \in 1 .. Len(b)
  BY <1>1, <1>3 DEF Notes, Waiting
<1>5. \A i \in 1 .. Len(w) : i \in 1 .. Len(c) \/ i = Len(c) + 1
  BY <1>1, <1>3
<1>6. \A i \in 1 .. Len(s) : s[i] \in Nat /\ s[i] <= n
  BY ElementOfSeq DEF SeenUpTo
<1>7. Ordered(w)
  <2> SUFFICES ASSUME NEW i \in 1 .. Len(w), NEW j \in 1 .. Len(w), i < j
               PROVE  w[i].n < w[j].n
    BY DEF Ordered
  <2>1. i \in 1 .. Len(c)
    BY <1>1, <1>3
  <2>2. CASE j \in 1 .. Len(c)
    <3>1. i + d < j + d
      BY <2>1, <2>2
    <3>2. b[i + d].n < b[j + d].n
      BY <1>4, <2>1, <2>2, <3>1 DEF Ordered
    <3>3. QED
      BY <1>4, <2>1, <2>2, <3>2
  <2>3. CASE j = Len(c) + 1
    BY <1>3, <1>4, <2>1, <2>3
  <2>4. QED
    BY <1>5, <2>2, <2>3
<1>8. Waiting(w, n + 1)
  BY SMTT(30), <1>3, <1>4, <1>5 DEF Waiting
<1>9. Later(s, w)
  <2> SUFFICES ASSUME NEW i \in 1 .. Len(s), NEW j \in 1 .. Len(w) PROVE s[i] < w[j].n
    BY DEF Later
  <2>1. CASE j \in 1 .. Len(c)
    BY <1>4, <2>1 DEF Later
  <2>2. CASE j = Len(c) + 1
    BY <1>3, <1>6, <2>2
  <2>3. QED
    BY <1>5, <2>1, <2>2
<1>10. QED
  BY <1>2, <1>3, <1>6, <1>7, <1>8, <1>9 DEF SeenUpTo

\* A message is shown, waits, or is heard in vain.
LEMMA MessageOrder ==
    ASSUME OrderInv, NEW kind \in {"started", "output", "completed", "error"}, Message(kind),
           UNCHANGED <<mounted, me, listeners>>
    PROVE  OrderInv'
<1>1. PICK m, n, b, s :
         /\ m = [n |-> received + 1, kind |-> kind] /\ n = received /\ b = background /\ s = shown
  OBVIOUS
<1>2. /\ received' = n + 1 /\ n \in Nat /\ m.n = n + 1 /\ m \in Notes /\ b \in Seq(Notes)
      /\ s \in Seq(Nat) /\ Increasing(s) /\ SeenUpTo(s, n) /\ Ordered(b) /\ Waiting(b, n)
      /\ Later(s, b) /\ Heard' = Heard
  BY <1>1 DEF Message, OrderInv, Notes, Heard
<1>3. CASE listeners = {}
  <2>1. /\ background' = IF Len(b) = MaxBackground THEN Append(Tail(b), m) ELSE Append(b, m)
        /\ shown' = s /\ ~Heard
    BY <1>1, <1>3 DEF Message, Heard
  <2>2. Len(b) = MaxBackground => b # <<>>
    BY StreamAssumption
  <2>3. PICK c : background' = Append(c, m) /\ (c = b \/ (b # <<>> /\ c = Tail(b)))
    BY <2>1, <2>2
  <2>4. PICK w : w = Append(c, m)
    OBVIOUS
  <2>5. w \in Seq(Notes) /\ Ordered(w) /\ Waiting(w, n + 1) /\ Later(s, w) /\ SeenUpTo(s, n + 1)
    BY <1>2, <2>3, <2>4, BufferMessage
  <2>6. background' = w
    BY <2>3, <2>4
  <2>7. Ordered(background)' /\ Waiting(background, received)' /\ Later(shown, background)'
        /\ SeenUpTo(shown, received)'
    BY <1>2, <2>1, <2>5, <2>6 DEF Ordered, Waiting, Later, SeenUpTo
  <2>8. Increasing(shown)'
    BY <1>2, <2>1 DEF Increasing
  <2>9. ~Heard' /\ me' \in Nat /\ mounted' \in BOOLEAN
    BY <2>1 DEF OrderInv, Heard
  <2>10. received' \in Nat
    BY <1>2
  <2>11. shown' \in Seq(Nat) /\ background' \in Seq(Notes)
    BY <1>2, <2>1, <2>5, <2>6
  <2>12. QED
    BY <2>7, <2>8, <2>9, <2>10, <2>11 DEF OrderInv
<1>4. CASE listeners # {} /\ Heard
  <2>1. shown' = Append(s, n + 1) /\ background' = <<>>
    BY <1>1, <1>2, <1>4 DEF Message, OrderInv
  <2>2. PICK w : w = Append(s, n + 1)
    OBVIOUS
  <2>3. w \in Seq(Nat) /\ Increasing(w) /\ SeenUpTo(w, n + 1)
    BY <1>2, <2>2, AppendGreater
  <2>4. QED
    BY SMTT(30), <1>2, <2>1, <2>2, <2>3 DEF OrderInv, Increasing, Ordered, Waiting, Later, SeenUpTo
<1>5. CASE listeners # {} /\ ~Heard
  <2>1. shown' = s /\ background' = b
    BY <1>1, <1>5 DEF Message
  <2>2. /\ \A i \in 1 .. Len(s) : s[i] \in Nat /\ s[i] <= n
        /\ \A i \in 1 .. Len(b) : b[i] \in Notes /\ b[i].n <= n
    BY <1>2, ElementOfSeq DEF SeenUpTo, Waiting
  <2>3. SeenUpTo(s, n + 1) /\ Waiting(b, n + 1)
    BY SMTT(30), <1>2, <2>2 DEF SeenUpTo, Waiting, Notes
  <2>4. QED
    BY <1>2, <1>5, <2>1, <2>3 DEF OrderInv, Increasing, Ordered, Waiting, Later, SeenUpTo
<1>6. QED
  BY <1>3, <1>4, <1>5

\* The messages that wait are shown after those already shown.
LEMMA ReplayInOrder ==
    ASSUME NEW s \in Seq(Nat), Increasing(s), NEW b \in Seq(Notes), NEW n \in Nat, NEW w,
           Ordered(b), SeenUpTo(s, n), Waiting(b, n), Later(s, b),
           w = s \o [i \in DOMAIN b |-> b[i].n]
    PROVE  w \in Seq(Nat) /\ Increasing(w) /\ SeenUpTo(w, n)
<1>1. PICK t : t = [i \in DOMAIN b |-> b[i].n]
  OBVIOUS
<1>2. DOMAIN b = 1 .. Len(b) /\ Len(b) \in Nat /\ Len(s) \in Nat
  BY LenProperties
<1>3. /\ \A i \in 1 .. Len(b) : b[i] \in Notes
      /\ \A i \in 1 .. Len(s) : s[i] \in Nat
  BY ElementOfSeq
<1>4. \A i \in 1 .. Len(b) : t[i] = b[i].n /\ t[i] \in Nat
  BY <1>1, <1>2, <1>3 DEF Notes
<1>5. t \in Seq(Nat) /\ Len(t) = Len(b)
  <2>1. t \in [1 .. Len(b) -> Nat]
    BY <1>1, <1>2, <1>4
  <2>2. t \in Seq(Nat)
    BY SMTT(30), <1>2, <2>1
  <2>3. QED
    BY <1>2, <2>1, <2>2
<1>6. /\ w \in Seq(Nat) /\ Len(w) = Len(s) + Len(b)
      /\ \A i \in 1 .. Len(s) + Len(b) :
            w[i] = IF i <= Len(s) THEN s[i] ELSE t[i - Len(s)]
  <2>1. w = s \o t
    BY <1>1
  <2>2. /\ s \o t \in Seq(Nat) /\ Len(s \o t) = Len(s) + Len(t)
        /\ \A i \in 1 .. Len(s) + Len(t) :
              (s \o t)[i] = IF i <= Len(s) THEN s[i] ELSE t[i - Len(s)]
    BY <1>5, ConcatProperties
  <2>3. QED
    BY <1>5, <2>1, <2>2
<1>7. ASSUME NEW i \in 1 .. Len(w)
      PROVE  \/ i \in 1 .. Len(s) /\ w[i] = s[i]
             \/ i - Len(s) \in 1 .. Len(b) /\ w[i] = b[i - Len(s)].n /\ ~(i \in 1 .. Len(s))
  BY <1>2, <1>4, <1>6
<1>8. Increasing(w)
  <2> SUFFICES ASSUME NEW i \in 1 .. Len(w), NEW j \in 1 .. Len(w), i < j PROVE w[i] < w[j]
    BY DEF Increasing
  <2>1. CASE i \in 1 .. Len(s) /\ j \in 1 .. Len(s)
    BY <1>7, <2>1 DEF Increasing
  <2>2. CASE i \in 1 .. Len(s) /\ ~(j \in 1 .. Len(s))
    <3>1. w[i] = s[i] /\ j - Len(s) \in 1 .. Len(b) /\ w[j] = b[j - Len(s)].n
      BY <1>7, <2>2
    <3>2. QED
      BY <2>2, <3>1 DEF Later
  <2>3. CASE ~(i \in 1 .. Len(s))
    <3>1. ~(j \in 1 .. Len(s)) /\ i - Len(s) < j - Len(s)
      BY <1>2, <2>3
    <3>2. /\ i - Len(s) \in 1 .. Len(b) /\ w[i] = b[i - Len(s)].n
          /\ j - Len(s) \in 1 .. Len(b) /\ w[j] = b[j - Len(s)].n
      BY <1>7, <2>3, <3>1
    <3>3. PICK k, l : k = i - Len(s) /\ l = j - Len(s)
      OBVIOUS
    <3>4. QED
      BY <3>1, <3>2, <3>3 DEF Ordered
  <2>4. QED
    BY <2>1, <2>2, <2>3
<1>9. SeenUpTo(w, n)
  BY <1>7 DEF SeenUpTo, Waiting
<1>10. QED
  BY <1>6, <1>8, <1>9

\* The IDE is opened: what waited is shown, and nothing waits.
LEMMA MountOrder == ASSUME OrderInv, Mount PROVE OrderInv'
<1>1. PICK s, b, n, w : /\ s = shown /\ b = background /\ n = received
                        /\ w = s \o [i \in DOMAIN b |-> b[i].n]
  OBVIOUS
<1>2. /\ shown' = w /\ background' = <<>> /\ received' = n /\ mounted' = TRUE /\ me' = me + 1
      /\ n \in Nat /\ me \in Nat /\ s \in Seq(Nat) /\ b \in Seq(Notes) /\ Increasing(s)
      /\ Ordered(b) /\ SeenUpTo(s, n) /\ Waiting(b, n) /\ Later(s, b)
  BY <1>1 DEF Mount, OrderInv
<1>3. w \in Seq(Nat) /\ Increasing(w) /\ SeenUpTo(w, n)
  BY <1>1, <1>2, ReplayInOrder
<1>4. QED
  BY <1>2, <1>3 DEF OrderInv, Increasing, Ordered, Waiting, Later, SeenUpTo

\* Steps that show nothing and leave what waits, or drop it.
LEMMA QuietOrder ==
    ASSUME OrderInv, UNCHANGED <<received, shown, me>>, mounted' \in {mounted, FALSE},
           background' = <<>> \/ (UNCHANGED background /\ (mounted' => listeners' = listeners))
    PROVE  OrderInv'
<1>1. Increasing(shown)' /\ SeenUpTo(shown, received)'
  BY DEF OrderInv, Increasing, SeenUpTo
<1>2. CASE background' = <<>>
  <2>1. background' \in Seq(Notes) /\ Ordered(background)' /\ Waiting(background, received)'
        /\ Later(shown, background)'
    BY <1>2 DEF Ordered, Waiting, Later
  <2>2. QED
    BY <1>1, <1>2, <2>1 DEF OrderInv
<1>3. CASE UNCHANGED background /\ (mounted' => listeners' = listeners)
  <2>1. background' \in Seq(Notes) /\ Ordered(background)' /\ Waiting(background, received)'
        /\ Later(shown, background)'
    BY <1>3 DEF OrderInv, Ordered, Waiting, Later
  <2>2. Heard' => background' = <<>>
    BY <1>3 DEF OrderInv, Heard
  <2>3. QED
    BY <1>1, <2>1, <2>2 DEF OrderInv
<1>4. QED
  BY <1>2, <1>3

\* Every step of the console keeps the order.
LEMMA OrderStep == OrderInv /\ [ConsoleNext]_consoleVars => OrderInv'
<1> SUFFICES ASSUME OrderInv, [ConsoleNext]_consoleVars PROVE OrderInv'
  OBVIOUS
<1>1. SendCommand \/ SendUnheard => OrderInv'
  BY QuietOrder DEF SendCommand, SendUnheard, OrderInv
<1>2. UNCHANGED streamVars => OrderInv'
  BY QuietOrder DEF streamVars, OrderInv
<1>3. ASSUME NEW v, Slot(v) PROVE OrderInv'
  BY <1>3, QuietOrder DEF Slot, OrderInv
<1>4. StreamStep => OrderInv'
  <2>1. Accepted \/ EndOfStream \/ Unmount => OrderInv'
    BY QuietOrder DEF Accepted, EndOfStream, Unmount, OrderInv
  <2>2. Fail \/ (\E kind \in {"started", "output", "completed"} : Receive(kind)) => OrderInv'
    BY MessageOrder DEF Fail, Receive
  <2>3. QED
    BY <2>1, <2>2, MountOrder DEF StreamStep
<1>5. ASSUME NEW j, NEW rest, Launch(j, rest) PROVE OrderInv'
  BY <1>1, <1>2, <1>3, <1>5 DEF Launch
<1>6. ModelButtons => OrderInv'
  BY <1>2, <1>3, <1>5 DEF ModelButtons, handlePreviewModel, handleExplainModel,
     handleCompileModel, handleRunCurrentModel, Start, RunParse
<1>7. CommandMenu => OrderInv'
  BY <1>1, <1>3 DEF CommandMenu, RunDbt, CloneState
<1>8. ASSUME NEW t, Type(t) PROVE OrderInv'
  BY <1>2, <1>8 DEF Type
<1>9. ASSUME NEW j, NEW ok, SaveAnswer(j, ok) PROVE OrderInv'
  BY <1>2, <1>5, <1>9 DEF SaveAnswer
<1>10. ASSUME NEW j, NEW ok, Answer(j, ok) PROVE OrderInv'
  BY <1>2, <1>3, <1>10 DEF Answer
<1>11. ASSUME NEW ok, Cancel(ok) PROVE OrderInv'
  BY <1>2, <1>3, <1>11 DEF Cancel
<1>12. UNCHANGED consoleVars => OrderInv'
  BY <1>2 DEF consoleVars
<1>13. QED
  BY <1>4, <1>6, <1>7, <1>8, <1>9, <1>10, <1>11, <1>12 DEF ConsoleNext

\* For any number of messages and openings of the IDE, and any size of the buffer: the
\* terminal shows the messages in the order they came, none twice.
THEOREM TerminalInOrder == Spec => []ShownInOrder
<1>1. Init => OrderInv
  BY OrderInit DEF Init, ConsoleInit
<1>2. OrderInv => ShownInOrder
  BY LenProperties DEF OrderInv, Increasing, ShownInOrder
<1>3. QED
  BY <1>1, <1>2, OrderStep, IdeSteps, PTL DEF Spec

-----------------------------------------------------------------------------
(* The dbt commands.                                                       *)

\* A request that holds the slot of the page now open.
Holder(j) == j.at = "sent" /\ j.kind # "compile" /\ j.by = me
IsJob(j) == DOMAIN j = {"kind", "at", "text", "n", "by"}

\* What a request carries has been saved; before the first stream, a slot that is
\* taken is held by a request.
CommandInv ==
    /\ original \in acked /\ RunsOnSavedText /\ \A j \in jobs : IsJob(j)
    /\ conn = "none" =>
          /\ background = <<>>
          /\ mounted /\ commandInFlight => \E j \in jobs : Holder(j)

\* Init establishes it.
LEMMA CommandInit == ConsoleInit => CommandInv
BY DEF ConsoleInit, StreamInit, CommandInv, RunsOnSavedText

\* Steps of the stream.
LEMMA StreamCommand ==
    ASSUME CommandInv, StreamStep, UNCHANGED <<editorVars, jobs, keys>> PROVE CommandInv'
<1>1. UNCHANGED <<content, original, acked, jobs>> /\ RunsOnSavedText'
  BY DEF editorVars, CommandInv, RunsOnSavedText
<1>2. CASE conn' = "none"
  <2>1. conn = "none" /\ background = <<>>
    BY <1>2 DEF StreamStep, Accepted, Receive, Fail, EndOfStream, Unmount, Mount, Running, CommandInv
  <2>2. CASE Mount
    <3>1. ~commandInFlight' /\ background' = <<>>
      <4>1. {i \in DOMAIN background : background[i].kind # "output"} = {}
        BY <2>1
      <4>2. ~Replay(FALSE)
        BY <4>1 DEF Replay
      <4>3. QED
        BY <1>2, <2>1, <2>2, <4>2 DEF Mount, Running
    <3>2. QED
      BY <1>1, <3>1 DEF CommandInv, IsJob
  <2>3. CASE Unmount
    BY <1>1, <2>1, <2>3 DEF Unmount, CommandInv, IsJob
  <2>4. QED
    BY <2>1, <2>2, <2>3 DEF StreamStep, Accepted, Receive, Fail, EndOfStream, Running
<1>3. CASE conn' # "none"
  BY <1>1, <1>3 DEF CommandInv, IsJob
<1>4. QED
  BY <1>2, <1>3

\* The slot is taken or freed, or the stream is opened again.
LEMMA SlotSteps ==
    ASSUME CommandInv, NEW v \in BOOLEAN,
           Slot(v) \/ SendCommand \/ SendUnheard \/ UNCHANGED streamVars
    PROVE  /\ UNCHANGED <<mounted, me>>
           /\ conn' = "none" => /\ conn = "none" /\ background' = <<>>
                                /\ commandInFlight' => commandInFlight \/ (Slot(v) /\ v)
BY DEF Slot, SendCommand, SendUnheard, streamVars, CommandInv

\* What a handler does once its file is saved.
LEMMA LaunchCommand ==
    ASSUME CommandInv, NEW j, IsJob(j), NEW rest, rest \subseteq jobs, Launch(j, rest),
           \A h \in jobs : Holder(h) => h \in rest,
           acked \subseteq acked', j.text \in acked', original' \in acked'
    PROVE  CommandInv'
<1>1. PICK s : s = [j EXCEPT !.at = "sent"]
  OBVIOUS
<1>2. /\ IsJob(s) /\ s.at = "sent" /\ s.kind = j.kind /\ s.text = j.text /\ s.by = j.by
  BY <1>1 DEF IsJob
<1>3. jobs' = rest \/ (jobs' = rest \cup {s} /\ j.kind # "runModel")
  BY <1>1 DEF Launch
<1>4. RunsOnSavedText' /\ \A h \in jobs' : IsJob(h)
  BY <1>2, <1>3 DEF CommandInv, RunsOnSavedText
<1>5. \/ jobs' = rest \cup {s} /\ j.kind # "compile" /\ Mine(j) /\ Slot(TRUE)
      \/ SendCommand \/ SendUnheard \/ UNCHANGED streamVars
  BY <1>1 DEF Launch
<1>6. CASE conn' = "none"
  <2>1. /\ UNCHANGED <<mounted, me>> /\ conn = "none" /\ background' = <<>>
        /\ commandInFlight' => commandInFlight
                                 \/ (jobs' = rest \cup {s} /\ j.kind # "compile" /\ Mine(j))
    BY <1>5, <1>6, SlotSteps
  <2>2. ASSUME mounted', commandInFlight' PROVE \E h \in jobs' : Holder(h)'
    <3>1. CASE commandInFlight
      <4>1. PICK h \in jobs : Holder(h)
        BY <2>1, <2>2, <3>1 DEF CommandInv
      <4>2. QED
        BY <1>3, <2>1, <4>1 DEF Holder
    <3>2. CASE jobs' = rest \cup {s} /\ j.kind # "compile" /\ Mine(j)
      BY <1>2, <2>1, <3>2 DEF Holder, Mine
    <3>3. QED
      BY <2>1, <2>2, <3>1, <3>2
  <2>3. QED
    BY <1>4, <2>1, <2>2 DEF CommandInv, IsJob
<1>7. CASE conn' # "none"
  BY <1>4, <1>7 DEF CommandInv, IsJob
<1>8. QED
  BY <1>6, <1>7

\* The commands on the open model begin.
LEMMA StartCommand == ASSUME CommandInv, NEW kind, Start(kind) PROVE CommandInv'
<1>1. UNCHANGED <<content, original, acked>>
  BY DEF Start, editorVars
<1>2. CASE content = original
  <2>1. PICK j, rest : j = Job(kind, "sent", content) /\ rest = jobs
    OBVIOUS
  <2>2. IsJob(j) /\ j.text = content /\ Launch(j, rest)
    BY <1>2, <2>1 DEF Start, Job, IsJob
  <2>3. QED
    BY <1>1, <1>2, <2>1, <2>2, LaunchCommand DEF CommandInv
<1>3. CASE content # original
  <2>1. PICK j : j = Job(kind, "saving", content)
    OBVIOUS
  <2>2. IsJob(j) /\ j.at = "saving" /\ jobs' = jobs \cup {j} /\ UNCHANGED streamVars
    BY <1>3, <2>1 DEF Start, Job, IsJob
  <2>3. UNCHANGED <<conn, background, mounted, commandInFlight, me>>
    BY <2>2 DEF streamVars
  <2>4. QED
    BY <1>1, <2>2, <2>3 DEF CommandInv, RunsOnSavedText, IsJob, Holder
<1>4. QED
  BY <1>2, <1>3

\* Parse, clone and the commands of the menu.
LEMMA MenuCommand == ASSUME CommandInv, RunParse \/ CommandMenu PROVE CommandInv'
<1>1. UNCHANGED <<content, original, acked>>
  BY DEF RunParse, CommandMenu, RunDbt, CloneState, editorVars
<1>2. CASE RunParse \/ CloneState
  <2>1. PICK j : j \in {Job("parse", "sent", content), Job("clone", "sent", content)}
                 /\ jobs' = jobs \cup {j} /\ Slot(TRUE)
    BY <1>2 DEF RunParse, CloneState
  <2>2. IsJob(j) /\ j.at = "sent" /\ j.kind \in {"parse", "clone"} /\ j.by = me
    BY <2>1 DEF Job, IsJob
  <2>3. UNCHANGED <<mounted, me, conn, background>>
    BY <2>1 DEF Slot
  <2>4. RunsOnSavedText' /\ \A h \in jobs' : IsJob(h)
    BY <1>1, <2>1, <2>2 DEF CommandInv, RunsOnSavedText, Saving
  <2>5. \E h \in jobs' : Holder(h)'
    BY <2>1, <2>2, <2>3 DEF Holder
  <2>6. QED
    BY <1>1, <2>3, <2>4, <2>5 DEF CommandInv, IsJob
<1>3. CASE RunDbt
  BY <1>1, <1>3 DEF RunDbt, SendCommand, CommandInv, RunsOnSavedText, IsJob
<1>4. QED
  BY <1>2, <1>3 DEF CommandMenu

\* A save is answered.
LEMMA SavedCommand ==
    ASSUME CommandInv, NEW j \in jobs, NEW ok \in BOOLEAN, SaveAnswer(j, ok) PROVE CommandInv'
<1>1. PICK rest : rest = jobs \ {j}
  OBVIOUS
<1>2. IsJob(j) /\ j.at = "saving" /\ \A h \in jobs : Holder(h) => h \in rest
  BY <1>1 DEF SaveAnswer, CommandInv, Holder
<1>3. CASE ok
  <2>1. acked' = acked \cup {j.text} /\ Launch(j, rest) /\ original' \in {original, j.text}
    BY <1>1, <1>3 DEF SaveAnswer, TabSaved
  <2>2. QED
    BY <1>1, <1>2, <2>1, LaunchCommand DEF CommandInv
<1>4. CASE ~ok
  <2>1. /\ jobs' = rest /\ UNCHANGED <<content, original, acked>>
        /\ UNCHANGED <<conn, background, mounted, commandInFlight, me>>
    BY <1>1, <1>4 DEF SaveAnswer, editorVars, streamVars
  <2>2. QED
    BY <1>1, <1>2, <2>1 DEF CommandInv, RunsOnSavedText, IsJob, Holder
<1>5. QED
  BY <1>3, <1>4

\* A request is answered: it frees the slot it holds.
LEMMA AnsweredCommand ==
    ASSUME CommandInv, NEW j \in jobs, NEW ok, Answer(j, ok) PROVE CommandInv'
<1>1. /\ jobs' = jobs \ {j} /\ UNCHANGED <<content, original, acked>>
      /\ UNCHANGED <<conn, background, mounted, me>> /\ j.at = "sent"
  BY DEF Answer, Slot, editorVars, streamVars
<1>2. RunsOnSavedText' /\ \A h \in jobs' : IsJob(h)
  BY <1>1 DEF CommandInv, RunsOnSavedText
<1>3. CASE j.kind = "compile" \/ ~Mine(j)
  <2>1. mounted => ~Holder(j)
    BY <1>3 DEF Holder, Mine
  <2>2. UNCHANGED commandInFlight
    BY <1>3 DEF Answer, streamVars
  <2>3. QED
    BY <1>1, <1>2, <2>1, <2>2 DEF CommandInv, IsJob, Holder
<1>4. CASE ~(j.kind = "compile" \/ ~Mine(j))
  <2>1. ~commandInFlight'
    BY <1>4 DEF Answer, Slot
  <2>2. QED
    BY <1>1, <1>2, <2>1 DEF CommandInv, IsJob
<1>5. QED
  BY <1>3, <1>4

\* Every step keeps the invariant.
LEMMA CommandStep == CommandInv /\ [ConsoleNext]_consoleVars => CommandInv'
<1> SUFFICES ASSUME CommandInv, [ConsoleNext]_consoleVars PROVE CommandInv'
  OBVIOUS
<1>1. ASSUME NEW t, Type(t) PROVE CommandInv'
  BY <1>1 DEF Type, streamVars, CommandInv, RunsOnSavedText, IsJob, Holder
<1>2. ASSUME NEW ok, Cancel(ok) PROVE CommandInv'
  <2>1. /\ UNCHANGED <<content, original, acked, jobs>>
        /\ UNCHANGED <<conn, background, mounted, me>> /\ (commandInFlight' => commandInFlight)
    BY <1>2 DEF Cancel, Slot, editorVars, streamVars
  <2>2. QED
    BY <2>1 DEF CommandInv, RunsOnSavedText, IsJob, Holder
<1>3. CASE UNCHANGED consoleVars
  BY <1>3 DEF consoleVars, streamVars, CommandInv, RunsOnSavedText, IsJob, Holder
<1>4. ModelButtons => CommandInv'
  BY StartCommand, MenuCommand DEF ModelButtons, handlePreviewModel, handleExplainModel,
     handleCompileModel, handleRunCurrentModel
<1>5. QED
  BY <1>1, <1>2, <1>3, <1>4, MenuCommand, SavedCommand, AnsweredCommand, StreamCommand
     DEF ConsoleNext

\* For any texts and numbers of commands: no command runs on text that is not on
\* disk, and the slot does not leak, whichever request fails.
THEOREM CommandsAreSound == Spec => []CommandsSound
<1>1. Init => CommandInv
  BY CommandInit DEF Init
<1>2. CommandInv => CommandsSound
  BY DEF CommandInv, CommandsSound, SlotFreed
<1>3. QED
  BY <1>1, <1>2, CommandStep, IdeSteps, PTL DEF Spec

-----------------------------------------------------------------------------
(* The dialogs of the dbt commands.                                        *)

IsOptions(o) ==
    /\ DOMAIN o = {"vars", "empty", "sample", "start", "end", "full", "selector", "state",
                   "defer", "favor"}
    /\ o = [x \in DOMAIN o |-> o[x]]
    /\ o.start \in 0 .. 2 /\ o.end \in 0 .. 2

\* The dialog knows of a flag that the toolbar has, and so does what is stored.
OptionsInv ==
    /\ IsOptions(runOptions) /\ IsOptions(localOptions)
    /\ dialogOpen \in BOOLEAN /\ dbtFullRefresh \in BOOLEAN
    /\ stored = [options |-> runOptions, full |-> dbtFullRefresh]
    /\ runOptions.full = "unset" \/ dbtFullRefresh = (runOptions.full = "on")
    /\ dialogOpen /\ localOptions.full = "unset" => runOptions.full = "unset"
    /\ RequestConsistent /\ FullRefreshShown

\* A window has two ends.
LEMMA WindowCard == ASSUME NEW a \in 0 .. 2, NEW b \in 0 .. 2, a < b PROVE Cardinality({a, b}) # 1
<1>1. a # b /\ IsFiniteSet({a, b})
  <2>1. IsFiniteSet({b})
    BY FS_Singleton
  <2>2. {a, b} = {b} \cup {a}
    OBVIOUS
  <2>3. QED
    BY <2>1, <2>2, FS_AddElement
<1>2. ASSUME Cardinality({a, b}) = 1 PROVE FALSE
  <2>1. PICK x : {a, b} = {x}
    BY <1>1, <1>2, FS_Singleton
  <2>2. QED
    BY <1>1, <2>1
<1>3. QED
  BY <1>2

\* A request that is sent is consistent, whatever the options are.
LEMMA ConsistentRequest ==
    ASSUME NEW name, NEW select, NEW o, IsOptions(o), NEW r, r = Request(name, select, o)
    PROVE  /\ ~(r.select /\ r.options.selector)
           /\ Cardinality(r.options.times) # 1
           /\ r.options.favor => r.options.defer
           /\ r.options.defer => r.options.state # NoTarget
<1>1. PICK q, p : /\ q = [o EXCEPT !.full = IF dbtFullRefresh THEN "on" ELSE @]
                  /\ p = buildRunOptionsPayload(q, name)
  OBVIOUS
<1>2. r.select = stripModelSelection(select, p) /\ r.options = p
  BY <1>1 DEF Request
<1>3. IsOptions(q)
  BY <1>1 DEF IsOptions
<1>4. Cardinality(p.times) # 1
  <2>1. p.times = IF q.start # 0 /\ q.end # 0 /\ name \in SAMPLE_COMMANDS /\ EventTimeValid(q)
                  THEN {q.start, q.end} ELSE {}
    BY <1>1 DEF buildRunOptionsPayload
  <2>2. Cardinality({}) = 0
    BY FS_EmptySet
  <2>3. CASE q.start # 0 /\ q.end # 0 /\ name \in SAMPLE_COMMANDS /\ EventTimeValid(q)
    <3>1. q.start < q.end /\ q.start \in 0 .. 2 /\ q.end \in 0 .. 2
      BY <1>3, <2>3 DEF EventTimeValid, IsOptions
    <3>2. QED
      BY <2>1, <2>3, <3>1, WindowCard
  <2>4. CASE ~(q.start # 0 /\ q.end # 0 /\ name \in SAMPLE_COMMANDS /\ EventTimeValid(q))
    BY <2>1, <2>2, <2>4
  <2>5. QED
    BY <2>3, <2>4
<1>5. /\ p.favor = (q.state # NoTarget /\ q.defer /\ q.favor)
      /\ p.defer = (q.state # NoTarget /\ q.defer) /\ p.state = q.state
  BY <1>1 DEF buildRunOptionsPayload
<1>6. ~(r.select /\ r.options.selector)
  BY <1>2 DEF stripModelSelection
<1>7. QED
  BY <1>2, <1>4, <1>5, <1>6

\* Init establishes it.
LEMMA OptionsInitInv == OptionsInit => OptionsInv
<1>1. IsOptions(NoOptions)
  BY DEF IsOptions, NoOptions
<1>2. NoOptions.full = "unset"
  BY DEF NoOptions
<1>3. OptionsInit => RequestConsistent /\ FullRefreshShown
  BY DEF OptionsInit, RequestConsistent, FullRefreshShown
<1>4. QED
  BY <1>1, <1>2, <1>3 DEF OptionsInit, OptionsInv

\* Steps that leave the options, the request and the flag alone.
LEMMA LocalOptions ==
    ASSUME OptionsInv, UNCHANGED <<runOptions, dbtFullRefresh, stored, request>>,
           IsOptions(localOptions'), dialogOpen' \in BOOLEAN,
           dialogOpen' /\ localOptions'.full = "unset" => runOptions.full = "unset"
    PROVE  OptionsInv'
BY DEF OptionsInv, RequestConsistent, FullRefreshShown

\* A field of the dialog is changed.
LEMMA ChangeOptions ==
    ASSUME OptionsInv,
           \/ EditVars \/ ToggleFullRefresh \/ ToggleEmpty \/ EditSample \/ EditEventTime
           \/ EditSelector \/ ChooseState \/ TickDefer \/ TickFavor \/ ClearAll
    PROVE  OptionsInv'
<1>1. ASSUME NEW o, ChangeLocal(o), IsOptions(o),
             o.full \in {localOptions.full, "on", "off"}
      PROVE  OptionsInv'
  <2>1. /\ UNCHANGED <<runOptions, dbtFullRefresh, stored, request, dialogOpen>> /\ dialogOpen
        /\ localOptions' = o
    BY <1>1 DEF ChangeLocal
  <2>2. QED
    BY <1>1, <2>1, LocalOptions DEF OptionsInv
<1>2. IsOptions(localOptions) /\ IsOptions(NoOptions)
  BY DEF OptionsInv, IsOptions, NoOptions
<1>3. EditVars \/ EditSample \/ EditSelector => OptionsInv'
  BY <1>1, <1>2 DEF EditVars, EditSample, EditSelector, IsOptions
<1>4. ToggleFullRefresh \/ ToggleEmpty => OptionsInv'
  BY <1>1, <1>2 DEF ToggleFullRefresh, ToggleEmpty, IsOptions
<1>5. EditEventTime => OptionsInv'
  BY <1>1, <1>2 DEF EditEventTime, IsOptions
<1>6. ChooseState \/ TickFavor => OptionsInv'
  BY <1>1, <1>2 DEF ChooseState, TickFavor, IsOptions
<1>7. TickDefer => OptionsInv'
  BY <1>1, <1>2 DEF TickDefer, IsOptions
<1>8. ClearAll => OptionsInv'
  <2>1. PICK o : o = [NoOptions EXCEPT !.full = "off", !.state = FirstOf(Candidates)]
    OBVIOUS
  <2>2. IsOptions(o) /\ o.full = "off"
    BY <1>2, <2>1 DEF IsOptions, NoOptions
  <2>3. QED
    BY <1>1, <2>1, <2>2 DEF ClearAll
<1>9. QED
  BY <1>3, <1>4, <1>5, <1>6, <1>7, <1>8

\* The dialog is applied.
LEMMA ApplyOptions == ASSUME OptionsInv, Apply PROVE OptionsInv'
<1>1. /\ UNCHANGED <<localOptions, request>> /\ dialogOpen
      /\ IsOptions(localOptions) /\ dbtFullRefresh \in BOOLEAN
  BY DEF Apply, OptionsInv
<1>2. CASE ~Valid(localOptions)
  BY <1>1, <1>2, LocalOptions DEF Apply, OptionsInv
<1>3. CASE Valid(localOptions)
  <2>1. PICK l, o, d : l = localOptions /\ o = Final(l) /\ d = hasState(l.state)
    OBVIOUS
  <2>2. Commit(o) /\ dialogOpen' = FALSE
    BY <1>3, <2>1 DEF Apply
  <2>3. IsOptions(o) /\ o.full = l.full
    BY <1>1, <2>1 DEF Final, IsOptions
  <2>4. /\ runOptions' = o
        /\ dbtFullRefresh' = IF o.full = "unset" THEN dbtFullRefresh ELSE o.full = "on"
        /\ stored' = [options |-> o, full |-> dbtFullRefresh']
    BY <2>2 DEF Commit
  <2>5. /\ dbtFullRefresh' \in BOOLEAN /\ FullRefreshShown'
        /\ o.full = "unset" \/ dbtFullRefresh' = (o.full = "on")
    <3>1. CASE o.full = "unset"
      <4>1. runOptions.full = "unset"
        BY <1>1, <2>1, <2>3, <3>1 DEF OptionsInv
      <4>2. ~dbtFullRefresh
        BY <4>1 DEF OptionsInv, FullRefreshShown
      <4>3. ~dbtFullRefresh'
        BY <2>4, <3>1, <4>2
      <4>4. dbtFullRefresh' \in BOOLEAN
        BY <1>1, <2>4, <3>1
      <4>5. QED
        BY <3>1, <4>3, <4>4 DEF FullRefreshShown
    <3>2. CASE o.full # "unset"
      BY <2>4, <3>2 DEF FullRefreshShown
    <3>3. QED
      BY <3>1, <3>2
  <2>6. RequestConsistent'
    BY <1>1 DEF OptionsInv, RequestConsistent
  <2>7. QED
    BY <1>1, <2>2, <2>3, <2>4, <2>5, <2>6 DEF OptionsInv
<1>4. QED
  BY <1>2, <1>3

\* A request is sent.
LEMMA SendOptions ==
    ASSUME OptionsInv, NEW name, NEW select,
           RunDbtCommand(name, select) \/ RunBuildModified
    PROVE  OptionsInv'
<1>1. PICK r, n, s, o : /\ SendRequest(r) /\ r = Request(n, s, o) /\ IsOptions(o)
                        /\ dialogOpen' \in {dialogOpen, FALSE}
  <2>1. CASE RunDbtCommand(name, select)
    BY <2>1 DEF RunDbtCommand, OptionsInv
  <2>2. CASE RunBuildModified
    <3>1. PICK o : o = [runOptions EXCEPT !.state = selectedTarget(localOptions.state),
                                          !.defer = TRUE]
      OBVIOUS
    <3>2. IsOptions(o)
      BY <3>1 DEF OptionsInv, IsOptions
    <3>3. SendRequest(Request("build", TRUE, o)) /\ dialogOpen' = FALSE
      BY <2>2, <3>1 DEF RunBuildModified
    <3>4. QED
      BY <3>2, <3>3
  <2>3. QED
    BY <2>1, <2>2
<1>2. request' = {r} /\ UNCHANGED <<runOptions, dbtFullRefresh, stored, localOptions>>
  BY <1>1 DEF SendRequest
<1>3. RequestConsistent'
  <2>1. /\ ~(r.select /\ r.options.selector) /\ Cardinality(r.options.times) # 1
        /\ r.options.favor => r.options.defer
        /\ r.options.defer => r.options.state # NoTarget
    BY <1>1, ConsistentRequest
  <2>2. QED
    BY <1>2, <2>1 DEF RequestConsistent
<1>4. QED
  BY <1>1, <1>2, <1>3 DEF OptionsInv, FullRefreshShown

\* Every step keeps the invariant.
LEMMA OptionsStep == OptionsInv /\ [OptionsNext]_optionsVars => OptionsInv'
<1> SUFFICES ASSUME OptionsInv, [OptionsNext]_optionsVars PROVE OptionsInv'
  OBVIOUS
<1>1. CASE OpenDialog \/ CloseDialog \/ RefreshState \/ StateSaved \/ UNCHANGED optionsVars
           \/ \E by \in listing, ok \in BOOLEAN : StateListed(by, ok)
  BY <1>1, LocalOptions DEF OpenDialog, CloseDialog, RefreshState, StateSaved, StateListed,
     optionsVars, OptionsInv
<1>2. CASE ReloadOptions
  <2>1. /\ stored.options = runOptions /\ stored.full = dbtFullRefresh
        /\ IsOptions(runOptions) /\ dbtFullRefresh \in BOOLEAN
    BY DEF OptionsInv
  <2>2. /\ runOptions' = runOptions /\ localOptions' = runOptions /\ UNCHANGED <<stored, request>>
        /\ dialogOpen' = FALSE
        /\ dbtFullRefresh' = IF runOptions.full = "unset" THEN dbtFullRefresh
                             ELSE runOptions.full = "on"
    BY <1>2, <2>1 DEF ReloadOptions
  <2>3. dbtFullRefresh' = dbtFullRefresh
    BY <2>2 DEF OptionsInv
  <2>4. QED
    BY <2>1, <2>2, <2>3, LocalOptions
<1>3. QED
  BY <1>1, <1>2, ChangeOptions, ApplyOptions, SendOptions DEF OptionsNext

\* The rows of the listing, or the ones on their way, are those of the target shown.
Listed == (lsOverlap \/ \A c \in lsCalls : c.target = lsTarget) /\ RowsOfTarget

\* The arguments of the form are those of the macro it names.
DialogInv ==
    /\ macros \subseteq Macros
    /\ IF isCustomMacro THEN selectedMacroId = NoMacro /\ argValues = {}
       ELSE argValues = DefaultArgs(selectedMacro(selectedMacroId, macros))
    /\ ArgsBelong /\ Listed

\* Nothing selected, nothing to fill in.
LEMMA NoArguments ==
    /\ NoMacro \notin Macros /\ DefaultArgs(NoMacro) = {}
    /\ \A list : list \subseteq Macros => selectedMacro(NoMacro, list) = NoMacro
BY DialogsAssumption DEF DefaultArgs, selectedMacro

\* Init establishes it.
LEMMA DialogInitInv == DialogsInit => DialogInv
BY NoArguments DEF DialogsInit, DialogInv, ArgsBelong, Listed, RowsOfTarget

\* The listing of resources.
LEMMA ListSteps ==
    ASSUME DialogInv,
           \/ OpenLs \/ CloseLs \/ (\E t \in LsTargets : SetTarget(t)) \/ RefreshLs
           \/ \E c \in lsCalls, ok \in BOOLEAN : LsAnswer(c, ok)
    PROVE  DialogInv'
<1>1. UNCHANGED opVars
  BY DEF OpenLs, CloseLs, SetTarget, RefreshLs, LsAnswer
<1>2. /\ UNCHANGED <<macros, isCustomMacro, selectedMacroId, argValues, operation>>
  BY <1>1 DEF opVars
<1>3. ArgsBelong'
  BY <1>2 DEF DialogInv, ArgsBelong
<1>4. Listed'
  <2>1. ASSUME NEW t, Fetch(t), lsTarget' = t PROVE Listed'
    <3>1. PICK c : c = [target |-> t, n |-> dialogSteps]
      OBVIOUS
    <3>2. lsCalls' = lsCalls \cup {c} /\ lsOverlap' = (lsOverlap \/ lsCalls # {}) /\ c.target = t
      BY <2>1, <3>1 DEF Fetch
    <3>3. QED
      BY <2>1, <3>2 DEF DialogInv, Listed, RowsOfTarget
  <2>2. CASE CloseLs
    BY <2>2 DEF CloseLs, DialogInv, Listed, RowsOfTarget
  <2>3. ASSUME NEW c \in lsCalls, NEW ok \in BOOLEAN, LsAnswer(c, ok) PROVE Listed'
    <3>1. /\ lsCalls' = lsCalls \ {c} /\ lsRows' = (IF ok THEN {c.target} ELSE lsRows)
          /\ lsOverlap' = (lsOverlap \/ ~ok) /\ UNCHANGED <<lsOpen, lsTarget>>
      BY <2>3 DEF LsAnswer
    <3>2. QED
      BY <3>1 DEF DialogInv, Listed, RowsOfTarget
  <2>4. CASE OpenLs \/ (\E t \in LsTargets : SetTarget(t)) \/ RefreshLs
    <3>1. CASE OpenLs \/ RefreshLs
      <4>1. lsTarget' = lsTarget /\ Fetch(lsTarget)
        BY <3>1 DEF OpenLs, RefreshLs
      <4>2. PICK t : t = lsTarget
        OBVIOUS
      <4>3. QED
        BY <2>1, <4>1, <4>2
    <3>2. CASE \E t \in LsTargets : SetTarget(t)
      BY <2>1, <3>2 DEF SetTarget
    <3>3. QED
      BY <2>4, <3>1, <3>2
  <2>5. QED
    BY <2>2, <2>3, <2>4
<1>5. QED
  BY <1>2, <1>3, <1>4 DEF DialogInv

\* Steps that leave the arguments, the macro and its list alone.
LEMMA SameMacro ==
    ASSUME DialogInv, UNCHANGED <<macros, isCustomMacro, selectedMacroId, argValues>>,
           UNCHANGED lsVars, UNCHANGED operation \/ operation' = {}
    PROVE  DialogInv'
BY DEF DialogInv, lsVars, ArgsBelong, Listed, RowsOfTarget

\* The form of the operations: its macro changes, or the list it is chosen from.
LEMMA MacroSteps ==
    ASSUME DialogInv,
           \/ \E c \in macroCalls, ok \in BOOLEAN : MacrosAnswer(c, ok)
           \/ \E m \in Macros : SelectMacro(m)
           \/ ToggleCustom
    PROVE  DialogInv'
<1>1. UNCHANGED lsVars /\ UNCHANGED operation
  BY DEF MacrosAnswer, SelectMacro, ToggleCustom
<1>2. ArgsBelong' /\ Listed'
  BY <1>1 DEF DialogInv, lsVars, ArgsBelong, Listed, RowsOfTarget
<1>3. ASSUME NEW c \in macroCalls, NEW ok \in BOOLEAN, MacrosAnswer(c, ok) PROVE DialogInv'
  <2>1. PICK list, id : list = macros' /\ id = selectedMacroId
    OBVIOUS
  <2>2. /\ list \subseteq Macros /\ argValues' = DefaultArgs(selectedMacro(id, list))
        /\ UNCHANGED <<isCustomMacro, selectedMacroId>>
    BY <1>3, <2>1 DEF MacrosAnswer, DialogInv
  <2>3. CASE isCustomMacro
    BY <1>2, <2>1, <2>2, <2>3, NoArguments DEF DialogInv
  <2>4. CASE ~isCustomMacro
    BY <1>2, <2>1, <2>2, <2>4 DEF DialogInv
  <2>5. QED
    BY <2>3, <2>4
<1>4. ASSUME NEW m \in Macros, SelectMacro(m) PROVE DialogInv'
  BY <1>2, <1>4 DEF SelectMacro, DialogInv, selectedMacro
<1>5. CASE ToggleCustom
  BY <1>2, <1>5, NoArguments DEF ToggleCustom, DialogInv
<1>6. QED
  BY <1>3, <1>4, <1>5

\* An operation is run with the arguments of its macro; a typed one has none.
LEMMA OperationStep == ASSUME DialogInv, RunOperation PROVE DialogInv'
<1>1. /\ operation' = {[macro |-> macroName, args |-> argValues]}
      /\ UNCHANGED <<macros, isCustomMacro, selectedMacroId, argValues>> /\ UNCHANGED lsVars
  BY DEF RunOperation
<1>2. argValues \subseteq DefaultArgs(macroName)
  BY DEF DialogInv, macroName
<1>3. ArgsBelong'
  BY <1>1, <1>2 DEF ArgsBelong
<1>4. QED
  BY <1>1, <1>3 DEF DialogInv, lsVars, Listed, RowsOfTarget

\* Every step keeps the invariant.
LEMMA DialogStep == DialogInv /\ [DialogsNext]_dialogVars => DialogInv'
<1> SUFFICES ASSUME DialogInv, [DialogsNext]_dialogVars PROVE DialogInv'
  OBVIOUS
<1>1. CASE OpenOperation \/ CloseOperation \/ ToggleInternal \/ OperationAnswer
           \/ UNCHANGED dialogVars
  BY <1>1, SameMacro DEF OpenOperation, CloseOperation, ToggleInternal, OperationAnswer,
     dialogVars, opVars
<1>2. QED
  BY <1>1, ListSteps, MacroSteps, OperationStep DEF DialogsNext

\* For any targets, macros and arguments: the options of a request fit together, a full
\* refresh is sent only while it is ticked, an operation gets its own arguments, and the
\* rows listed are those of the target.
THEOREM RequestsMatchDialogs == Spec => []RequestsAsShown
<1>1. Init => OptionsInv /\ DialogInv
  BY OptionsInitInv, DialogInitInv DEF Init
<1>2. OptionsInv /\ DialogInv => RequestsAsShown
  BY DEF OptionsInv, DialogInv, Listed, RequestsAsShown
<1>3. OptionsInv /\ DialogInv /\ [Next]_vars => (OptionsInv /\ DialogInv)'
  BY OptionsStep, DialogStep, IdeSteps
<1>4. QED
  BY <1>1, <1>2, <1>3, PTL DEF Spec

-----------------------------------------------------------------------------
(* The file watcher.                                                       *)

\* The source that is held is the only one open, and of the project on screen.
WatcherInv ==
    /\ sources = {} \/ \E s : sources = {s} /\ s.project = watching /\ DOMAIN s = {"project", "open"}
    /\ esRef = watching \/ (esRef = Unmounted /\ sources = {})
    /\ watching = Unmounted => sources = {} /\ ~reconnectTimer

\* Every step keeps the invariant.
LEMMA WatcherStep == WatcherInv /\ [WatcherNext]_watcherVars => WatcherInv'
<1> SUFFICES ASSUME WatcherInv, [WatcherNext]_watcherVars PROVE WatcherInv'
  OBVIOUS
<1>1. Closed = {}
  BY DEF Closed, WatcherInv
<1>2. ASSUME NEW p \in WatchedProjects, Show(p) PROVE WatcherInv'
  <2>1. PICK s : s = [project |-> p, open |-> FALSE]
    OBVIOUS
  <2>2. /\ watching' = p /\ esRef' = p /\ sources' = {s} /\ ~reconnectTimer'
    BY <1>1, <1>2, <2>1 DEF Show, Connect
  <2>3. s.project = p /\ DOMAIN s = {"project", "open"} /\ p # Unmounted
    BY <2>1, WatcherAssumption
  <2>4. QED
    BY <2>2, <2>3 DEF WatcherInv
<1>3. CASE Leave
  BY <1>1, <1>3 DEF Leave, WatcherInv
<1>4. ASSUME NEW s \in sources, Open(s) PROVE WatcherInv'
  <2>1. /\ sources = {s} /\ watching # Unmounted
        /\ s.project = watching /\ DOMAIN s = {"project", "open"}
    BY DEF WatcherInv
  <2>2. PICK yes, t : yes = TRUE /\ t = [s EXCEPT !.open = yes]
    OBVIOUS
  <2>3. t.project = watching /\ DOMAIN t = {"project", "open"}
    BY <2>1, <2>2
  <2>4. /\ sources' = {t} /\ UNCHANGED <<watching, esRef, reconnectTimer>>
    BY <1>4, <2>1, <2>2 DEF Open
  <2>5. QED
    BY <2>1, <2>3, <2>4 DEF WatcherInv
<1>5. ASSUME NEW s \in sources, Break(s) PROVE WatcherInv'
  BY <1>1, <1>5 DEF Break, WatcherInv
<1>6. CASE TimerFires
  <2>1. watching # Unmounted /\ ~reconnectTimer' /\ watching' = watching
        /\ Connect(watching, esRef, sources)
    BY <1>6 DEF TimerFires, WatcherInv
  <2>2. CASE esRef # Unmounted
    BY <2>1, <2>2 DEF Connect, WatcherInv
  <2>3. CASE esRef = Unmounted
    <3>1. PICK s, p : s = [project |-> p, open |-> FALSE] /\ p = watching
      OBVIOUS
    <3>2. esRef' = watching /\ sources' = {s}
      BY <2>1, <2>3, <3>1 DEF Connect, WatcherInv
    <3>3. s.project = p /\ DOMAIN s = {"project", "open"}
      BY <3>1
    <3>4. QED
      BY <2>1, <3>1, <3>2, <3>3 DEF WatcherInv
  <2>4. QED
    BY <2>2, <2>3
<1>7. CASE UNCHANGED watcherVars
  BY <1>7 DEF watcherVars, WatcherInv
<1>8. QED
  BY <1>2, <1>3, <1>4, <1>5, <1>6, <1>7 DEF WatcherNext

\* Init establishes it, and it gives the property.
LEMMA WatcherSound == (WatcherInit => WatcherInv) /\ (WatcherInv => OneSource)
<1>1. Cardinality({}) = 0 /\ \A x : Cardinality({x}) = 1
  BY FS_EmptySet, FS_Singleton
<1>2. WatcherInit => WatcherInv
  BY DEF WatcherInit, WatcherInv
<1>3. ASSUME WatcherInv PROVE OneSource
  <2>1. CASE sources = {}
    BY <1>1, <1>3, <2>1 DEF WatcherInv, OneSource
  <2>2. ASSUME NEW s, sources = {s}, s.project = watching PROVE OneSource
    <3>1. Cardinality(sources) = 1
      BY <1>1, <2>2
    <3>2. QED
      BY <1>3, <2>2, <3>1 DEF WatcherInv, OneSource
  <2>3. QED
    BY <1>3, <2>1, <2>2 DEF WatcherInv
<1>4. QED
  BY <1>2, <1>3

-----------------------------------------------------------------------------
(* Source control.                                                         *)

\* The panel shows the status the repository has now.
Fresh == staged = Staged(Status) /\ unstaged = Unstaged(Status)

\* While nothing explains a difference, one operation at most is under way: until git has
\* done what it asks, the panel is fresh; a status it has read is the present one.
GitInv ==
    \/ unsure
    \/ /\ \A o, p \in ops : o = p
       /\ \A o \in ops : DOMAIN o = {"kind", "file", "snap", "n", "at"}
       /\ Fresh \/ \E o \in ops : o.at \in {"ok", "ask", "read"}
       /\ \A o \in ops : o.at = "read" => o.snap = Status

\* A file is listed as staged or changed exactly when its letters say so.
LEMMA StatusTells ==
    /\ Staged(Status) = {f \in GitFiles : head[f] # index[f]}
    /\ Unstaged(Status) = {f \in GitFiles : index[f] # work[f]}
<1>1. \A a, b : /\ Letter(a, b) \in {" ", "A", "D", "M"}
                /\ Letter(a, b) = " " <=> a = b
  BY DEF Letter
<1>2. ASSUME NEW f \in GitFiles
      PROVE  /\ parseGitStatus(Status[f]).staged <=> head[f] # index[f]
             /\ parseGitStatus(Status[f]).unstaged <=> index[f] # work[f]
  <2>1. PICK a, b : a = Letter(head[f], index[f]) /\ b = Letter(index[f], work[f])
    OBVIOUS
  <2>2. /\ a \in {" ", "A", "D", "M"} /\ b \in {" ", "A", "D", "M"}
        /\ a = " " <=> head[f] = index[f]
        /\ b = " " <=> index[f] = work[f]
    BY <1>1, <2>1
  <2>3. CASE head[f] = 0 /\ index[f] = 0 /\ work[f] # 0
    <3>1. Status[f] = <<"?", "?">>
      BY <2>3 DEF Status, StatusCode
    <3>2. QED
      BY <2>3, <3>1 DEF parseGitStatus
  <2>4. CASE ~(head[f] = 0 /\ index[f] = 0 /\ work[f] # 0)
    <3>1. Status[f] = <<a, b>>
      BY <2>1, <2>4 DEF Status, StatusCode
    <3>2. Status[f] # <<"?", "?">> /\ Status[f][1] = a /\ Status[f][2] = b
      <4>1. a # "?" /\ <<"?", "?">>[1] = "?"
        BY <2>2
      <4>2. Status[f][1] = a /\ Status[f][2] = b
        BY <3>1
      <4>3. QED
        BY <4>1, <4>2
    <3>3. /\ parseGitStatus(Status[f]).staged = (a \notin {" ", "?"})
          /\ parseGitStatus(Status[f]).unstaged = (b \notin {" ", "?"})
      BY <3>2 DEF parseGitStatus
    <3>4. QED
      BY <2>2, <3>3
  <2>5. QED
    BY <2>3, <2>4
<1>3. QED
  BY <1>2 DEF Staged, Unstaged

\* Init establishes the invariant, and it gives the property.
LEMMA GitSound == (GitInit => GitInv) /\ (GitInv => NoChangeHidden)
BY StatusTells DEF GitInit, GitInv, NoChangeHidden, Fresh

\* What a step leaves when it touches neither the repository nor the lists.
LEMMA SameFresh ==
    /\ UNCHANGED repo => Status' = Status
    /\ UNCHANGED repo /\ UNCHANGED <<staged, unstaged>> /\ Fresh => Fresh'
BY DEF repo, Status, StatusCode, Fresh

\* A button is pressed: alone, or the panel is unsure.
LEMMA PressStep ==
    ASSUME GitInv, NEW kind, NEW fs, Press(kind, fs)
    PROVE  GitInv'
<1>1. PICK o : o = [kind |-> kind, file |-> fs, snap |-> NoStatus, n |-> gitClicks + 1,
                    at |-> IF kind = "refresh" THEN "ask" ELSE "sent"]
  OBVIOUS
<1>2. DOMAIN o = {"kind", "file", "snap", "n", "at"} /\ ops' = ops \cup {o}
      /\ o.at = IF kind = "refresh" THEN "ask" ELSE "sent"
  BY <1>1 DEF Press
<1>3. CASE ops # {}
  BY <1>3 DEF Press, GitInv
<1>4. CASE ops = {}
  <2>1. Fresh => Fresh'
    BY SameFresh DEF Press
  <2>2. CASE kind = "refresh"
    BY <1>2, <1>4, <2>2 DEF Press, GitInv
  <2>3. CASE kind # "refresh"
    BY <1>2, <1>4, <2>1, <2>3 DEF Press, GitInv
  <2>4. QED
    BY <2>2, <2>3
<1>5. QED
  BY <1>3, <1>4

\* An operation moves on, and the panel has no reason to be less sure of itself than before.
LEMMA MovedOn ==
    ASSUME GitInv, NEW o \in ops, NEW q, DOMAIN q = DOMAIN o,
           ops' = (ops \ {o}) \cup {q}, unsure' = unsure,
           unsure \/ Fresh' \/ q.at \in {"ok", "ask", "read"},
           q.at = "read" => q.snap = Status'
    PROVE  GitInv'
<1>1. CASE unsure
  BY <1>1 DEF GitInv
<1>2. CASE ~unsure
  <2>1. ops = {o} /\ DOMAIN o = {"kind", "file", "snap", "n", "at"}
    BY <1>2 DEF GitInv
  <2>2. ops' = {q}
    BY <2>1
  <2>3. QED
    BY <1>2, <2>1, <2>2 DEF GitInv
<1>3. QED
  BY <1>1, <1>2

\* A handler returns: it goes, or a sync goes on to push.
LEMMA FinishStep ==
    ASSUME GitInv, NEW o \in ops, Finish(o), unsure' = unsure, UNCHANGED repo, unsure \/ Fresh'
    PROVE  GitInv'
<1>1. CASE o.kind = "sync"
  <2>1. PICK k, s, q : /\ k = "push" /\ s = "sent"
                       /\ q = [o EXCEPT !.kind = k, !.at = s, !.snap = NoStatus]
    OBVIOUS
  <2>2. ops' = (ops \ {o}) \cup {q}
    BY <1>1, <2>1 DEF Finish
  <2>3. CASE unsure
    BY <2>3 DEF GitInv
  <2>4. CASE ~unsure
    <3>1. DOMAIN o = {"kind", "file", "snap", "n", "at"}
      BY <2>4 DEF GitInv
    <3>2. q.at = "sent" /\ DOMAIN q = DOMAIN o
      BY <2>1, <3>1
    <3>3. QED
      BY <2>2, <3>2, MovedOn
  <2>5. QED
    BY <2>3, <2>4
<1>2. CASE o.kind # "sync"
  <2>1. ops' = ops \ {o}
    BY <1>2 DEF Finish
  <2>2. QED
    BY <2>1 DEF GitInv
<1>3. QED
  BY <1>1, <1>2

\* The next place of an operation.
LEMMA MoveStep ==
    ASSUME GitInv, NEW o \in ops, NEW at, Move(o, at), unsure' = unsure,
           unsure \/ Fresh' \/ at \in {"ok", "ask"}, at # "read"
    PROVE  GitInv'
<1>1. PICK q : q = [o EXCEPT !.at = at]
  OBVIOUS
<1>2. CASE unsure
  BY <1>2 DEF GitInv
<1>3. CASE ~unsure
  <2>1. DOMAIN o = {"kind", "file", "snap", "n", "at"}
    BY <1>3 DEF GitInv
  <2>2. q.at = at /\ DOMAIN q = DOMAIN o
    BY <1>1, <2>1
  <2>3. ops' = (ops \ {o}) \cup {q}
    BY <1>1 DEF Move
  <2>4. QED
    BY <2>2, <2>3, MovedOn
<1>4. QED
  BY <1>2, <1>3

\* Git does what it was asked, or not.
LEMMA ServedStep == ASSUME GitInv, NEW o \in ops, GitServed(o) PROVE GitInv'
<1>1. CASE Effect(o.kind, o.file) /\ Move(o, "ok") /\ UNCHANGED unsure
  <2>1. PICK at : at = "ok"
    OBVIOUS
  <2>2. QED
    BY <1>1, <2>1, MoveStep
<1>2. CASE unsure'
  BY <1>2 DEF GitInv
<1>3. ASSUME NEW at \in {"lost", "refused", "auth"}, UNCHANGED repo, Move(o, at), UNCHANGED unsure
      PROVE  GitInv'
  <2>1. o.at = "sent" /\ UNCHANGED <<staged, unstaged>>
    BY DEF GitServed, panel
  <2>2. unsure \/ Fresh
    BY <2>1 DEF GitInv
  <2>3. unsure \/ Fresh'
    BY <1>3, <2>1, <2>2, SameFresh
  <2>4. QED
    BY <1>3, <2>3, MoveStep
<1>4. QED
  BY <1>1, <1>2, <1>3 DEF GitServed

\* The handler learns of it: the status is loaded, or it returns.
LEMMA AnsweredStep == ASSUME GitInv, NEW o \in ops, Answered(o) PROVE GitInv'
<1>1. /\ o.at \in {"ok", "refused", "auth", "lost"} /\ UNCHANGED repo
      /\ UNCHANGED <<staged, unstaged>> /\ unsure' = unsure
  BY DEF Answered
<1>2. CASE ReloadsAfter(o)
  <2>1. PICK at : at = "ask"
    OBVIOUS
  <2>2. QED
    BY <1>1, <1>2, <2>1, MoveStep DEF Answered
<1>3. CASE ~ReloadsAfter(o)
  <2>1. o.at \notin {"ok", "ask", "read"}
    BY <1>1, <1>3 DEF ReloadsAfter
  <2>2. unsure \/ Fresh'
    BY <1>1, <2>1, SameFresh DEF GitInv
  <2>3. QED
    BY <1>1, <1>3, <2>2, FinishStep DEF Answered
<1>4. QED
  BY <1>2, <1>3

\* The status is read, and shown.
LEMMA StatusSteps ==
    ASSUME GitInv, NEW o \in ops, StatusRead(o) \/ \E ok \in BOOLEAN : StatusShown(o, ok)
    PROVE  GitInv'
<1>1. CASE StatusRead(o)
  <2>1. Status' = Status /\ unsure' = unsure
    BY <1>1, SameFresh DEF StatusRead
  <2>2. CASE unsure
    BY <2>1, <2>2 DEF GitInv
  <2>3. CASE ~unsure
    <3>1. PICK read, snap, q : /\ read = "read" /\ snap = Status
                               /\ q = [o EXCEPT !.snap = snap, !.at = read]
      OBVIOUS
    <3>2. DOMAIN o = {"kind", "file", "snap", "n", "at"}
      BY <2>3 DEF GitInv
    <3>3. q.at = "read" /\ q.snap = snap /\ DOMAIN q = DOMAIN o
      BY <3>1, <3>2
    <3>4. ops' = (ops \ {o}) \cup {q}
      BY <1>1, <3>1 DEF StatusRead
    <3>5. QED
      BY <2>1, <3>1, <3>3, <3>4, MovedOn
  <2>4. QED
    BY <2>2, <2>3
<1>2. ASSUME NEW ok \in BOOLEAN, StatusShown(o, ok) PROVE GitInv'
  <2>1. Status' = Status /\ UNCHANGED repo /\ Finish(o) /\ o.at = "read"
    BY <1>2, SameFresh DEF StatusShown
  <2>2. CASE unsure'
    BY <2>2 DEF GitInv
  <2>3. CASE ~unsure'
    <3>1. unsure' = unsure /\ staged' = Staged(o.snap) /\ unstaged' = Unstaged(o.snap)
      BY <1>2, <2>3 DEF StatusShown
    <3>2. unsure \/ o.snap = Status'
      BY <2>1 DEF GitInv
    <3>3. unsure \/ Fresh'
      BY <3>1, <3>2 DEF Fresh, Staged, Unstaged
    <3>4. QED
      BY <2>1, <3>1, <3>3, FinishStep
  <2>4. QED
    BY <2>2, <2>3
<1>3. QED
  BY <1>1, <1>2

\* Every step keeps the invariant.
LEMMA GitStepKeeps == GitInv /\ [GitNext]_gitVars => GitInv'
<1> SUFFICES ASSUME GitInv, [GitNext]_gitVars PROVE GitInv'
  OBVIOUS
<1>1. ASSUME NEW f \in GitFiles, NEW t \in 0 .. MaxText, TypeFile(f, t) PROVE GitInv'
  BY <1>1 DEF TypeFile, GitInv
<1>2. CASE StagedList \/ ChangesList
  <2>1. PICK kind, fs : Press(kind, fs)
    BY <1>2 DEF StagedList, ChangesList, unstageAll, unstageFile, stageAll, discardAll, stageFile,
       discardFile, PressFile, PressAll
  <2>2. QED
    BY <2>1, PressStep
<1>3. CASE AdvancedButtons \/ handleCommit \/ handleSync \/ Refresh \/ SubmitCredentials
  <2>1. PICK kind, fs : Press(kind, fs)
    BY <1>3 DEF AdvancedButtons, handlePush, handlePull, handleFetch, handleSwitchBranch,
       handleCreateBranch, handleSaveRemote, handleCommit, handleSync, Refresh, SubmitCredentials,
       PressRemote
  <2>2. QED
    BY <2>1, PressStep
<1>4. CASE CancelCredentials \/ UNCHANGED gitVars
  BY <1>4, SameFresh DEF CancelCredentials, gitVars, panel, GitInv
<1>5. QED
  BY <1>1, <1>2, <1>3, <1>4, ServedStep, AnsweredStep, StatusSteps DEF GitNext

\* What a step may do to the work tree.
WorkStep ==
    \A f \in GitFiles : work'[f] # work[f] =>
        \/ typing' # typing
        \/ Clean
        \/ \E o \in ops : o.at = "sent" /\ o.kind \in {"discard", "discardAll"}

\* The counter of the changes from elsewhere is a number.
TypingCounts == typing \in Nat

\* Every step does so, as long as typing counts.
LEMMA WorkSteps == TypingCounts /\ [GitNext]_gitVars => TypingCounts' /\ WorkStep
<1> SUFFICES ASSUME typing \in Nat, [GitNext]_gitVars PROVE typing' \in Nat /\ WorkStep
  BY DEF TypingCounts
<1>1. ASSUME NEW f \in GitFiles, NEW t \in 0 .. MaxText, TypeFile(f, t)
      PROVE  typing' \in Nat /\ WorkStep
  BY <1>1 DEF TypeFile, WorkStep
<1>2. ASSUME NEW kind, NEW fs, Press(kind, fs) PROVE typing' \in Nat /\ WorkStep
  BY <1>2 DEF Press, repo, WorkStep
<1>3. CASE StagedList \/ ChangesList
  <2>1. PICK kind, fs : Press(kind, fs)
    BY <1>3 DEF StagedList, ChangesList, unstageAll, unstageFile, stageAll, discardAll, stageFile,
       discardFile, PressFile, PressAll
  <2>2. QED
    BY <1>2, <2>1
<1>4. CASE AdvancedButtons \/ handleCommit \/ handleSync \/ Refresh \/ SubmitCredentials
  <2>1. PICK kind, fs : Press(kind, fs)
    BY <1>4 DEF AdvancedButtons, handlePush, handlePull, handleFetch, handleSwitchBranch,
       handleCreateBranch, handleSaveRemote, handleCommit, handleSync, Refresh, SubmitCredentials,
       PressRemote
  <2>2. QED
    BY <1>2, <2>1
<1>5. CASE CancelCredentials \/ UNCHANGED gitVars
  BY <1>5 DEF CancelCredentials, gitVars, repo, WorkStep
<1>6. ASSUME NEW o \in ops, GitServed(o) PROVE typing' \in Nat /\ WorkStep
  <2>1. typing' = typing /\ o.at = "sent" /\ (UNCHANGED repo \/ Effect(o.kind, o.file))
    BY <1>6 DEF GitServed
  <2>2. CASE UNCHANGED repo
    BY <2>1, <2>2 DEF repo, WorkStep
  <2>3. CASE Effect(o.kind, o.file)
    <3>1. work' = work \/ Clean \/ o.kind \in {"discard", "discardAll"}
      BY <2>3 DEF Effect, add, reset, ResetIndex, commitAll, createBranch, repo
    <3>2. QED
      BY <2>1, <3>1 DEF WorkStep
  <2>4. QED
    BY <2>1, <2>2, <2>3
<1>7. ASSUME NEW o \in ops, Answered(o) \/ StatusRead(o) \/ \E ok \in BOOLEAN : StatusShown(o, ok)
      PROVE  typing' \in Nat /\ WorkStep
  BY <1>7 DEF Answered, StatusRead, StatusShown, repo, WorkStep
<1>8. QED
  BY <1>1, <1>3, <1>4, <1>5, <1>6, <1>7 DEF GitNext

\* For any files and texts: only a save, a confirmed discard, or a pull or a switch on a
\* clean tree replaces what is in the work tree.
THEOREM WorkIsKept == Spec => WorkKept
<1>1. Init => TypingCounts
  BY DEF Init, GitInit, TypingCounts
<1>2. Spec => [][WorkStep]_gitVars
  BY <1>1, WorkSteps, IdeSteps, PTL DEF Spec
<1>3. QED
  BY <1>2 DEF WorkKept, WorkStep

-----------------------------------------------------------------------------
(* The options again: applying what was not edited.                        *)

\* Targets with state are targets; favouring goes with deferring; an untouched dialog shows
\* the options that are in force.
AppliedInv ==
    /\ serverState \subseteq ToSet(AllTargets) /\ stateTargets \subseteq ToSet(AllTargets)
    /\ runOptions.defer \in BOOLEAN /\ runOptions.favor \in BOOLEAN
    /\ runOptions.favor => runOptions.defer
    /\ dialogOpen /\ ~touched => localOptions = runOptions

\* What an untouched dialog applies.
ApplyStep == Apply /\ ~touched /\ ~dialogOpen' /\ runOptions.state \in stateTargets
             => runOptions' = runOptions

\* The options as handleApply leaves them.
LEMMA FinalOptions ==
    ASSUME NEW l, NEW o, IsOptions(l), o = Final(l)
    PROVE  /\ o.defer \in BOOLEAN /\ o.favor \in BOOLEAN /\ (o.favor => o.defer)
           /\ DOMAIN o = DOMAIN l
           /\ \A x \in DOMAIN l \ {"state", "defer", "favor"} : o[x] = l[x]
           /\ o.state = selectedTarget(l.state)
           /\ o.defer = (hasState(l.state) /\ l.defer)
           /\ o.favor = (hasState(l.state) /\ l.defer /\ l.favor)
<1>1. PICK s, d, f : /\ s = selectedTarget(l.state) /\ d = (hasState(l.state) /\ l.defer)
                     /\ f = (hasState(l.state) /\ l.defer /\ l.favor)
  OBVIOUS
<1>2. d \in BOOLEAN /\ f \in BOOLEAN /\ (f => d)
  BY <1>1
<1>3. o = [l EXCEPT !.state = s, !.defer = d, !.favor = f]
  BY <1>1 DEF Final
<1>4. o.state = s /\ o.defer = d /\ o.favor = f /\ DOMAIN o = DOMAIN l
      /\ \A x \in DOMAIN l \ {"state", "defer", "favor"} : o[x] = l[x]
  BY <1>3 DEF IsOptions
<1>5. QED
  BY <1>1, <1>2, <1>4

\* Nothing changes when the target of the options has state.
LEMMA ApplyUntouched == OptionsInv /\ AppliedInv => ApplyStep
<1> SUFFICES ASSUME OptionsInv, AppliedInv, Apply, ~touched, ~dialogOpen',
                    runOptions.state \in stateTargets
             PROVE  runOptions' = runOptions
  BY DEF ApplyStep
<1>1. PICK l, o : l = runOptions /\ o = Final(l)
  OBVIOUS
<1>2. localOptions = l /\ IsOptions(l) /\ runOptions' = o
  BY <1>1 DEF Apply, Commit, AppliedInv, OptionsInv
<1>3. selectedTarget(l.state) = l.state /\ hasState(l.state)
  BY <1>1 DEF AppliedInv, selectedTarget, hasState, Candidates
<1>4. o.state = l.state /\ o.defer = l.defer /\ o.favor = l.favor /\ DOMAIN o = DOMAIN l
      /\ \A x \in DOMAIN l \ {"state", "defer", "favor"} : o[x] = l[x]
  BY <1>1, <1>2, <1>3, FinalOptions DEF AppliedInv
<1>5. \A x \in DOMAIN l : o[x] = l[x]
  BY <1>4
<1>6. o = [x \in DOMAIN o |-> o[x]] /\ l = [x \in DOMAIN l |-> l[x]]
  <2>1. l = [x \in DOMAIN l |-> l[x]]
    BY <1>2 DEF IsOptions
  <2>2. QED
    BY <1>1, <2>1 DEF Final
<1>7. QED
  BY <1>1, <1>2, <1>4, <1>5, <1>6

\* Every step keeps the second invariant.
LEMMA AppliedStep == OptionsInv /\ AppliedInv /\ [OptionsNext]_optionsVars => AppliedInv'
<1> SUFFICES ASSUME OptionsInv, AppliedInv, [OptionsNext]_optionsVars PROVE AppliedInv'
  OBVIOUS
<1>1. CASE OpenDialog \/ CloseDialog \/ RefreshState \/ UNCHANGED optionsVars
           \/ \E by \in listing, ok \in BOOLEAN : StateListed(by, ok)
  BY <1>1 DEF OpenDialog, CloseDialog, RefreshState, StateListed, optionsVars, AppliedInv
<1>2. CASE StateSaved
  BY <1>2, OptionsAssumption DEF StateSaved, AppliedInv
<1>3. CASE \/ EditVars \/ ToggleFullRefresh \/ ToggleEmpty \/ EditSample \/ EditEventTime
           \/ EditSelector \/ ChooseState \/ TickDefer \/ TickFavor \/ ClearAll
  <2>1. PICK o : ChangeLocal(o)
    BY <1>3 DEF EditVars, ToggleFullRefresh, ToggleEmpty, EditSample, EditEventTime, EditSelector,
       ChooseState, TickDefer, TickFavor, ClearAll
  <2>2. QED
    BY <2>1 DEF ChangeLocal, AppliedInv
<1>4. CASE Apply
  <2>1. /\ UNCHANGED <<localOptions, stateTargets, serverState, touched>>
        /\ IsOptions(localOptions)
    BY <1>4 DEF Apply, OptionsInv
  <2>2. CASE ~Valid(localOptions)
    <3>1. UNCHANGED runOptions /\ UNCHANGED dialogOpen
      BY <1>4, <2>2 DEF Apply
    <3>2. QED
      BY <2>1, <3>1 DEF AppliedInv
  <2>3. CASE Valid(localOptions)
    <3>1. PICK l, o : l = localOptions /\ o = Final(l)
      OBVIOUS
    <3>2. runOptions' = o /\ ~dialogOpen'
      BY <1>4, <2>3, <3>1 DEF Apply, Commit
    <3>3. o.defer \in BOOLEAN /\ o.favor \in BOOLEAN /\ (o.favor => o.defer)
      BY <2>1, <3>1, FinalOptions
    <3>4. QED
      BY <2>1, <3>2, <3>3 DEF AppliedInv
  <2>4. QED
    BY <2>2, <2>3
<1>5. CASE RunBuildModified
           \/ \E name \in {"run", "test", "compile"}, select \in BOOLEAN : RunDbtCommand(name, select)
  <2>1. /\ UNCHANGED <<runOptions, localOptions, stateTargets, serverState, touched>>
        /\ dialogOpen' => dialogOpen
    <3>1. ASSUME NEW r, SendRequest(r)
          PROVE  UNCHANGED <<runOptions, localOptions, stateTargets, serverState, touched>>
      BY <3>1 DEF SendRequest
    <3>2. (\E r : SendRequest(r)) /\ (~dialogOpen' \/ dialogOpen' = dialogOpen)
      BY <1>5 DEF RunBuildModified, RunDbtCommand
    <3>3. QED
      BY <3>1, <3>2
  <2>2. QED
    BY <2>1 DEF AppliedInv
<1>6. CASE ReloadOptions
  <2>1. stored.options = runOptions
    BY DEF OptionsInv
  <2>2. QED
    BY <1>6, <2>1 DEF ReloadOptions, AppliedInv
<1>7. QED
  BY <1>1, <1>2, <1>3, <1>4, <1>5, <1>6 DEF OptionsNext

\* For any targets: applying the dialog without an edit changes nothing that was applied
\* before, once its target is listed with state.
THEOREM ApplyingKeeps == Spec => UntouchedApply
<1>1. Init => OptionsInv /\ AppliedInv
  <2>1. OptionsInit => AppliedInv
    BY DEF OptionsInit, AppliedInv, NoOptions
  <2>2. QED
    BY <2>1, OptionsInitInv DEF Init
<1>2. Spec => [][ApplyStep]_optionsVars
  BY <1>1, OptionsStep, AppliedStep, ApplyUntouched, IdeSteps, PTL DEF Spec
<1>3. QED
  BY <1>2 DEF UntouchedApply, ApplyStep

-----------------------------------------------------------------------------
(* The tabs of the editor.                                                 *)

\* A tab as it may be, and a list of them.
TabOK(t) == t \in TabRecords /\ (t.dirty <=> t.content # t.original)
TabsOK(s) == s \in Seq(TabRecords) /\ \A i \in DOMAIN s : TabOK(s[i])

\* What a request carries until its answer is handled.
CallOK(c) ==
    /\ DOMAIN c = {"op", "path", "to", "text", "sel", "act", "at"}
    /\ c.sel \in AllPaths \cup {Nil} /\ c.act \in AllPaths \cup {Nil}
    /\ c.op \in {"read", "save", "saveAs"} => c.path \in AllPaths
    /\ c.op \in {"save", "saveAs"} => c.text \in Texts
    /\ c.op = "read" /\ c.at = "ok" => c.text \in Texts
    /\ c.op = "sync" => c.text \in Texts \cup {Nil}
    /\ c.op \in {"rename", "move"} => <<c.path, c.to>> \in Renames

\* The tabs and the requests are in order.
BufferInv ==
    /\ TabsOK(openTabs) /\ Len(openTabs) <= MaxTabs
    /\ disk \in [AllPaths -> Texts \cup {Nil}]
    /\ activeTabPath \in AllPaths \cup {Nil} /\ selectedFile \in AllPaths \cup {Nil}
    /\ fileContent \in Texts /\ isSaving \in BOOLEAN
    /\ recentlySaved \subseteq AllPaths /\ events \subseteq AllPaths
    /\ \A c \in calls : CallOK(c)

\* A set of numbers has a least one.
LEMMA LeastNumber == ASSUME NEW S, S \subseteq Nat, S # {} PROVE \E i \in S : \A j \in S : i <= j
<1>1. PICK i \in S : \A j \in S : ~(<<j, i>> \in OpToRel(<, Nat))
  BY NatLessThanWellFounded, WFMin
<1>2. \A j \in S : ~(j < i)
  BY <1>1 DEF OpToRel
<1>3. QED
  BY <1>2

\* A list made tab by tab from n good tabs is good.
LEMMA TabsFrom ==
    ASSUME NEW n \in Nat, NEW s, s = [i \in 1 .. n |-> s[i]], \A i \in 1 .. n : TabOK(s[i])
    PROVE  TabsOK(s) /\ Len(s) = n
<1>1. \A i \in 1 .. n : s[i] \in TabRecords
  BY DEF TabOK
<1>2. s \in [1 .. n -> TabRecords]
  BY <1>1
<1>3. s \in Seq(TabRecords) /\ Len(s) = n
  BY <1>2, SeqDef
<1>4. QED
  BY <1>3 DEF TabsOK

\* The tab handlers keep a tab in order.
LEMMA TypedOK == ASSUME NEW t, TabOK(t), NEW text \in Texts PROVE TabOK(Typed(t, text))
<1>1. PICK d : d = (text # t.original)
  OBVIOUS
<1>2. d \in BOOLEAN
  BY <1>1
<1>3. PICK u : u = [t EXCEPT !.content = text, !.dirty = d]
  OBVIOUS
<1>4. u \in TabRecords /\ u.dirty = d /\ u.content = text /\ u.original = t.original
  BY <1>2, <1>3 DEF TabOK, TabRecords
<1>5. u = Typed(t, text)
  BY <1>1, <1>3 DEF Typed
<1>6. QED
  BY <1>1, <1>4, <1>5 DEF TabOK

\* Storing a text.
LEMMA StoredOK ==
    ASSUME NEW t, TabOK(t), NEW text \in Texts
    PROVE  /\ TabOK(Stored(t, text))
           /\ \A p \in AllPaths : TabOK([Stored(t, text) EXCEPT !.path = p, !.draft = FALSE])
<1>1. PICK no : no = FALSE
  OBVIOUS
<1>2. PICK u : u = [t EXCEPT !.content = text, !.original = text, !.dirty = no]
  OBVIOUS
<1>3. u \in TabRecords /\ u.dirty = no /\ u.content = text /\ u.original = text
  BY <1>1, <1>2 DEF TabOK, TabRecords
<1>4. u = Stored(t, text)
  BY <1>1, <1>2 DEF Stored
<1>5. ASSUME NEW p \in AllPaths PROVE TabOK([u EXCEPT !.path = p, !.draft = FALSE])
  <2>1. PICK v : v = [u EXCEPT !.path = p, !.draft = no]
    OBVIOUS
  <2>2. v \in TabRecords /\ v.dirty = no /\ v.content = text /\ v.original = text
    BY <1>1, <1>3, <2>1 DEF TabRecords
  <2>3. QED
    BY <1>1, <2>1, <2>2 DEF TabOK
<1>6. QED
  BY <1>1, <1>3, <1>4, <1>5 DEF TabOK

\* A new tab, and one at another path.
LEMMA NewTabOK ==
    /\ \A p \in AllPaths, text \in Texts, b \in BOOLEAN : TabOK(Tab(p, text, b))
    /\ \A t : TabOK(t) => \A p \in AllPaths : TabOK([t EXCEPT !.path = p])
<1>1. ASSUME NEW p \in AllPaths, NEW text \in Texts, NEW b \in BOOLEAN
      PROVE  TabOK(Tab(p, text, b))
  <2>1. PICK no, t : /\ no = FALSE /\ t = [path |-> p, content |-> text, original |-> text,
                                         dirty |-> no, draft |-> b]
    OBVIOUS
  <2>2. t \in TabRecords /\ t.dirty = no /\ t.content = text /\ t.original = text
    BY <2>1 DEF TabRecords
  <2>3. QED
    BY <2>1, <2>2 DEF Tab, TabOK
<1>2. ASSUME NEW t, TabOK(t), NEW p \in AllPaths PROVE TabOK([t EXCEPT !.path = p])
  <2>1. PICK u : u = [t EXCEPT !.path = p]
    OBVIOUS
  <2>2. u \in TabRecords /\ u.dirty = t.dirty /\ u.content = t.content /\ u.original = t.original
    BY <1>2, <2>1 DEF TabOK, TabRecords
  <2>3. QED
    BY <1>2, <2>1, <2>2 DEF TabOK
<1>3. QED
  BY <1>1, <1>2

\* What a filter keeps.
LEMMA SelectedTabs ==
    ASSUME NEW s, TabsOK(s), NEW I, I \subseteq DOMAIN s, NEW r \in Selected(s, I)
    PROVE  /\ TabsOK(r) /\ Len(r) <= Len(s)
           /\ \A i \in I : \E n \in DOMAIN r : r[n] = s[i]
           /\ \A n \in DOMAIN r : \E i \in I : r[n] = s[i]
<1>1. PICK f \in Counting(I) : r = [n \in DOMAIN f |-> s[f[n]]]
  BY DEF Selected
<1>2. /\ f \in [1 .. Cardinality(I) -> I]
      /\ \A i \in I : \E n \in DOMAIN f : f[n] = i
  BY <1>1 DEF Counting
<1>3. Len(s) \in Nat /\ DOMAIN s = 1 .. Len(s)
  BY DEF TabsOK
<1>4. IsFiniteSet(1 .. Len(s)) /\ Cardinality(1 .. Len(s)) = Len(s)
  BY SMTT(30), <1>3, FS_Interval
<1>5. IsFiniteSet(I) /\ Cardinality(I) <= Len(s)
  BY <1>3, <1>4, FS_Subset
<1>6. PICK n \in Nat : n = Cardinality(I)
  BY <1>5, FS_CardinalityType
<1>7. r = [m \in 1 .. n |-> r[m]] /\ \A m \in 1 .. n : f[m] \in I /\ r[m] = s[f[m]]
  BY <1>1, <1>2, <1>6
<1>8. TabsOK(r) /\ Len(r) = n
  <2>1. \A m \in 1 .. n : TabOK(r[m])
    BY <1>7 DEF TabsOK
  <2>2. QED
    BY <1>7, <2>1, TabsFrom
<1>9. DOMAIN r = DOMAIN f /\ DOMAIN r = 1 .. n
  BY <1>1, <1>2, <1>6
<1>10. QED
  BY <1>2, <1>5, <1>6, <1>7, <1>8, <1>9

\* What a step may do to unsaved text.
UnsavedStep ==
    \A i \in DOMAIN openTabs :
        openTabs[i].dirty => \/ openTabs[i].content \in Unsaved(openTabs')
                             \/ Disposed(openTabs[i].path)

\* A text is kept when some unsaved tab has it afterwards.
LEMMA KeptStep ==
    ASSUME \A i \in DOMAIN openTabs : openTabs[i].dirty =>
              \/ Disposed(openTabs[i].path)
              \/ \E j \in DOMAIN openTabs' : openTabs'[j].dirty
                                             /\ openTabs'[j].content = openTabs[i].content
    PROVE  UnsavedStep
<1>1. PICK s : s = openTabs'
  OBVIOUS
<1>2. \A j \in DOMAIN s : s[j].dirty => s[j].content \in Unsaved(s)
  BY DEF Unsaved
<1>3. QED
  BY <1>1, <1>2 DEF UnsavedStep

\* Steps that leave the tabs alone.
LEMMA SameTabs == UNCHANGED openTabs => UnsavedStep
BY KeptStep

\* Init establishes the invariant, and it gives the property.
LEMMA BuffersSound == (BufferInit => BufferInv) /\ (BufferInv => TabsHonest)
<1>1. ASSUME BufferInit PROVE BufferInv
  <2>1. PICK p, text : /\ p \in TreePaths /\ text = disk[p] /\ text # Nil
                       /\ openTabs = <<Tab(p, text, FALSE)>> /\ fileContent = text
                       /\ activeTabPath = p /\ selectedFile = p
    BY <1>1 DEF BufferInit
  <2>2. disk \in [AllPaths -> Texts \cup {Nil}]
    BY <1>1, BufferAssumption DEF BufferInit
  <2>3. p \in AllPaths /\ text \in Texts
    BY <2>1, <2>2 DEF AllPaths
  <2>4. PICK t : t = Tab(p, text, FALSE)
    OBVIOUS
  <2>5. TabOK(t)
    BY <2>3, <2>4, NewTabOK
  <2>6. TabsOK(openTabs) /\ Len(openTabs) = 1
    <3>1. openTabs = <<t>> /\ t \in TabRecords
      BY <2>1, <2>4, <2>5 DEF TabOK
    <3>2. QED
      BY <2>5, <3>1 DEF TabsOK
  <2>7. MaxTabs \in Nat /\ MaxTabs # 0
    BY BufferAssumption
  <2>8. isSaving \in BOOLEAN /\ recentlySaved = {} /\ events = {} /\ calls = {}
    BY <1>1 DEF BufferInit
  <2>9. Len(openTabs) <= MaxTabs
    BY <2>6, <2>7
  <2>10. fileContent \in Texts /\ activeTabPath \in AllPaths /\ selectedFile \in AllPaths
    BY <2>1, <2>3
  <2>11. QED
    BY <2>2, <2>6, <2>8, <2>9, <2>10 DEF BufferInv
<1>2. BufferInv => TabsHonest
  BY DEF BufferInv, TabsHonest, BufferTypeOK, DirtyExact, TabsOK, TabOK
<1>3. QED
  BY <1>1, <1>2

\* A request as the handlers make it.
LEMMA CallFits ==
    ASSUME BufferInv, NEW op, NEW p, NEW to, NEW text, NEW c, c = Call(op, p, to, text),
           op \in {"read", "save", "saveAs"} => p \in AllPaths,
           op \in {"save", "saveAs"} => text \in Texts,
           op = "sync" => text \in Texts \cup {Nil},
           op \in {"rename", "move"} => <<p, to>> \in Renames
    PROVE  CallOK(c)
<1>1. /\ DOMAIN c = {"op", "path", "to", "text", "sel", "act", "at"}
      /\ c.op = op /\ c.path = p /\ c.to = to /\ c.text = text
      /\ c.sel = selectedFile /\ c.act = activeTabPath
      /\ c.at = IF op \in {"format", "sync"} THEN "ok" ELSE "sent"
  BY DEF Call
<1>2. QED
  BY <1>1 DEF CallOK, BufferInv

\* A handler sends its request and changes nothing else that matters here.
LEMMA SendStep ==
    ASSUME BufferInv, NEW c, CallOK(c), SendCall(c), isSaving' \in BOOLEAN,
           recentlySaved' \subseteq AllPaths,
           UNCHANGED <<disk, openTabs, activeTabPath, selectedFile, fileContent, events>>
    PROVE  BufferInv' /\ UnsavedStep
<1>1. UnsavedStep
  BY SameTabs
<1>2. \A d \in calls' : CallOK(d)
  BY DEF SendCall, BufferInv
<1>3. QED
  BY <1>1, <1>2 DEF BufferInv

\* The tab that is found at a path.
LEMMA TabFound ==
    ASSUME BufferInv, NEW p, TabsAt(p) # {}
    PROVE  \E i \in DOMAIN openTabs : openTabs[i] = TabAt(p) /\ openTabs[i].path = p
                                      /\ TabAt(p) \in TabRecords
<1>1. TabsAt(p) \subseteq Nat /\ TabsAt(p) \subseteq DOMAIN openTabs
  BY DEF BufferInv, TabsOK, TabsAt
<1>2. \E i \in TabsAt(p) : \A j \in TabsAt(p) : i <= j
  BY <1>1, LeastNumber
<1>3. PICK i : i = CHOOSE k \in TabsAt(p) : \A j \in TabsAt(p) : k <= j
  OBVIOUS
<1>4. i \in TabsAt(p)
  BY <1>2, <1>3
<1>5. TabAt(p) = openTabs[i]
  BY <1>3 DEF TabAt
<1>6. i \in DOMAIN openTabs /\ openTabs[i].path = p
  BY <1>4 DEF TabsAt
<1>7. TabOK(openTabs[i])
  BY <1>6 DEF BufferInv, TabsOK
<1>8. QED
  BY <1>5, <1>6, <1>7 DEF TabOK

\* Steps that show another tab, drop a request or an event, and change no tab.
LEMMA ShowStep ==
    ASSUME BufferInv, UNCHANGED openTabs,
           calls' \subseteq calls \/ \A c \in calls' : CallOK(c),
           disk' \in [AllPaths -> Texts \cup {Nil}],
           activeTabPath' \in AllPaths \cup {Nil}, selectedFile' \in AllPaths \cup {Nil},
           fileContent' \in Texts, isSaving' \in BOOLEAN,
           recentlySaved' \subseteq AllPaths, events' \subseteq AllPaths
    PROVE  BufferInv' /\ UnsavedStep
<1>1. UnsavedStep
  BY SameTabs
<1>2. \A c \in calls' : CallOK(c)
  BY DEF BufferInv
<1>3. QED
  BY <1>1, <1>2 DEF BufferInv

\* Showing a file: handleFileSelect up to its await.
LEMMA FileSelectStep ==
    ASSUME BufferInv, NEW p \in AllPaths, FileSelect(p), UNCHANGED <<disk, openTabs, isSaving>>,
           recentlySaved' \subseteq AllPaths, events' \subseteq AllPaths
    PROVE  BufferInv' /\ UnsavedStep
<1>1. fileContent' \in Texts /\ \A c \in calls' : CallOK(c)
  <2>1. CASE TabsAt(p) # {} /\ fileContent' = TabAt(p).content /\ UNCHANGED calls
    <3>1. TabAt(p) \in TabRecords
      BY <2>1, TabFound
    <3>2. TabAt(p).content \in Texts
      BY <3>1 DEF TabRecords
    <3>3. QED
      BY <2>1, <3>2 DEF BufferInv
  <2>2. CASE SendCall(Call("read", p, Nil, Nil)) /\ UNCHANGED fileContent
    <3>1. PICK c : c = Call("read", p, Nil, Nil)
      OBVIOUS
    <3>2. CallOK(c)
      BY <3>1 DEF Call, CallOK, BufferInv
    <3>3. QED
      BY <2>2, <3>1, <3>2 DEF SendCall, BufferInv
  <2>3. QED
    BY <2>1, <2>2 DEF FileSelect
<1>2. activeTabPath' = p /\ selectedFile' = p
  BY DEF FileSelect
<1>3. QED
  BY <1>1, <1>2, ShowStep DEF BufferInv

\* handleTabChange.
LEMMA TabChangeStep ==
    ASSUME BufferInv, NEW p \in AllPaths, TabChange(p)
    PROVE  BufferInv' /\ UnsavedStep
<1>1. TabAt(p) \in TabRecords
  BY TabFound DEF TabChange
<1>2. fileContent' \in Texts
  BY <1>1 DEF TabChange, TabRecords
<1>3. QED
  BY <1>2, ShowStep DEF TabChange, BufferInv

\* A tab at the end of the list.
LEMMA AppendStep ==
    ASSUME BufferInv, NEW t, TabOK(t), openTabs' = Append(openTabs, t), Len(openTabs) < MaxTabs,
           calls' \subseteq calls, UNCHANGED <<disk, isSaving, recentlySaved, events>>,
           activeTabPath' \in AllPaths \cup {Nil}, selectedFile' \in AllPaths \cup {Nil},
           fileContent' \in Texts
    PROVE  BufferInv' /\ UnsavedStep
<1>1. PICK s : s = openTabs
  OBVIOUS
<1>2. s \in Seq(TabRecords) /\ t \in TabRecords /\ \A i \in DOMAIN s : TabOK(s[i])
  BY <1>1 DEF BufferInv, TabsOK, TabOK
<1>3. /\ Append(s, t) \in Seq(TabRecords) /\ Len(Append(s, t)) = Len(s) + 1
      /\ DOMAIN Append(s, t) = 1 .. (Len(s) + 1) /\ DOMAIN s = 1 .. Len(s)
      /\ \A i \in 1 .. Len(s) : Append(s, t)[i] = s[i]
      /\ Append(s, t)[Len(s) + 1] = t
  BY <1>2
<1>4. TabsOK(Append(s, t))
  BY <1>2, <1>3 DEF TabsOK
<1>5. Len(Append(s, t)) <= MaxTabs
  BY <1>1, <1>2, <1>3, BufferAssumption
<1>6. UnsavedStep
  <2>1. \A i \in DOMAIN openTabs : i \in DOMAIN openTabs' /\ openTabs'[i] = openTabs[i]
    BY <1>1, <1>2, <1>3
  <2>2. QED
    BY <2>1, KeptStep
<1>7. TabsOK(openTabs') /\ Len(openTabs') <= MaxTabs
  BY <1>1, <1>4, <1>5
<1>8. QED
  BY <1>6, <1>7 DEF BufferInv

\* The answer to a read.
LEMMA ReadDoneStep ==
    ASSUME BufferInv, NEW c \in calls, ReadDone(c) PROVE BufferInv' /\ UnsavedStep
<1>1. CallOK(c)
  BY DEF BufferInv
<1>2. CASE c.at = "ok" /\ Len(openTabs) < MaxTabs /\ fileContent' = c.text
           /\ openTabs' = Append(openTabs, Tab(c.path, c.text, FALSE))
  <2>1. c.path \in AllPaths /\ c.text \in Texts
    BY <1>1, <1>2 DEF CallOK, ReadDone
  <2>2. PICK t : t = Tab(c.path, c.text, FALSE)
    OBVIOUS
  <2>3. TabOK(t)
    BY <2>1, <2>2, NewTabOK
  <2>4. QED
    BY <1>2, <2>1, <2>2, <2>3, AppendStep DEF ReadDone, BufferInv
<1>3. CASE fileContent' = Blank /\ UNCHANGED openTabs
  BY <1>3, ShowStep, BufferAssumption DEF ReadDone, BufferInv
<1>4. QED
  BY <1>2, <1>3 DEF ReadDone

\* createDraftSqlFile.
LEMMA DraftStep == ASSUME BufferInv, createDraftSqlFile PROVE BufferInv' /\ UnsavedStep
<1>1. PICK t : t = Tab(DraftPath, Blank, TRUE)
  OBVIOUS
<1>2. TabOK(t)
  BY <1>1, NewTabOK, BufferAssumption DEF AllPaths
<1>3. QED
  BY <1>1, <1>2, AppendStep, BufferAssumption DEF createDraftSqlFile, AllPaths, BufferInv

\* handleCloseTab: what goes is the tab of that path.
LEMMA CloseTabStep ==
    ASSUME BufferInv, NEW p \in AllPaths, CloseTab(p) PROVE BufferInv' /\ UnsavedStep
<1>1. PICK s, I : s = openTabs /\ I = DOMAIN openTabs \ TabsAt(p)
  OBVIOUS
<1>2. PICK rest \in Selected(s, I) :
          /\ openTabs' = rest
          /\ \/ UNCHANGED ShownText
             \/ rest = <<>> /\ activeTabPath' = Nil /\ selectedFile' = Nil /\ fileContent' = Blank
             \/ /\ rest # <<>>
                /\ activeTabPath' = rest[Len(rest)].path /\ selectedFile' = rest[Len(rest)].path
                /\ fileContent' = rest[Len(rest)].content
  BY <1>1 DEF CloseTab
<1>3. TabsOK(s) /\ I \subseteq DOMAIN s
  BY <1>1 DEF BufferInv
<1>4. TabsOK(rest) /\ Len(rest) <= Len(s)
  BY <1>2, <1>3, SelectedTabs
<1>5. Len(rest) <= MaxTabs
  <2>1. Len(s) <= MaxTabs /\ Len(s) \in Nat /\ Len(rest) \in Nat /\ MaxTabs \in Nat
    BY <1>1, <1>3, <1>4, BufferAssumption DEF BufferInv, TabsOK
  <2>2. QED
    BY <1>4, <2>1
<1>6. /\ activeTabPath' \in AllPaths \cup {Nil} /\ selectedFile' \in AllPaths \cup {Nil}
      /\ fileContent' \in Texts
  <2>1. CASE UNCHANGED ShownText
    BY <2>1 DEF ShownText, BufferInv
  <2>2. CASE rest # <<>> /\ activeTabPath' = rest[Len(rest)].path
             /\ selectedFile' = rest[Len(rest)].path /\ fileContent' = rest[Len(rest)].content
    <3>1. rest[Len(rest)] \in TabRecords
      BY <1>4, <2>2 DEF TabsOK
    <3>2. rest[Len(rest)].path \in AllPaths /\ rest[Len(rest)].content \in Texts
      BY <3>1 DEF TabRecords
    <3>3. QED
      BY <2>2, <3>2
  <2>3. QED
    BY <1>2, <2>1, <2>2, BufferAssumption
<1>7. BufferInv'
  BY <1>2, <1>4, <1>5, <1>6 DEF BufferInv, CloseTab
<1>8. ASSUME NEW i \in DOMAIN openTabs
      PROVE  \/ Disposed(openTabs[i].path)
             \/ \E j \in DOMAIN openTabs' : openTabs'[j] = openTabs[i]
  <2>1. CASE openTabs[i].path = p
    BY <2>1 DEF Disposed
  <2>2. CASE openTabs[i].path # p
    <3>1. i \in I
      BY <1>1, <2>2 DEF TabsAt
    <3>2. \E n \in DOMAIN rest : rest[n] = s[i]
      BY <1>2, <1>3, <3>1, SelectedTabs
    <3>3. QED
      BY <1>1, <1>2, <3>2
  <2>3. QED
    BY <2>1, <2>2
<1>9. QED
  BY <1>7, <1>8, KeptStep

\* A handler that changes the tabs one by one, and what it needs to say of each.
LEMMA MapStep ==
    ASSUME BufferInv, DOMAIN openTabs' = DOMAIN openTabs,
           openTabs' = [i \in DOMAIN openTabs |-> openTabs'[i]],
           \A i \in DOMAIN openTabs : TabOK(openTabs'[i]),
           \A i \in DOMAIN openTabs : \/ Disposed(openTabs[i].path)
                                      \/ /\ openTabs'[i].dirty = openTabs[i].dirty
                                         /\ openTabs'[i].content = openTabs[i].content,
           calls' \subseteq calls, UNCHANGED <<disk, events>>, isSaving' \in BOOLEAN,
           recentlySaved' \subseteq AllPaths,
           activeTabPath' \in AllPaths \cup {Nil}, selectedFile' \in AllPaths \cup {Nil},
           fileContent' \in Texts
    PROVE  BufferInv' /\ UnsavedStep
<1>1. PICK s, t, n : s = openTabs /\ t = openTabs' /\ n = Len(openTabs)
  OBVIOUS
<1>2. n \in Nat /\ DOMAIN s = 1 .. n /\ n <= MaxTabs
  BY <1>1 DEF BufferInv, TabsOK
<1>3. t = [i \in 1 .. n |-> t[i]] /\ \A i \in 1 .. n : TabOK(t[i])
  BY <1>1, <1>2
<1>4. TabsOK(t) /\ Len(t) = n
  BY <1>2, <1>3, TabsFrom
<1>5. BufferInv'
  BY <1>1, <1>2, <1>4 DEF BufferInv
<1>6. UnsavedStep
  BY KeptStep
<1>7. QED
  BY <1>5, <1>6

\* handleEditorChange.
LEMMA EditorChangeStep ==
    ASSUME BufferInv, NEW text \in Texts, EditorChange(text) PROVE BufferInv' /\ UnsavedStep
<1>1. \A i \in DOMAIN openTabs : TabOK(openTabs[i])
  BY DEF BufferInv, TabsOK
<1>2. openTabs' = [i \in DOMAIN openTabs |-> IF openTabs[i].path = activeTabPath
                                              THEN Typed(openTabs[i], text) ELSE openTabs[i]]
  BY DEF EditorChange, OnTabs
<1>3. \A i \in DOMAIN openTabs : TabOK(openTabs'[i])
  <2>1. ASSUME NEW i \in DOMAIN openTabs PROVE TabOK(openTabs'[i])
    <3>1. PICK t : t = openTabs[i]
      OBVIOUS
    <3>2. TabOK(t) /\ TabOK(Typed(t, text))
      BY <1>1, <3>1, TypedOK
    <3>3. openTabs'[i] = t \/ openTabs'[i] = Typed(t, text)
      BY <1>2, <3>1
    <3>4. QED
      BY <3>2, <3>3
  <2>2. QED
    BY <2>1
<1>4. \A i \in DOMAIN openTabs : Disposed(openTabs[i].path) \/ openTabs'[i] = openTabs[i]
  BY <1>2 DEF Disposed
<1>5. QED
  BY <1>2, <1>3, <1>4, MapStep DEF EditorChange, BufferInv

\* handleFormatContent.
LEMMA FormatDoneStep ==
    ASSUME BufferInv, NEW c \in calls, NEW text \in Texts, FormatDone(c, text)
    PROVE  BufferInv' /\ UnsavedStep
<1>1. \A i \in DOMAIN openTabs : TabOK(openTabs[i])
  BY DEF BufferInv, TabsOK
<1>2. openTabs' = [i \in DOMAIN openTabs |-> IF openTabs[i].path = c.act
                                              THEN Typed(openTabs[i], text) ELSE openTabs[i]]
  BY DEF FormatDone, OnTabs
<1>3. \A i \in DOMAIN openTabs : TabOK(openTabs'[i])
  <2>1. ASSUME NEW i \in DOMAIN openTabs PROVE TabOK(openTabs'[i])
    <3>1. PICK t : t = openTabs[i]
      OBVIOUS
    <3>2. TabOK(t) /\ TabOK(Typed(t, text))
      BY <1>1, <3>1, TypedOK
    <3>3. openTabs'[i] = t \/ openTabs'[i] = Typed(t, text)
      BY <1>2, <3>1
    <3>4. QED
      BY <3>2, <3>3
  <2>2. QED
    BY <2>1
<1>4. \A i \in DOMAIN openTabs : Disposed(openTabs[i].path) \/ openTabs'[i] = openTabs[i]
  BY <1>2 DEF Disposed
<1>5. QED
  BY <1>2, <1>3, <1>4, MapStep DEF FormatDone, BufferInv

\* The end of a save.
LEMMA SaveDoneStep ==
    ASSUME BufferInv, NEW c \in calls, SaveDone(c) PROVE BufferInv' /\ UnsavedStep
<1>1. CallOK(c) /\ \A i \in DOMAIN openTabs : TabOK(openTabs[i])
  BY DEF BufferInv, TabsOK
<1>2. c.text \in Texts
  BY <1>1 DEF CallOK, SaveDone
<1>3. CASE c.at = "ok"
  <2>1. openTabs' = [i \in DOMAIN openTabs |-> IF openTabs[i].path = c.path
                                                THEN Stored(openTabs[i], c.text) ELSE openTabs[i]]
    BY <1>3 DEF SaveDone, OnTabs
  <2>2. ASSUME NEW i \in DOMAIN openTabs PROVE TabOK(openTabs'[i])
    <3>1. PICK t, text : t = openTabs[i] /\ text = c.text
      OBVIOUS
    <3>2. TabOK(t) /\ TabOK(Stored(t, text))
      BY <1>1, <1>2, <3>1, StoredOK
    <3>3. openTabs'[i] = t \/ openTabs'[i] = Stored(t, text)
      BY <2>1, <3>1
    <3>4. QED
      BY <3>2, <3>3
  <2>3. \A i \in DOMAIN openTabs : Disposed(openTabs[i].path) \/ openTabs'[i] = openTabs[i]
    BY <2>1 DEF Disposed
  <2>4. isSaving' \in BOOLEAN /\ UNCHANGED <<recentlySaved, disk, events>> /\ calls' \subseteq calls
        /\ UNCHANGED <<activeTabPath, selectedFile, fileContent>>
    BY <1>3 DEF SaveDone
  <2>5. QED
    BY <2>1, <2>2, <2>3, <2>4, MapStep DEF BufferInv
<1>4. CASE c.at # "ok"
  <2>1. /\ isSaving' \in BOOLEAN /\ recentlySaved' \subseteq recentlySaved /\ UNCHANGED openTabs
        /\ calls' \subseteq calls /\ UNCHANGED <<disk, events, activeTabPath, selectedFile, fileContent>>
    BY <1>4 DEF SaveDone
  <2>2. QED
    BY <2>1, ShowStep DEF BufferInv
<1>5. QED
  BY <1>3, <1>4

\* The end of saveDraftAs.
LEMMA SaveDraftDoneStep ==
    ASSUME BufferInv, NEW c \in calls, SaveDraftDone(c) PROVE BufferInv' /\ UnsavedStep
<1>1. CallOK(c) /\ TabsOK(openTabs)
  BY DEF BufferInv
<1>2. c.text \in Texts /\ c.path \in AllPaths
  BY <1>1 DEF CallOK, SaveDraftDone
<1>3. /\ isSaving' \in BOOLEAN /\ calls' \subseteq calls
      /\ UNCHANGED <<disk, fileContent, recentlySaved, events>>
  BY DEF SaveDraftDone
<1>4. CASE c.at = "ok"
  <2>1. PICK s, I : /\ s = openTabs
                    /\ I = {i \in DOMAIN openTabs : openTabs[i].path = c.to
                                                    \/ openTabs[i].path # c.path}
    OBVIOUS
  <2>2. PICK others \in Selected(s, I) :
           openTabs' = [i \in DOMAIN others |->
                          IF others[i].path = c.to
                          THEN [Stored(others[i], c.text) EXCEPT !.path = c.path, !.draft = FALSE]
                          ELSE others[i]]
    BY <1>4, <2>1 DEF SaveDraftDone
  <2>3. TabsOK(s) /\ I \subseteq DOMAIN s
    BY <1>1, <2>1
  <2>4. /\ TabsOK(others) /\ Len(others) <= Len(s)
        /\ \A i \in I : \E n \in DOMAIN others : others[n] = s[i]
    <3>1. others \in Selected(s, I)
      OBVIOUS
    <3>2. TabsOK(others) /\ Len(others) <= Len(s)
      BY <2>3, <3>1, SelectedTabs
    <3>3. ASSUME NEW i \in I PROVE \E n \in DOMAIN others : others[n] = s[i]
      BY <2>3, <3>1, SelectedTabs
    <3>4. QED
      BY <3>2, <3>3
  <2>5. PICK n : n = Len(others)
    OBVIOUS
  <2>6. n \in Nat /\ DOMAIN others = 1 .. n /\ n <= MaxTabs
    <3>1. /\ Len(s) <= MaxTabs /\ Len(s) \in Nat /\ Len(others) \in Nat /\ MaxTabs \in Nat
          /\ DOMAIN others = 1 .. Len(others)
      BY <2>1, <2>3, <2>4, BufferAssumption DEF BufferInv, TabsOK
    <3>2. QED
      BY <2>4, <2>5, <3>1
  <2>7. ASSUME NEW i \in DOMAIN others PROVE TabOK(openTabs'[i])
    <3>1. PICK t, text, p : t = others[i] /\ text = c.text /\ p = c.path
      OBVIOUS
    <3>2. TabOK(t)
      BY <2>4, <3>1 DEF TabsOK
    <3>3. TabOK([Stored(t, text) EXCEPT !.path = p, !.draft = FALSE])
      BY <1>2, <3>1, <3>2, StoredOK
    <3>4. openTabs'[i] = t \/ openTabs'[i] = [Stored(t, text) EXCEPT !.path = p, !.draft = FALSE]
      BY <2>2, <3>1
    <3>5. QED
      BY <3>2, <3>3, <3>4
  <2>8. TabsOK(openTabs') /\ Len(openTabs') = n
    <3>1. PICK r : r = openTabs'
      OBVIOUS
    <3>2. r = [i \in 1 .. n |-> r[i]]
      BY <2>2, <2>6, <3>1
    <3>3. \A i \in 1 .. n : TabOK(r[i])
      BY <2>6, <2>7, <3>1
    <3>4. TabsOK(r) /\ Len(r) = n
      BY <2>6, <3>2, <3>3, TabsFrom
    <3>5. QED
      BY <3>1, <3>4
  <2>9. selectedFile' = c.path /\ activeTabPath' = c.path
    BY <1>4 DEF SaveDraftDone
  <2>10. BufferInv'
    BY <1>2, <1>3, <2>6, <2>8, <2>9 DEF BufferInv
  <2>11. ASSUME NEW i \in DOMAIN openTabs
         PROVE  \/ Disposed(openTabs[i].path)
                \/ \E j \in DOMAIN openTabs' : openTabs'[j] = openTabs[i]
    <3>1. CASE openTabs[i].path \in {c.path, c.to}
      BY <3>1 DEF Disposed
    <3>2. CASE openTabs[i].path \notin {c.path, c.to}
      <4>1. i \in I
        BY <2>1, <3>2
      <4>2. PICK m \in DOMAIN others : others[m] = s[i]
        BY <2>4, <4>1
      <4>3. m \in DOMAIN openTabs' /\ openTabs'[m] = openTabs[i]
        BY <2>1, <2>2, <3>2, <4>2
      <4>4. QED
        BY <4>3
    <3>3. QED
      BY <3>1, <3>2
  <2>12. QED
    BY <2>10, <2>11, KeptStep
<1>5. CASE c.at # "ok"
  <2>1. UNCHANGED <<openTabs, selectedFile, activeTabPath>>
    BY <1>5 DEF SaveDraftDone
  <2>2. QED
    BY <1>3, <2>1, ShowStep DEF BufferInv
<1>6. QED
  BY <1>4, <1>5

\* Requests for a save, a format, a relocation, a deletion or a sync.
LEMMA RequestStep ==
    ASSUME BufferInv,
           \/ SaveFile
           \/ \E p \in TreePaths : SaveDraftAs(p)
           \/ FormatSql
           \/ \E r \in Renames, op \in {"rename", "move"} : StartRelocation(op, r[1], r[2])
           \/ \E p \in TreePaths : StartDelete(p)
           \/ SyncFromStorage
    PROVE  BufferInv' /\ UnsavedStep
<1>1. CASE SaveFile
  <2>1. PICK c : c = Call("save", selectedFile, Nil, fileContent)
    OBVIOUS
  <2>2. selectedFile \in AllPaths
    BY <1>1 DEF SaveFile, BufferInv
  <2>3. CallOK(c)
    BY <2>1, <2>2 DEF Call, CallOK, BufferInv
  <2>4. QED
    BY <1>1, <2>1, <2>2, <2>3, SendStep DEF SaveFile, BufferInv
<1>2. ASSUME NEW p \in TreePaths, SaveDraftAs(p) PROVE BufferInv' /\ UnsavedStep
  <2>1. PICK c : c = Call("saveAs", p, activeTabPath, fileContent)
    OBVIOUS
  <2>2. CallOK(c)
    BY <2>1 DEF Call, CallOK, BufferInv, AllPaths
  <2>3. QED
    BY <1>2, <2>1, <2>2, SendStep DEF SaveDraftAs, BufferInv
<1>3. CASE FormatSql
  <2>1. PICK c : c = Call("format", activeTabPath, Nil, fileContent)
    OBVIOUS
  <2>2. CallOK(c)
    BY <2>1 DEF Call, CallOK, BufferInv
  <2>3. QED
    BY <1>3, <2>1, <2>2, SendStep DEF FormatSql, BufferInv
<1>4. ASSUME NEW r \in Renames, NEW op \in {"rename", "move"}, StartRelocation(op, r[1], r[2])
      PROVE  BufferInv' /\ UnsavedStep
  <2>1. PICK c : c = Call(op, r[1], r[2], Nil)
    OBVIOUS
  <2>2. <<r[1], r[2]>> \in Renames
    BY <1>4 DEF StartRelocation
  <2>3. CallOK(c)
    BY <2>1, <2>2 DEF Call, CallOK, BufferInv
  <2>4. QED
    BY <1>4, <2>1, <2>3, SendStep DEF StartRelocation, BufferInv
<1>5. ASSUME NEW p \in TreePaths, StartDelete(p) PROVE BufferInv' /\ UnsavedStep
  <2>1. PICK c : c = Call("delete", p, Nil, Nil)
    OBVIOUS
  <2>2. CallOK(c)
    BY <2>1 DEF Call, CallOK, BufferInv
  <2>3. QED
    BY <1>5, <2>1, <2>2, SendStep DEF StartDelete, BufferInv
<1>6. CASE SyncFromStorage
  <2>1. PICK text : /\ text = IF TabsAt(activeTabPath) # {} /\ ~TabAt(activeTabPath).dirty
                              THEN TabAt(activeTabPath).content ELSE Nil
    OBVIOUS
  <2>2. text \in Texts \cup {Nil}
    <3>1. TabsAt(activeTabPath) # {} => TabAt(activeTabPath) \in TabRecords
      <4>1. PICK p : p = activeTabPath
        OBVIOUS
      <4>2. TabsAt(p) # {} => TabAt(p) \in TabRecords
        BY TabFound
      <4>3. QED
        BY <4>1, <4>2
    <3>2. TabsAt(activeTabPath) # {} => TabAt(activeTabPath).content \in Texts
      BY <3>1 DEF TabRecords
    <3>3. QED
      BY <2>1, <3>2
  <2>3. PICK c : c = Call("sync", activeTabPath, Nil, text)
    OBVIOUS
  <2>4. CallOK(c)
    BY <2>2, <2>3 DEF Call, CallOK, BufferInv
  <2>5. SendCall(c)
    BY <1>6, <2>1, <2>3 DEF SyncFromStorage
  <2>6. QED
    BY <1>6, <2>4, <2>5, SendStep DEF SyncFromStorage, BufferInv
<1>7. QED
  BY <1>1, <1>2, <1>3, <1>4, <1>5, <1>6

\* A path after a relocation is one of the project's still, and Follow gives one.
LEMMA RelocatedPath ==
    ASSUME NEW r \in Renames
    PROVE  /\ \A p \in AllPaths : renamePath(p, r[1], r[2]) \in AllPaths
           /\ renamePath(Nil, r[1], r[2]) = Nil
<1>1. \A p \in TreePaths : renamePath(p, r[1], r[2]) \in TreePaths
  BY RenamesAssumption
<1>2. renamePath(DraftPath, r[1], r[2]) = DraftPath
  BY RenamesAssumption
<1>3. renamePath(Nil, r[1], r[2]) = Nil
  BY DEF renamePath
<1>4. QED
  BY <1>1, <1>2, <1>3 DEF AllPaths

\* The answers to a rename and to a move.
LEMMA RelocationStep ==
    ASSUME BufferInv, NEW c \in calls, RenameDone(c) \/ MoveDone(c)
    PROVE  BufferInv' /\ UnsavedStep
<1>1. CallOK(c) /\ \A i \in DOMAIN openTabs : TabOK(openTabs[i])
  BY DEF BufferInv, TabsOK
<1>2. <<c.path, c.to>> \in Renames
  BY <1>1 DEF CallOK, RenameDone, MoveDone
<1>3. PICK r, from, to : r = <<c.path, c.to>> /\ from = c.path /\ to = c.to
  OBVIOUS
<1>4. r \in Renames /\ r[1] = from /\ r[2] = to
  BY <1>2, <1>3
<1>5. /\ \A p \in AllPaths : renamePath(p, from, to) \in AllPaths
      /\ renamePath(Nil, from, to) = Nil
  BY <1>4, RelocatedPath
<1>6. /\ calls' \subseteq calls
      /\ UNCHANGED <<disk, fileContent, isSaving, recentlySaved, events>>
  BY DEF RenameDone, MoveDone
<1>7. CASE c.at = "ok"
  <2>1. openTabs' = [i \in DOMAIN openTabs |->
                       [openTabs[i] EXCEPT !.path = renamePath(openTabs[i].path, from, to)]]
    BY <1>3, <1>7 DEF RenameDone, MoveDone, Relocated
  <2>2. ASSUME NEW i \in DOMAIN openTabs
        PROVE  /\ TabOK(openTabs'[i]) /\ openTabs'[i].dirty = openTabs[i].dirty
               /\ openTabs'[i].content = openTabs[i].content
    <3>1. PICK t, p : t = openTabs[i] /\ p = renamePath(openTabs[i].path, from, to)
      OBVIOUS
    <3>2. TabOK(t)
      BY <1>1, <3>1
    <3>3. t.path \in AllPaths
      BY <3>2 DEF TabOK, TabRecords
    <3>4. p \in AllPaths
      BY <1>5, <3>1, <3>3
    <3>5. TabOK([t EXCEPT !.path = p])
      BY <3>2, <3>4, NewTabOK
    <3>6. openTabs'[i] = [t EXCEPT !.path = p]
      BY <2>1, <3>1
    <3>7. [t EXCEPT !.path = p].dirty = t.dirty /\ [t EXCEPT !.path = p].content = t.content
      BY <3>2 DEF TabOK, TabRecords
    <3>8. QED
      BY <3>1, <3>5, <3>6, <3>7
  <2>3. ASSUME NEW captured, captured \in AllPaths \cup {Nil}, NEW now, now \in AllPaths \cup {Nil}
        PROVE  Follow(captured, now, c) \in AllPaths \cup {Nil}
    BY <1>3, <1>5, <2>3 DEF Follow
  <2>4. Follow(c.sel, selectedFile, c) \in AllPaths \cup {Nil}
    <3>1. PICK captured, now : captured = c.sel /\ now = selectedFile
      OBVIOUS
    <3>2. captured \in AllPaths \cup {Nil} /\ now \in AllPaths \cup {Nil}
      BY <1>1, <3>1 DEF CallOK, BufferInv
    <3>3. QED
      BY <2>3, <3>1, <3>2
  <2>5. Follow(c.act, activeTabPath, c) \in AllPaths \cup {Nil}
    <3>1. PICK captured, now : captured = c.act /\ now = activeTabPath
      OBVIOUS
    <3>2. captured \in AllPaths \cup {Nil} /\ now \in AllPaths \cup {Nil}
      BY <1>1, <3>1 DEF CallOK, BufferInv
    <3>3. QED
      BY <2>3, <3>1, <3>2
  <2>6. activeTabPath' \in AllPaths \cup {Nil} /\ selectedFile' \in AllPaths \cup {Nil}
    BY <1>7, <2>4, <2>5 DEF RenameDone, MoveDone, BufferInv
  <2>7. DOMAIN openTabs' = DOMAIN openTabs /\ openTabs' = [i \in DOMAIN openTabs |-> openTabs'[i]]
    BY <2>1
  <2>8. QED
    BY <1>6, <2>2, <2>6, <2>7, MapStep DEF BufferInv
<1>8. CASE c.at # "ok"
  <2>1. UNCHANGED <<openTabs, selectedFile, activeTabPath>>
    BY <1>8 DEF RenameDone, MoveDone
  <2>2. QED
    BY <1>6, <2>1, ShowStep DEF BufferInv
<1>9. QED
  BY <1>7, <1>8

\* The answers to a deletion and to a sync.
LEMMA AnswerStep ==
    ASSUME BufferInv, NEW c \in calls, DeleteDone(c) \/ SyncDone(c)
    PROVE  BufferInv' /\ UnsavedStep
<1>1. CallOK(c)
  BY DEF BufferInv
<1>2. /\ calls' \subseteq calls
      /\ UNCHANGED <<disk, openTabs, isSaving, recentlySaved, events>>
  BY DEF DeleteDone, SyncDone
<1>3. /\ activeTabPath' \in AllPaths \cup {Nil} /\ selectedFile' \in AllPaths \cup {Nil}
      /\ fileContent' \in Texts
  <2>1. CASE DeleteDone(c)
    BY <2>1, BufferAssumption DEF DeleteDone, BufferInv
  <2>2. CASE SyncDone(c)
    <3>1. c.text \in Texts \cup {Nil} /\ c.act \in AllPaths \cup {Nil}
      BY <1>1, <2>2 DEF CallOK, SyncDone
    <3>2. QED
      BY <2>2, <3>1 DEF SyncDone, ShownText, BufferInv
  <2>3. QED
    BY <2>1, <2>2
<1>4. QED
  BY <1>2, <1>3, ShowStep DEF BufferInv

\* Events, the timer, another writer and a reload of the page.
LEMMA OtherStep ==
    ASSUME BufferInv,
           \/ \E p \in events : WatchModified(p)
           \/ \E p \in recentlySaved : ForgetSaved(p)
           \/ \E p \in TreePaths, text \in Texts : ExternalWrite(p, text)
           \/ \E c \in calls : LoseCall(c)
           \/ Reload
    PROVE  BufferInv' /\ UnsavedStep
<1>1. ASSUME NEW p \in events, WatchModified(p) PROVE BufferInv' /\ UnsavedStep
  <2>1. events' \subseteq AllPaths /\ recentlySaved' \subseteq AllPaths
    BY <1>1 DEF WatchModified, BufferInv
  <2>2. UNCHANGED <<disk, openTabs, isSaving>> /\ p \in AllPaths
    BY <1>1 DEF WatchModified, BufferInv
  <2>3. FileSelect(p) \/ UNCHANGED <<activeTabPath, selectedFile, fileContent, calls>>
    BY <1>1 DEF WatchModified
  <2>4. CASE FileSelect(p)
    BY <2>1, <2>2, <2>4, FileSelectStep
  <2>5. CASE UNCHANGED <<activeTabPath, selectedFile, fileContent, calls>>
    BY <2>1, <2>2, <2>5, ShowStep DEF BufferInv
  <2>6. QED
    BY <2>3, <2>4, <2>5
<1>2. ASSUME NEW p \in recentlySaved, ForgetSaved(p) PROVE BufferInv' /\ UnsavedStep
  <2>1. recentlySaved' \subseteq AllPaths
    BY <1>2 DEF ForgetSaved, BufferInv
  <2>2. QED
    BY <1>2, <2>1, ShowStep DEF ForgetSaved, BufferInv
<1>3. ASSUME NEW p \in TreePaths, NEW text \in Texts, ExternalWrite(p, text)
      PROVE  BufferInv' /\ UnsavedStep
  <2>1. events' \subseteq AllPaths
    BY <1>3 DEF ExternalWrite, Notify, BufferInv, AllPaths
  <2>2. disk' \in [AllPaths -> Texts \cup {Nil}]
    BY <1>3 DEF ExternalWrite, BufferInv
  <2>3. QED
    BY <1>3, <2>1, <2>2, ShowStep DEF ExternalWrite, BufferInv
<1>4. ASSUME NEW c \in calls, LoseCall(c) PROVE BufferInv' /\ UnsavedStep
  <2>1. PICK d : d = [c EXCEPT !.at = "failed"]
    OBVIOUS
  <2>2. CallOK(c)
    BY DEF BufferInv
  <2>3. CallOK(d)
    BY <2>1, <2>2 DEF CallOK
  <2>4. \A e \in calls' : CallOK(e)
    BY <1>4, <2>1, <2>3 DEF LoseCall, BufferInv
  <2>5. QED
    BY <1>4, <2>4, ShowStep DEF LoseCall, BufferInv
<1>5. CASE Reload
  <2>1. /\ UNCHANGED <<openTabs, activeTabPath, selectedFile, fileContent, disk>>
        /\ calls' = {} /\ isSaving' \in BOOLEAN /\ recentlySaved' = {} /\ events' = {}
    BY <1>5 DEF Reload, Session
  <2>2. QED
    BY <2>1, ShowStep DEF BufferInv
<1>6. QED
  BY <1>1, <1>2, <1>3, <1>4, <1>5

\* The runner has put its answer on a request.
AnswerPut(c, at, text) ==
    /\ at \in {"ok", "failed"}
    /\ calls' = (calls \ {c}) \cup {[c EXCEPT !.at = at, !.text = text]}
    /\ c.op = "read" /\ at = "ok" => text \in Texts
    /\ c.op \in {"save", "saveAs"} => text = c.text
    /\ c.op \in {"read", "save", "saveAs", "rename", "move", "delete"}

\* The files at a path or under it.
Filed(q) == {p \in TreePaths : IsPrefix(q, p) /\ disk[p] # Nil}

\* The files U have been carried along by the relocation c.
Carried(c, U) ==
    disk' = [p \in AllPaths |->
               IF p \in U THEN Nil
               ELSE LET src == {q \in U : renamePath(q, c.path, c.to) = p}
                    IN  IF src = {} THEN disk[p] ELSE disk[CHOOSE q \in src : TRUE]]

\* The runner serves a request.
LEMMA ServeStep ==
    ASSUME BufferInv, NEW c \in calls, Serve(c) PROVE BufferInv' /\ UnsavedStep
<1>1. CallOK(c) /\ disk \in [AllPaths -> Texts \cup {Nil}]
  BY DEF BufferInv
<1>2. PICK at, text : AnswerPut(c, at, text)
  <2>1. CASE c.op = "read"
    <3>1. c.path \in AllPaths
      BY <1>1, <2>1 DEF CallOK
    <3>2. disk[c.path] \in Texts \cup {Nil}
      BY <1>1, <3>1
    <3>3. PICK at, text : at = (IF disk[c.path] # Nil THEN "ok" ELSE "failed") /\ text = disk[c.path]
      OBVIOUS
    <3>4. calls' = (calls \ {c}) \cup {[c EXCEPT !.at = at, !.text = text]}
      BY <2>1, <3>3 DEF Serve
    <3>5. at \in {"ok", "failed"} /\ (at = "ok" => text \in Texts)
      BY <3>2, <3>3
    <3>6. AnswerPut(c, at, text)
      BY <2>1, <3>4, <3>5 DEF AnswerPut
    <3>7. QED
      BY <3>6
  <2>2. CASE c.op \in {"save", "saveAs"}
    <3>1. PICK at, text : at = "ok" /\ text = c.text
      OBVIOUS
    <3>2. calls' = (calls \ {c}) \cup {[c EXCEPT !.at = at, !.text = text]}
      BY <2>2, <3>1 DEF Serve
    <3>3. AnswerPut(c, at, text)
      BY <2>2, <3>1, <3>2 DEF AnswerPut
    <3>4. QED
      BY SMTT(30), <3>3
  <2>3. CASE c.op \in {"rename", "move"}
    <3>1. \/ calls' = (calls \ {c}) \cup {[c EXCEPT !.at = "ok", !.text = Nil]}
          \/ calls' = (calls \ {c}) \cup {[c EXCEPT !.at = "failed", !.text = Nil]}
      BY <2>3 DEF Serve
    <3>2. AnswerPut(c, "ok", Nil) \/ AnswerPut(c, "failed", Nil)
      BY <2>3, <3>1 DEF AnswerPut
    <3>3. QED
      BY <3>2
  <2>4. CASE c.op = "delete"
    <3>1. PICK at, text : /\ text = Nil
                          /\ at = IF {p \in TreePaths : IsPrefix(c.path, p) /\ disk[p] # Nil} # {}
                                  THEN "ok" ELSE "failed"
      OBVIOUS
    <3>2. calls' = (calls \ {c}) \cup {[c EXCEPT !.at = at, !.text = text]}
      BY <2>4, <3>1 DEF Serve
    <3>3. at \in {"ok", "failed"}
      BY <3>1
    <3>4. AnswerPut(c, at, text)
      BY <2>4, <3>2, <3>3 DEF AnswerPut
    <3>5. QED
      BY <3>4
  <2>5. QED
    BY <2>1, <2>2, <2>3, <2>4 DEF Serve
<1>3. PICK d : d = [c EXCEPT !.at = at, !.text = text]
  OBVIOUS
<1>4. CallOK(d)
  BY <1>1, <1>2, <1>3 DEF CallOK, AnswerPut
<1>5. \A e \in calls' : CallOK(e)
  BY <1>2, <1>3, <1>4 DEF BufferInv, AnswerPut
<1>6. /\ disk' \in [AllPaths -> Texts \cup {Nil}] /\ events' \subseteq AllPaths
  <2>1. CASE c.op = "read"
    BY <2>1 DEF Serve, BufferInv
  <2>2. CASE c.op \in {"save", "saveAs"}
    <3>1. c.path \in AllPaths /\ c.text \in Texts
      BY <1>1, <2>2 DEF CallOK
    <3>2. disk' = [disk EXCEPT ![c.path] = c.text] /\ Notify(c.path)
      BY <2>2 DEF Serve
    <3>3. QED
      BY <1>1, <3>1, <3>2 DEF Notify, BufferInv
  <2>3. CASE c.op \in {"rename", "move"}
    <3>1. PICK U : U = Filed(c.path)
      OBVIOUS
    <3>3. CASE Carried(c, U)
      <4>1. U \subseteq AllPaths
        BY <3>1 DEF AllPaths, Filed
      <4>2. \A S : S \subseteq U /\ S # {} => disk[CHOOSE q \in S : TRUE] \in Texts \cup {Nil}
        BY <1>1, <4>1
      <4>3. ASSUME NEW p \in AllPaths PROVE disk'[p] \in Texts \cup {Nil}
        <5>1. PICK S : S = {q \in U : renamePath(q, c.path, c.to) = p}
          OBVIOUS
        <5>2. S \subseteq U
          BY <5>1
        <5>3. disk'[p] = IF p \in U THEN Nil
                         ELSE IF S = {} THEN disk[p] ELSE disk[CHOOSE q \in S : TRUE]
          BY SMTT(30), <3>3, <5>1 DEF Carried
        <5>4. QED
          BY <1>1, <4>2, <5>2, <5>3
      <4>4. disk' = [p \in AllPaths |-> disk'[p]]
        BY SMTT(30), <3>3 DEF Carried
      <4>5. UNCHANGED events
        BY ZenonT(40), <2>3 DEF Serve
      <4>6. QED
        BY <4>3, <4>4, <4>5 DEF BufferInv
    <3>4. CASE UNCHANGED disk
      BY ZenonT(40), <1>1, <2>3, <3>4 DEF Serve, BufferInv
    <3>5. UNCHANGED disk \/ Carried(c, Filed(c.path))
      BY <2>3 DEF Serve, Carried, Filed
    <3>6. QED
      BY <3>1, <3>3, <3>4, <3>5
  <2>4. CASE c.op = "delete"
    <3>1. disk' = [p \in AllPaths |-> IF IsPrefix(c.path, p) THEN Nil ELSE disk[p]]
      BY ZenonT(40), <2>4 DEF Serve
    <3>2. UNCHANGED events
      BY <2>4 DEF Serve
    <3>3. QED
      BY <1>1, <3>1, <3>2 DEF BufferInv
  <2>5. QED
    BY <1>2, <2>1, <2>2, <2>3, <2>4 DEF AnswerPut
<1>7. UNCHANGED <<openTabs, activeTabPath, selectedFile, fileContent, isSaving, recentlySaved>>
  BY DEF Serve
<1>8. QED
  BY <1>5, <1>6, <1>7, ShowStep DEF BufferInv

\* Every step of the editor keeps the invariant and the unsaved text.
LEMMA BufferStep == BufferInv /\ [BufferNext]_bufferVars => BufferInv' /\ [UnsavedStep]_bufferVars
<1> SUFFICES ASSUME BufferInv, [BufferNext]_bufferVars
             PROVE  BufferInv' /\ [UnsavedStep]_bufferVars
  OBVIOUS
<1>1. CASE UNCHANGED bufferVars
  BY <1>1 DEF bufferVars, BufferInv
<1>2. CASE UserStep
  <2>1. ASSUME NEW p \in TreePaths, OpenFile(p) PROVE BufferInv' /\ UnsavedStep
    BY <2>1, FileSelectStep DEF OpenFile, AllPaths, BufferInv
  <2>2. ASSUME NEW p \in TreePaths \cup {DraftPath}, TabChange(p) \/ CloseTab(p)
        PROVE  BufferInv' /\ UnsavedStep
    BY <2>2, TabChangeStep, CloseTabStep DEF AllPaths
  <2>3. QED
    BY <1>2, <2>1, <2>2, DraftStep, EditorChangeStep, RequestStep, OtherStep DEF UserStep
<1>3. ASSUME NEW c \in calls, Handled(c) PROVE BufferInv' /\ UnsavedStep
  BY <1>3, ReadDoneStep, SaveDoneStep, SaveDraftDoneStep, RelocationStep, AnswerStep,
     FormatDoneStep DEF Handled, formatFile
<1>4. CASE WorldStep
  BY <1>4, ServeStep, OtherStep DEF WorldStep
<1>5. QED
  BY <1>1, <1>2, <1>3, <1>4 DEF BufferNext

\* For any files, texts, renames and any order of the answers: every tab has a file's path
\* and texts, and its mark of unsaved text is exact.
THEOREM TabsAreHonest == Spec => []TabsHonest
<1>1. Init => BufferInv
  BY BuffersSound DEF Init
<1>2. BufferInv /\ [Next]_vars => BufferInv'
  BY BufferStep, IdeSteps
<1>3. QED
  BY <1>1, <1>2, BuffersSound, PTL DEF Spec

\* For any files, texts, renames and any order of the answers: unsaved text is given up by
\* typing, closing, formatting or saving that file, and by nothing else.
LEMMA TextIsKept == Spec => UnsavedKept
<1>1. Init => BufferInv
  BY BuffersSound DEF Init
<1>2. Spec => [][UnsavedStep]_bufferVars
  BY <1>1, BufferStep, IdeSteps, PTL DEF Spec
<1>3. [UnsavedStep]_bufferVars =>
        [\A i \in DOMAIN openTabs :
            openTabs[i].dirty => \/ openTabs[i].content \in Unsaved(openTabs')
                                \/ Disposed(openTabs[i].path)]_bufferVars
  BY DEF UnsavedStep
<1>4. QED
  BY <1>2, <1>3, PTL DEF UnsavedKept

-----------------------------------------------------------------------------
(* The file explorer: paths.                                               *)

PathSeq == Seq(STRING)

\* A prefix, name by name.
LEMMA PrefixNames ==
    ASSUME NEW s \in PathSeq, NEW t \in PathSeq
    PROVE  IsPrefix(s, t) <=> Len(s) <= Len(t) /\ \A i \in 1 .. Len(s) : s[i] = t[i]
<1>1. Len(s) \in Nat /\ Len(t) \in Nat /\ SubSeq(s, 1, Len(s)) = s
  BY SubSeqFull DEF PathSeq
<1>2. CASE Len(s) <= Len(t)
  <2>1. \A i \in 1 .. Len(s) : t[i] \in STRING
    BY <1>1, <1>2 DEF PathSeq
  <2>2. PICK u : u = SubSeq(t, 1, Len(s))
    OBVIOUS
  <2>3. u \in Seq(STRING) /\ Len(u) = Len(s) /\ \A i \in 1 .. Len(s) : u[i] = t[i]
    <3>1. 1 \in Int /\ Len(s) \in Int
      BY <1>1
    <3>2. /\ u \in Seq(STRING) /\ Len(u) = IF 1 <= Len(s) THEN Len(s) - 1 + 1 ELSE 0
          /\ \A i \in 1 .. (Len(s) - 1 + 1) : u[i] = t[1 + i - 1]
      BY <2>1, <2>2, <3>1, SubSeqProperties
    <3>3. QED
      BY <1>1, <3>2
  <2>4. s = u <=> \A i \in 1 .. Len(s) : s[i] = u[i]
    BY <2>3, SeqEqual DEF PathSeq
  <2>5. QED
    BY <1>1, <1>2, <2>2, <2>3, <2>4 DEF IsPrefix
<1>3. CASE ~(Len(s) <= Len(t))
  BY <1>3 DEF IsPrefix
<1>4. QED
  BY <1>2, <1>3

\* Two paths of the same names are the same.
LEMMA SamePath ==
    ASSUME NEW s \in PathSeq, NEW t \in PathSeq, Len(s) = Len(t), \A i \in 1 .. Len(s) : s[i] = t[i]
    PROVE  s = t
BY SeqEqual DEF PathSeq

\* A folder, name by name.
LEMMA ParentNames ==
    ASSUME NEW p \in PathSeq
    PROVE  /\ parentOf(p) \in PathSeq
           /\ p # Root => /\ Len(p) \in Nat /\ Len(p) > 0 /\ Len(parentOf(p)) = Len(p) - 1
                          /\ \A i \in 1 .. (Len(p) - 1) : parentOf(p)[i] = p[i]
<1>1. CASE p = Root
  BY <1>1 DEF parentOf, Root, PathSeq
<1>2. CASE p # Root
  <2>1. Len(p) \in Nat /\ Len(p) > 0
    BY <1>2, EmptySeq DEF Root, PathSeq
  <2>2. \A i \in 1 .. (Len(p) - 1) : p[i] \in STRING
    BY <2>1 DEF PathSeq
  <2>3. PICK n : n = Len(p) - 1
    OBVIOUS
  <2>4. n \in Int /\ 1 \in Int /\ n >= 0
    BY <2>1, <2>3
  <2>5. PICK u : u = SubSeq(p, 1, n)
    OBVIOUS
  <2>6. /\ u \in Seq(STRING) /\ Len(u) = IF 1 <= n THEN n - 1 + 1 ELSE 0
        /\ \A i \in 1 .. (n - 1 + 1) : u[i] = p[1 + i - 1]
    BY <2>2, <2>3, <2>4, <2>5, SubSeqProperties
  <2>7. Len(u) = n /\ \A i \in 1 .. n : u[i] = p[i]
    BY <2>4, <2>6
  <2>8. u = parentOf(p)
    BY <1>2, <2>3, <2>5 DEF parentOf, Front
  <2>9. QED
    BY <1>2, <2>1, <2>3, <2>6, <2>7, <2>8 DEF PathSeq
<1>3. QED
  BY <1>1, <1>2

\* A path in a folder.
LEMMA ChildPath ==
    ASSUME NEW d \in PathSeq, NEW n \in STRING
    PROVE  /\ Append(d, n) \in PathSeq /\ Append(d, n) # Root
           /\ parentOf(Append(d, n)) = d /\ Len(Append(d, n)) = Len(d) + 1
           /\ \A i \in 1 .. Len(d) : Append(d, n)[i] = d[i]
<1>1. PICK p : p = Append(d, n)
  OBVIOUS
<1>2. /\ p \in PathSeq /\ Len(p) = Len(d) + 1 /\ Len(d) \in Nat
      /\ \A i \in 1 .. Len(d) : p[i] = d[i]
  BY <1>1 DEF PathSeq
<1>3. p # Root
  BY <1>2 DEF Root
<1>4. /\ parentOf(p) \in PathSeq /\ Len(parentOf(p)) = Len(p) - 1
      /\ \A i \in 1 .. (Len(p) - 1) : parentOf(p)[i] = p[i]
  BY <1>2, <1>3, ParentNames
<1>5. Len(parentOf(p)) = Len(d) /\ \A i \in 1 .. Len(parentOf(p)) : parentOf(p)[i] = d[i]
  BY <1>2, <1>4
<1>6. parentOf(p) = d
  BY <1>4, <1>5, SamePath
<1>7. QED
  BY <1>1, <1>2, <1>3, <1>6

\* The path r is p with its prefix from replaced by to, name by name.
Replaced(r, p, from, to) ==
    /\ r \in PathSeq /\ Len(r) = Len(to) + (Len(p) - Len(from))
    /\ \A i \in 1 .. Len(to) : r[i] = to[i]
    /\ \A i \in 1 .. (Len(p) - Len(from)) : r[Len(to) + i] = p[Len(from) + i]

\* A path after a relocation.
LEMMA RelocateNames ==
    ASSUME NEW from \in PathSeq, NEW to \in PathSeq, NEW p \in PathSeq, IsPrefix(from, p)
    PROVE  Replaced(Relocate(p, from, to), p, from, to)
<1>1. PICK a, b, c, rest : /\ a = Len(from) /\ b = Len(to) /\ c = Len(p)
                           /\ rest = SubSeq(p, a + 1, c)
  OBVIOUS
<1>2. a \in Nat /\ b \in Nat /\ c \in Nat /\ a <= c
  BY <1>1, PrefixNames DEF PathSeq
<1>3. \A i \in (a + 1) .. c : p[i] \in STRING
  BY <1>1, <1>2 DEF PathSeq
<1>4. PICK m : m = a + 1
  OBVIOUS
<1>5. m \in Int /\ c \in Int
  BY <1>2, <1>4
<1>6. /\ rest \in Seq(STRING) /\ Len(rest) = IF m <= c THEN c - m + 1 ELSE 0
      /\ \A i \in 1 .. (c - m + 1) : rest[i] = p[m + i - 1]
  BY <1>1, <1>3, <1>4, <1>5, SubSeqProperties
<1>7. Len(rest) = c - a /\ \A i \in 1 .. (c - a) : rest[i] = p[a + i]
  BY <1>2, <1>4, <1>6
<1>8. PICK r : r = to \o rest
  OBVIOUS
<1>9. /\ r \in PathSeq /\ Len(r) = b + (c - a)
      /\ \A i \in 1 .. (b + (c - a)) : r[i] = IF i <= b THEN to[i] ELSE rest[i - b]
  <2>1. to \in Seq(STRING) /\ rest \in Seq(STRING)
    BY <1>6 DEF PathSeq
  <2>2. /\ r \in Seq(STRING) /\ Len(r) = Len(to) + Len(rest)
        /\ \A i \in 1 .. (Len(to) + Len(rest)) :
              r[i] = IF i <= Len(to) THEN to[i] ELSE rest[i - Len(to)]
    BY <1>8, <2>1, ConcatProperties
  <2>3. QED
    BY <1>1, <1>7, <2>2 DEF PathSeq
<1>10. \A i \in 1 .. b : r[i] = to[i]
  BY <1>2, <1>9
<1>11. ASSUME NEW i \in 1 .. (c - a) PROVE r[b + i] = p[a + i]
  <2>1. b + i \in 1 .. (b + (c - a)) /\ ~(b + i <= b) /\ (b + i) - b = i
    BY <1>2
  <2>2. QED
    BY <1>7, <1>9, <2>1
<1>12. r = Relocate(p, from, to)
  BY <1>1, <1>8 DEF Relocate
<1>13. QED
  BY <1>1, <1>9, <1>10, <1>11, <1>12 DEF Replaced

\* A folder on the way to a path, and on the way to the path's parent.
LEMMA PrefixParent ==
    ASSUME NEW from \in PathSeq, from # Root, NEW x \in PathSeq
    PROVE  /\ IsPrefix(from, parentOf(x)) => IsPrefix(from, x)
           /\ IsPrefix(from, x) /\ x # from => IsPrefix(from, parentOf(x))
           /\ x # Root => ~IsPrefix(x, parentOf(x))
           /\ IsPrefix(from, from) /\ ~IsPrefix(from, Root)
<1>1. Len(from) \in Nat /\ Len(from) > 0 /\ Len(x) \in Nat /\ Root \in PathSeq /\ Len(Root) = 0
  BY ParentNames DEF PathSeq, Root
<1>2. IsPrefix(from, from) /\ ~IsPrefix(from, Root)
  BY <1>1, PrefixNames
<1>3. CASE x = Root
  BY <1>2, <1>3 DEF parentOf
<1>4. CASE x # Root
  <2>1. PICK d : d = parentOf(x)
    OBVIOUS
  <2>2. d \in PathSeq /\ Len(x) > 0 /\ Len(d) = Len(x) - 1 /\ \A i \in 1 .. (Len(x) - 1) : d[i] = x[i]
    BY <1>4, <2>1, ParentNames
  <2>3. IsPrefix(from, d) => IsPrefix(from, x)
    BY <1>1, <2>2, PrefixNames
  <2>4. IsPrefix(from, x) /\ Len(from) = Len(x) => from = x
    BY PrefixNames, SamePath
  <2>5. IsPrefix(from, x) /\ x # from => Len(from) <= Len(d)
    BY <1>1, <2>2, <2>4, PrefixNames
  <2>6. IsPrefix(from, x) /\ x # from => IsPrefix(from, d)
    BY <1>1, <2>2, <2>5, PrefixNames
  <2>7. ~IsPrefix(x, d)
    BY <1>1, <2>2, PrefixNames
  <2>8. QED
    BY <1>2, <2>1, <2>3, <2>6, <2>7
<1>5. QED
  BY <1>3, <1>4

\* What relocating a folder does to the paths under it.
LEMMA RelocateFacts ==
    ASSUME NEW from \in PathSeq, from # Root, NEW to \in PathSeq, to # Root,
           NEW x \in PathSeq, IsPrefix(from, x)
    PROVE  /\ IsPrefix(to, Relocate(x, from, to)) /\ Relocate(from, from, to) = to
           /\ Relocate(x, from, to) # Root
           /\ x # from => parentOf(Relocate(x, from, to)) = Relocate(parentOf(x), from, to)
           /\ Len(parentOf(to)) < Len(Relocate(x, from, to))
           /\ ~IsPrefix(from, to) /\ IsPrefix(from, Relocate(x, from, to)) => IsPrefix(to, from)
<1>1. PICK r, a, b, c : r = Relocate(x, from, to) /\ a = Len(from) /\ b = Len(to) /\ c = Len(x)
  OBVIOUS
<1>2. /\ r \in PathSeq /\ Len(r) = b + (c - a) /\ \A i \in 1 .. b : r[i] = to[i]
      /\ \A i \in 1 .. (c - a) : r[b + i] = x[a + i]
  <2>1. Replaced(r, x, from, to)
    BY <1>1, RelocateNames
  <2>2. QED
    BY <1>1, <2>1 DEF Replaced
<1>3. a \in Nat /\ b \in Nat /\ c \in Nat /\ a <= c /\ a > 0 /\ b > 0
  BY <1>1, PrefixNames, ParentNames DEF PathSeq
<1>4. \A i \in 1 .. a : from[i] = x[i]
  BY <1>1, PrefixNames
<1>5. IsPrefix(to, r)
  BY <1>1, <1>2, <1>3, PrefixNames
<1>6. r # Root
  BY <1>2, <1>3 DEF Root
<1>7. Relocate(from, from, to) = to
  <2>1. IsPrefix(from, from)
    BY PrefixParent
  <2>2. PICK f : f = Relocate(from, from, to)
    OBVIOUS
  <2>3. Replaced(f, from, from, to)
    BY <2>1, <2>2, RelocateNames
  <2>4. f \in PathSeq /\ Len(f) = Len(to) /\ \A i \in 1 .. Len(to) : f[i] = to[i]
    BY <1>1, <1>3, <2>3 DEF Replaced
  <2>5. QED
    BY <2>2, <2>4, SamePath
<1>8. ASSUME x # from PROVE parentOf(r) = Relocate(parentOf(x), from, to)
  <2>1. IsPrefix(from, parentOf(x)) /\ x # Root
    BY <1>8, PrefixParent
  <2>2. PICK d : d = parentOf(x)
    OBVIOUS
  <2>3. d \in PathSeq /\ Len(d) = c - 1 /\ \A i \in 1 .. (c - 1) : d[i] = x[i]
    BY <1>1, <2>1, <2>2, ParentNames
  <2>4. PICK u : u = Relocate(d, from, to)
    OBVIOUS
  <2>5. /\ u \in PathSeq /\ Len(u) = b + (Len(d) - a)
        /\ \A i \in 1 .. b : u[i] = to[i]
        /\ \A i \in 1 .. (Len(d) - a) : u[b + i] = d[a + i]
    <3>1. Replaced(u, d, from, to)
      BY <2>1, <2>2, <2>3, <2>4, RelocateNames
    <3>2. QED
      BY <1>1, <3>1 DEF Replaced
  <2>6. PICK v : v = parentOf(r)
    OBVIOUS
  <2>7. v \in PathSeq /\ Len(v) = Len(r) - 1 /\ \A i \in 1 .. (Len(r) - 1) : v[i] = r[i]
    BY <1>2, <1>6, <2>6, ParentNames
  <2>8. Len(d) >= a
    BY <1>1, <2>1, <2>2, <2>3, PrefixNames
  <2>9. Len(u) = Len(v)
    BY <1>2, <1>3, <2>3, <2>5, <2>7
  <2>10. ASSUME NEW i \in 1 .. Len(v) PROVE u[i] = v[i]
    <3>1. v[i] = r[i]
      BY <1>2, <1>3, <2>7
    <3>2. CASE i <= b
      BY <1>2, <1>3, <2>5, <3>1, <3>2
    <3>3. CASE ~(i <= b)
      <4>1. PICK j : j = i - b
        OBVIOUS
      <4>2. j \in 1 .. (Len(d) - a) /\ j \in 1 .. (c - a) /\ b + j = i /\ a + j \in 1 .. (c - 1)
        BY <1>2, <1>3, <2>3, <2>7, <3>3, <4>1
      <4>3. u[b + j] = d[a + j]
        BY <2>5, <4>2
      <4>4. r[b + j] = x[a + j]
        BY <1>2, <4>2
      <4>5. d[a + j] = x[a + j]
        BY <2>3, <4>2
      <4>6. QED
        BY <3>1, <4>2, <4>3, <4>4, <4>5
    <3>4. QED
      BY <3>2, <3>3
  <2>11. u = v
    BY <2>5, <2>7, <2>9, <2>10, SamePath
  <2>12. QED
    BY <2>2, <2>4, <2>6, <2>11
<1>9. Len(parentOf(to)) < Len(r)
  BY <1>1, <1>2, <1>3, ParentNames
<1>10. ASSUME ~IsPrefix(from, to), IsPrefix(from, r) PROVE IsPrefix(to, from)
  <2>1. a <= Len(r) /\ \A i \in 1 .. a : from[i] = r[i]
    BY <1>1, <1>2, <1>10, PrefixNames
  <2>2. CASE a <= b
    <3>1. \A i \in 1 .. a : from[i] = to[i]
      BY <1>2, <1>3, <2>1, <2>2
    <3>2. IsPrefix(from, to)
      BY <1>1, <2>2, <3>1, PrefixNames
    <3>3. QED
      BY <1>10, <3>2
  <2>3. CASE ~(a <= b)
    <3>1. \A i \in 1 .. b : to[i] = from[i]
      BY <1>2, <1>3, <2>1, <2>3
    <3>2. b <= a
      BY <1>3, <2>3
    <3>3. QED
      BY <1>1, <3>1, <3>2, PrefixNames
  <2>4. QED
    BY <2>2, <2>3
<1>11. QED
  BY <1>1, <1>5, <1>6, <1>7, <1>8, <1>9, <1>10

\* Relocating takes no two paths to one.
LEMMA RelocateOnce ==
    ASSUME NEW from \in PathSeq, NEW to \in PathSeq, NEW x \in PathSeq, IsPrefix(from, x),
           NEW y \in PathSeq, IsPrefix(from, y), Relocate(x, from, to) = Relocate(y, from, to)
    PROVE  x = y
<1>1. PICK r, a, b : r = Relocate(x, from, to) /\ a = Len(from) /\ b = Len(to)
  OBVIOUS
<1>2. Replaced(r, x, from, to) /\ Replaced(r, y, from, to)
  BY <1>1, RelocateNames
<1>3. /\ Len(r) = b + (Len(x) - a) /\ \A i \in 1 .. (Len(x) - a) : r[b + i] = x[a + i]
      /\ Len(r) = b + (Len(y) - a)
  BY <1>1, <1>2 DEF Replaced
<1>3a. \A i \in 1 .. (Len(y) - a) : r[b + i] = y[a + i]
  BY <1>1, <1>2 DEF Replaced
<1>4. a \in Nat /\ b \in Nat /\ Len(x) \in Nat /\ Len(y) \in Nat
  BY <1>1 DEF PathSeq
<1>5. Len(x) = Len(y)
  BY <1>3, <1>4
<1>6. \A i \in 1 .. a : from[i] = x[i] /\ from[i] = y[i]
  BY <1>1, PrefixNames
<1>7. ASSUME NEW i \in 1 .. Len(x) PROVE x[i] = y[i]
  <2>1. CASE i <= a
    BY <1>4, <1>6, <2>1
  <2>2. CASE ~(i <= a)
    <3>1. PICK j : j = i - a
      OBVIOUS
    <3>2. j \in 1 .. (Len(x) - a) /\ a + j = i /\ j \in 1 .. (Len(y) - a)
      BY <1>4, <1>5, <2>2, <3>1
    <3>3. QED
      BY <1>3, <1>3a, <3>2
  <2>3. QED
    BY <2>1, <2>2
<1>8. QED
  BY <1>5, <1>7, SamePath

\* In a project that has every folder of its paths, a path on the way to another exists.
LEMMA ClosedPrefix ==
    ASSUME NEW E, E \subseteq PathSeq, \A p \in E : \A n \in 1 .. Len(p) : SubSeq(p, 1, n) \in E,
           NEW q \in E, NEW p \in PathSeq, p # Root, IsPrefix(p, q)
    PROVE  p \in E
<1>1. Len(p) \in Nat /\ Len(p) > 0 /\ Len(p) <= Len(q) /\ Len(q) \in Nat
  BY ParentNames DEF IsPrefix, PathSeq
<1>2. SubSeq(p, 1, Len(p)) = p
  BY SubSeqFull DEF PathSeq
<1>3. SubSeq(q, 1, Len(p)) = p
  BY <1>2 DEF IsPrefix
<1>4. \A n \in 1 .. Len(q) : SubSeq(q, 1, n) \in E
  OBVIOUS
<1>5. PICK n : n = Len(p)
  OBVIOUS
<1>6. n \in 1 .. Len(q) /\ SubSeq(q, 1, n) = p
  BY <1>1, <1>3, <1>5
<1>7. QED
  BY <1>4, <1>6

-----------------------------------------------------------------------------
(* The file explorer: what its state always is.                            *)

SingleKinds == {"create", "rename", "move", "delete", "upload"}

\* A listing under way.
IsListing(c) ==
    /\ DOMAIN c = {"f", "toggle", "at", "got", "old"}
    /\ c.got \subseteq Entries /\ c.old \in BOOLEAN

\* The handler that works through paths: one path, or several none of which holds a later one.
TaskOK(t) ==
    /\ DOMAIN t = {"kind", "todo", "dest", "done"}
    /\ t.todo \in Seq(PathSeq) /\ t.dest \in PathSeq
    /\ t.kind \in SingleKinds \cup {"idle", "moveFiles", "deleteFiles"}
    /\ t.kind = "idle" => t = Idle
    /\ t.kind \in SingleKinds => Len(t.todo) <= 1 /\ (t.todo # <<>> => t.done = {})
    /\ t.kind \in {"delete", "deleteFiles"} => \A i \in DOMAIN t.todo : t.todo[i] \in Entries
    /\ t.kind = "create" => \A i \in DOMAIN t.todo : parentOf(t.todo[i]) = t.dest
    /\ t.kind = "rename" => \A i \in DOMAIN t.todo : /\ parentOf(t.todo[i]) = parentOf(t.dest)
                                                     /\ t.dest # Root
    /\ t.kind \in {"move", "moveFiles"} => \A i \in DOMAIN t.todo : canMoveInto(t.todo[i], t.dest)
    /\ t.kind = "moveFiles" =>
          \A i, j \in DOMAIN t.todo : i < j => ~IsPrefix(t.todo[i], t.todo[j])
    /\ t.kind = "upload" => \A i \in DOMAIN t.todo : /\ IsPrefix(t.dest, t.todo[i])
                                                     /\ ".." \notin ToSet(t.todo[i])

\* Every folder of a path that exists, exists.
Complete(E) == \A p \in E : \A q \in PathSeq : q # Root /\ IsPrefix(q, p) => q \in E

\* The explorer holds paths of the project.
TreeTypes ==
    /\ exists \subseteq Entries /\ notices \subseteq Entries
    /\ DOMAIN listed = Places
    /\ \A f \in Places : DOMAIN listed[f] = {"loaded", "entries"} /\ listed[f].entries \subseteq Entries
    /\ selectedPaths \subseteq Entries /\ IsFiniteSet(selectedPaths)
    /\ anchorPath \in Entries \cup {NoPath}
    /\ inlineEdit.path \in PathSeq
    /\ inlineEdit.type = "rename" => inlineEdit.path \in Entries
    /\ \A c \in lists : IsListing(c)

TreeBase == TreeTypes /\ TaskOK(task) /\ Complete(exists)

\* Entries are paths below the root.
LEMMA EntryPaths ==
    /\ Entries \subseteq PathSeq /\ Folders \subseteq PathSeq /\ Places \subseteq PathSeq
    /\ Root \in PathSeq /\ Root \notin Entries /\ NoPath \notin Entries /\ NoPath # Root
    /\ \A p \in Entries : p # Root /\ parentOf(p) \in Places
<1>1. Root \in PathSeq /\ NoPath # Root
  BY DEF Root, NoPath, PathSeq
<1>2. QED
  BY <1>1, TreeAssumption, PathAssumption DEF PathSeq, Places

\* The listings after a refresh or a click.
LEMMA ListFacts ==
    ASSUME TreeTypes, NEW fs, NEW toggle \in BOOLEAN, List(fs, toggle)
    PROVE  /\ \A c \in lists' : IsListing(c)
           /\ \A c \in lists' : c.at = "ok" /\ ~c.old =>
                 toggle /\ \E d \in lists : d.at = "ok" /\ ~d.old /\ d.f = c.f /\ d.got = c.got
           /\ \A d \in lists : \E c \in lists' : c.f = d.f /\ c.at = d.at
           /\ \A f \in fs : \E c \in lists' : c.f = f /\ c.at = "sent"
<1>1. PICK Aged, New :
         /\ Aged = {[c EXCEPT !.old = @ \/ ~toggle] : c \in lists}
         /\ New = {[f |-> f, toggle |-> toggle, at |-> "sent", got |-> {}, old |-> FALSE] : f \in fs}
  OBVIOUS
<1>2. lists' = Aged \cup New
  BY <1>1 DEF List
<1>3. ASSUME NEW d \in lists
      PROVE  \E c \in Aged : /\ IsListing(c) /\ c.f = d.f /\ c.at = d.at /\ c.got = d.got
                             /\ c.old = (d.old \/ ~toggle) /\ c = [d EXCEPT !.old = @ \/ ~toggle]
  <2>1. PICK b, c : b = (d.old \/ ~toggle) /\ c = [d EXCEPT !.old = b]
    OBVIOUS
  <2>2. IsListing(d) /\ b \in BOOLEAN
    BY <2>1 DEF TreeTypes
  <2>3. IsListing(c) /\ c.f = d.f /\ c.at = d.at /\ c.got = d.got /\ c.old = b
    BY <2>1, <2>2 DEF IsListing
  <2>4. c \in Aged /\ c = [d EXCEPT !.old = @ \/ ~toggle]
    BY <1>1, <2>1
  <2>5. QED
    BY <2>1, <2>3, <2>4
<1>4. ASSUME NEW c \in Aged
      PROVE  \E d \in lists : /\ IsListing(c) /\ c.f = d.f /\ c.at = d.at /\ c.got = d.got
                              /\ c.old = (d.old \/ ~toggle)
  <2>1. PICK d \in lists : c = [d EXCEPT !.old = @ \/ ~toggle]
    BY <1>1
  <2>2. QED
    BY <1>3, <2>1
<1>5. ASSUME NEW c \in New PROVE IsListing(c) /\ c.at = "sent" /\ c.f \in fs
  <2>1. PICK f, no : f \in fs /\ no = FALSE /\ c = [f |-> f, toggle |-> toggle, at |-> "sent",
                                                    got |-> {}, old |-> no]
    BY <1>1
  <2>2. QED
    BY <2>1 DEF IsListing
<1>6. ASSUME NEW f \in fs PROVE \E c \in New : c.f = f /\ c.at = "sent"
  <2>1. PICK no, c : no = FALSE /\ c = [f |-> f, toggle |-> toggle, at |-> "sent", got |-> {}, old |-> no]
    OBVIOUS
  <2>2. c \in New /\ c.f = f /\ c.at = "sent"
    BY <1>1, <2>1
  <2>3. QED
    BY <2>2
<1>7. ASSUME NEW c \in lists', c.at = "ok", ~c.old
      PROVE  toggle /\ \E d \in lists : d.at = "ok" /\ ~d.old /\ d.f = c.f /\ d.got = c.got
  <2>1. c \in Aged
    BY <1>2, <1>5, <1>7
  <2>2. QED
    BY <1>4, <1>7, <2>1
<1>8. QED
  BY <1>2, <1>3, <1>4, <1>5, <1>6, <1>7

\* The paths of a set in some order.
LEMMA OrderFacts ==
    ASSUME NEW S, IsFiniteSet(S), S \subseteq PathSeq, NEW order \in SetToSeqs(S)
    PROVE  /\ order \in Seq(PathSeq) /\ Len(order) = Cardinality(S)
           /\ \A i \in DOMAIN order : order[i] \in S
           /\ \A i, j \in DOMAIN order : i # j => order[i] # order[j]
<1>1. PICK n \in Nat : n = Cardinality(S)
  BY FS_CardinalityType
<1>2. order \in [1 .. n -> S] /\ \A i, j \in 1 .. n : i # j => order[i] # order[j]
  BY <1>1 DEF SetToSeqs
<1>3. order \in [1 .. n -> PathSeq]
  BY <1>2
<1>4. order \in Seq(PathSeq) /\ Len(order) = n
  BY <1>3, SeqDef
<1>5. QED
  BY <1>1, <1>2, <1>4

\* What holds another path of the project is a folder.
LEMMA HoldersAreFolders ==
    ASSUME NEW E, E \subseteq Entries, Complete(E), NEW q \in E, NEW p \in PathSeq, p # Root,
           IsPrefix(p, q), p # q
    PROVE  p \in Folders
<1>1. q \in PathSeq /\ Len(p) \in Nat /\ Len(q) \in Nat
  BY EntryPaths DEF PathSeq
<1>2. Len(p) <= Len(q) /\ \A i \in 1 .. Len(p) : p[i] = q[i]
  BY <1>1, PrefixNames
<1>3. Len(p) # Len(q)
  BY <1>1, <1>2, SamePath
<1>4. PICK n, s : n = Len(p) + 1 /\ s = SubSeq(q, 1, n)
  OBVIOUS
<1>5. n \in Int /\ 1 \in Int /\ 1 <= n /\ n <= Len(q)
  BY <1>1, <1>2, <1>3, <1>4
<1>6. \A i \in 1 .. n : q[i] \in STRING
  BY <1>1, <1>5 DEF PathSeq
<1>7. s \in Seq(STRING) /\ Len(s) = n /\ \A i \in 1 .. n : s[i] = q[i]
  <2>1. /\ s \in Seq(STRING) /\ Len(s) = IF 1 <= n THEN n - 1 + 1 ELSE 0
        /\ \A i \in 1 .. (n - 1 + 1) : s[i] = q[1 + i - 1]
    BY <1>4, <1>5, <1>6, SubSeqProperties
  <2>2. QED
    BY <1>5, <2>1
<1>8. s \in PathSeq /\ s # Root
  BY <1>5, <1>7 DEF PathSeq, Root
<1>9. IsPrefix(s, q)
  BY <1>1, <1>5, <1>7, <1>8, PrefixNames
<1>10. s \in Entries
  BY <1>8, <1>9 DEF Complete
<1>11. /\ parentOf(s) \in PathSeq /\ Len(parentOf(s)) = Len(s) - 1
       /\ \A i \in 1 .. (Len(s) - 1) : parentOf(s)[i] = s[i]
  BY <1>8, ParentNames
<1>12. Len(parentOf(s)) = Len(p) /\ \A i \in 1 .. Len(p) : parentOf(s)[i] = p[i]
  BY <1>1, <1>2, <1>4, <1>5, <1>7, <1>11
<1>13. parentOf(s) = p
  BY <1>11, <1>12, SamePath
<1>14. QED
  BY <1>10, <1>13, EntryPaths DEF Places

\* No work: the task at rest.
LEMMA IdleOK == TaskOK(Idle)
BY DEF TaskOK, Idle, SingleKinds, Root, PathSeq

\* At first.
LEMMA BaseInit == TreeInit => TreeBase
<1> SUFFICES ASSUME TreeInit PROVE TreeBase
  OBVIOUS
<1>1. exists = FirstEntries /\ exists \subseteq Entries
  BY TreeAssumption DEF TreeInit
<1>2. Complete(exists)
  <2>1. exists \subseteq PathSeq /\ \A p \in exists : \A n \in 1 .. Len(p) : SubSeq(p, 1, n) \in exists
    BY <1>1, EntryPaths, PathAssumption
  <2>2. QED
    BY <2>1, ClosedPrefix DEF Complete
<1>3. \A f : Children(f) \subseteq Entries
  BY <1>1 DEF Children
<1>4. ASSUME NEW f \in Places
      PROVE  DOMAIN listed[f] = {"loaded", "entries"} /\ listed[f].entries \subseteq Entries
  <2>1. listed[f] = Listing(f) \/ listed[f] = Unloaded
    BY DEF TreeInit
  <2>2. QED
    BY <1>3, <2>1 DEF Listing, Unloaded
<1>5. DOMAIN listed = Places
  BY DEF TreeInit
<1>6. selectedPaths \subseteq Entries /\ IsFiniteSet(selectedPaths) /\ notices = {} /\ lists = {}
      /\ anchorPath = NoPath
  BY FS_EmptySet DEF TreeInit
<1>7. inlineEdit.path \in PathSeq /\ inlineEdit.type # "rename"
  BY EntryPaths DEF TreeInit, NoEdit
<1>8. TaskOK(task)
  BY IdleOK DEF TreeInit
<1>9. QED
  BY <1>1, <1>2, <1>4, <1>5, <1>6, <1>7, <1>8 DEF TreeBase, TreeTypes

\* What is on screen is in the project.
LEMMA VisibleEntries == TreeTypes => Visible \subseteq Entries
BY DEF TreeTypes, Visible

\* Clicks, keys and the inline input.
LEMMA BaseClicks ==
    ASSUME TreeBase,
           \/ \E p \in Entries, multi \in BOOLEAN : NodeClick(p, multi)
           \/ \E f \in Folders : ToggleFolder(f)
           \/ \E type \in {"create", "rename"} : StartEdit(type)
           \/ CancelEdit
    PROVE  TreeBase'
<1>1. ASSUME NEW p \in Entries, NEW multi \in BOOLEAN, NodeClick(p, multi) PROVE TreeBase'
  <2>1. /\ \/ selectedPaths' = {p}
           \/ selectedPaths' = selectedPaths \ {p}
           \/ selectedPaths' = selectedPaths \cup {p}
        /\ anchorPath' = p
        /\ UNCHANGED <<exists, notices, task, inlineEdit, lists, listed>>
    BY <1>1 DEF NodeClick, shownVars
  <2>2. selectedPaths' \subseteq Entries /\ IsFiniteSet(selectedPaths')
    <3>1. IsFiniteSet(selectedPaths) /\ selectedPaths \subseteq Entries
      BY DEF TreeBase, TreeTypes
    <3>2. IsFiniteSet({p})
      BY FS_Singleton
    <3>3. IsFiniteSet(selectedPaths \ {p}) /\ IsFiniteSet(selectedPaths \cup {p})
      <4>1. PICK S : S = selectedPaths
        OBVIOUS
      <4>2. IsFiniteSet(S \ {p}) /\ IsFiniteSet(S \cup {p})
        BY <3>1, <4>1, FS_RemoveElement, FS_AddElement
      <4>3. QED
        BY <4>1, <4>2
    <3>4. QED
      BY <2>1, <3>1, <3>2, <3>3
  <2>3. QED
    BY <2>1, <2>2 DEF TreeBase, TreeTypes
<1>2. ASSUME NEW f \in Folders, ToggleFolder(f) PROVE TreeBase'
  <2>1. /\ UNCHANGED <<exists, notices, task, selectedPaths, anchorPath, inlineEdit, listed>>
        /\ List({f}, TRUE) \/ UNCHANGED lists
    BY <1>2 DEF ToggleFolder, selectVars
  <2>2. \A c \in lists' : IsListing(c)
    BY <2>1, ListFacts DEF TreeBase, TreeTypes
  <2>3. QED
    BY <2>1, <2>2 DEF TreeBase, TreeTypes
<1>3. ASSUME NEW type \in {"create", "rename"}, StartEdit(type) PROVE TreeBase'
  <2>1. UNCHANGED <<exists, notices, task, selectedPaths, anchorPath, lists, listed>>
    BY <1>3 DEF StartEdit
  <2>2. inlineEdit'.path \in PathSeq /\ (inlineEdit'.type = "rename" => inlineEdit'.path \in Entries)
    <3>1. CASE type = "create"
      <4>1. createTargetPath(anchorPath) \in PathSeq
        BY EntryPaths DEF createTargetPath, TreeBase, TreeTypes, Places
      <4>2. inlineEdit' = [type |-> type, path |-> createTargetPath(anchorPath)]
        BY <1>3, <3>1 DEF StartEdit
      <4>3. QED
        BY <3>1, <4>1, <4>2
    <3>2. CASE type = "rename"
      <4>1. anchorPath \in Entries /\ inlineEdit' = [type |-> type, path |-> anchorPath]
        BY <1>3, <3>2, VisibleEntries DEF StartEdit, TreeBase
      <4>2. QED
        BY <4>1, EntryPaths
    <3>3. QED
      BY <3>1, <3>2
  <2>3. QED
    BY <2>1, <2>2 DEF TreeBase, TreeTypes
<1>4. CASE CancelEdit
  <2>1. NoEdit.path \in PathSeq /\ NoEdit.type # "rename"
    BY EntryPaths DEF NoEdit
  <2>2. QED
    BY <1>4, <2>1 DEF CancelEdit, shownVars, TreeBase, TreeTypes
<1>5. QED
  BY <1>1, <1>2, <1>3, <1>4

\* Listings, events and other writers.
LEMMA BaseListings ==
    ASSUME TreeBase,
           \/ \E c \in lists : ServeList(c)
           \/ \E c \in lists : ListDone(c)
           \/ \E p \in notices : Notice(p)
           \/ \E p \in Entries : OutsideChange(p)
    PROVE  TreeBase'
<1>1. ASSUME NEW c \in lists, ServeList(c) PROVE TreeBase'
  <2>1. PICK at, got, d : /\ at = (IF c.f = Root \/ c.f \in exists THEN "ok" ELSE "failed")
                          /\ got = Children(c.f) /\ d = [c EXCEPT !.at = at, !.got = got]
    OBVIOUS
  <2>2. lists' = (lists \ {c}) \cup {d}
    BY <1>1, <2>1 DEF ServeList
  <2>3. got \subseteq Entries
    BY <2>1 DEF Children, TreeBase, TreeTypes
  <2>4. IsListing(d)
    BY <2>1, <2>3 DEF IsListing, TreeBase, TreeTypes
  <2>5. QED
    BY <1>1, <2>2, <2>4 DEF ServeList, selectVars, shownVars, TreeBase, TreeTypes
<1>2. ASSUME NEW c \in lists, ListDone(c) PROVE TreeBase'
  <2>1. IsListing(c)
    BY DEF TreeBase, TreeTypes
  <2>2. /\ UNCHANGED <<exists, notices, task, selectedPaths, anchorPath, inlineEdit>>
        /\ lists' \subseteq lists
    BY <1>2 DEF ListDone, selectVars
  <2>3. PICK yes, l : yes = TRUE /\ l = [loaded |-> yes, entries |-> c.got]
    OBVIOUS
  <2>4. listed' = [listed EXCEPT ![c.f] = l] \/ UNCHANGED listed
    BY <1>2, <2>3 DEF ListDone
  <2>5. DOMAIN l = {"loaded", "entries"} /\ l.entries \subseteq Entries
    BY <2>1, <2>3 DEF IsListing
  <2>6. DOMAIN listed' = Places /\ \A f \in Places : listed'[f] \in {l, listed[f]}
    BY <2>4 DEF TreeBase, TreeTypes
  <2>7. \A f \in Places : DOMAIN listed'[f] = {"loaded", "entries"} /\ listed'[f].entries \subseteq Entries
    BY <2>5, <2>6 DEF TreeBase, TreeTypes
  <2>8. QED
    BY <2>2, <2>6, <2>7 DEF TreeBase, TreeTypes
<1>3. ASSUME NEW p \in notices, Notice(p) PROVE TreeBase'
  <2>1. /\ UNCHANGED <<exists, task, selectedPaths, anchorPath, inlineEdit, listed>>
        /\ notices' \subseteq notices /\ List(refreshAncestors(p), FALSE)
    BY <1>3 DEF Notice, selectVars, shownVars
  <2>2. \A c \in lists' : IsListing(c)
    <3>1. PICK fs : fs = refreshAncestors(p)
      OBVIOUS
    <3>2. QED
      BY <2>1, <3>1, ListFacts DEF TreeBase
  <2>3. QED
    BY <2>1, <2>2 DEF TreeBase, TreeTypes
<1>4. ASSUME NEW p \in Entries, OutsideChange(p) PROVE TreeBase'
  <2>1. /\ UNCHANGED <<task, selectedPaths, anchorPath, inlineEdit, lists, listed>>
        /\ notices' = notices \cup {p} /\ exists' = (exists \ {p}) \cup ({p} \ exists)
        /\ p \notin Folders /\ parentOf(p) \in exists \cup {Root}
    BY <1>4 DEF OutsideChange, selectVars
  <2>2. exists' \subseteq Entries /\ notices' \subseteq Entries
    BY <2>1 DEF TreeBase, TreeTypes
  <2>3. Complete(exists')
    <3>1. ASSUME NEW q \in exists', NEW s \in PathSeq, s # Root, IsPrefix(s, q) PROVE s \in exists'
      <4>1. q \in Entries /\ q \in PathSeq /\ p \in PathSeq /\ q # Root
        BY <2>2, <3>1, EntryPaths
      <4>2. CASE q = p
        <5>1. CASE s = p
          BY <3>1, <4>2, <5>1
        <5>2. CASE s # p
          <6>1. IsPrefix(s, parentOf(p))
            BY <3>1, <4>1, <4>2, <5>2, PrefixParent
          <6>2. parentOf(p) # Root
            BY <3>1, <6>1, PrefixParent
          <6>3. s \in exists
            BY <2>1, <3>1, <6>1, <6>2 DEF TreeBase, Complete
          <6>4. QED
            BY <2>1, <5>2, <6>3
        <5>3. QED
          BY <5>1, <5>2
      <4>3. CASE q # p
        <5>1. q \in exists /\ s \in exists
          BY <2>1, <3>1, <4>3 DEF TreeBase, Complete
        <5>2. s # p
          BY <2>1, <3>1, <4>1, <4>3, <5>1, HoldersAreFolders DEF TreeBase, TreeTypes
        <5>3. QED
          BY <2>1, <5>1, <5>2
      <4>4. QED
        BY <4>2, <4>3
    <3>2. QED
      BY <3>1 DEF Complete
  <2>4. QED
    BY <2>1, <2>2, <2>3 DEF TreeBase, TreeTypes
<1>5. QED
  BY <1>1, <1>2, <1>3, <1>4

\* A task that has one path to work on.
LEMMA OneTask ==
    ASSUME NEW kind \in SingleKinds, NEW p \in PathSeq, NEW dest \in PathSeq, NEW t,
           t = [kind |-> kind, todo |-> <<p>>, dest |-> dest, done |-> {}],
           kind = "delete" => p \in Entries,
           kind = "create" => parentOf(p) = dest,
           kind = "rename" => parentOf(p) = parentOf(dest) /\ dest # Root,
           kind = "move" => canMoveInto(p, dest),
           kind = "upload" => IsPrefix(dest, p) /\ ".." \notin ToSet(p)
    PROVE  TaskOK(t)
<1>1. DOMAIN t = {"kind", "todo", "dest", "done"} /\ t.kind = kind /\ t.dest = dest /\ t.done = {}
  OBVIOUS
<1>2. t.todo \in Seq(PathSeq) /\ Len(t.todo) = 1 /\ DOMAIN t.todo = {1} /\ t.todo[1] = p
  OBVIOUS
<1>3. kind \notin {"idle", "deleteFiles", "moveFiles"}
  BY DEF SingleKinds
<1>4. QED
  BY <1>1, <1>2, <1>3 DEF TaskOK

\* InlineInput and its name.
LEMMA BeginEdit ==
    ASSUME TreeBase, NEW name \in Names, ConfirmEdit(name) PROVE TaskOK(task')
<1>1. name \in STRING /\ inlineEdit.path \in PathSeq
  BY TreeAssumption DEF TreeBase, TreeTypes
<1>2. PICK p : p = inlineEdit.path
  OBVIOUS
<1>3. CASE inlineEdit.type = "create"
  <2>1. PICK q, t : q = Append(p, name) /\ t = [kind |-> "create", todo |-> <<q>>, dest |-> p, done |-> {}]
    OBVIOUS
  <2>2. task' = t
    BY <1>2, <1>3, <2>1 DEF ConfirmEdit, Begin
  <2>3. q \in PathSeq /\ parentOf(q) = p
    BY <1>1, <1>2, <2>1, ChildPath
  <2>4. TaskOK(t)
    BY <1>1, <1>2, <2>1, <2>3, OneTask DEF SingleKinds
  <2>5. QED
    BY <2>2, <2>4
<1>4. CASE inlineEdit.type # "create"
  <2>1. PICK d, q, t : /\ d = parentOf(p) /\ q = Append(d, name)
                       /\ t = [kind |-> "rename", todo |-> <<p>>, dest |-> q, done |-> {}]
    OBVIOUS
  <2>2. task' = t
    BY <1>2, <1>4, <2>1 DEF ConfirmEdit, Begin
  <2>3. d \in PathSeq
    BY <1>1, <1>2, <2>1, ParentNames
  <2>4. q \in PathSeq /\ parentOf(q) = d /\ q # Root
    BY <1>1, <2>1, <2>3, ChildPath
  <2>5. TaskOK(t)
    BY <1>1, <1>2, <2>1, <2>4, OneTask DEF SingleKinds
  <2>6. QED
    BY <2>2, <2>5
<1>5. QED
  BY <1>3, <1>4

\* A drag of one path, or of a selection without what its folders hold.
LEMMA BeginDrop ==
    ASSUME TreeBase, NEW dragged \in Entries, NEW dest \in Places, Drop(dragged, dest)
    PROVE  TaskOK(task') /\ IsFiniteSet(selectedPaths') /\ selectedPaths' \subseteq Entries
<1>1. PICK selected : selected = IF dragged \in selectedPaths THEN selectedPaths ELSE {dragged}
  OBVIOUS
<1>2. PICK movable : movable = {s \in pathsForDrag(dragged, selected) : canMoveInto(s, dest)}
  OBVIOUS
<1>3. PICK order \in SetToSeqs(movable) :
         Begin(IF Len(order) = 1 THEN "move" ELSE "moveFiles", order, dest)
  BY <1>1, <1>2 DEF Drop
<1>4. movable # {} /\ selectedPaths' = selected
  BY <1>1, <1>2 DEF Drop
<1>5. selected \subseteq Entries /\ IsFiniteSet(selected)
  <2>1. IsFiniteSet({dragged})
    BY FS_Singleton
  <2>2. QED
    BY <1>1, <2>1 DEF TreeBase, TreeTypes
<1>6. \/ movable = {dragged}
      \/ movable \subseteq filterRedundantPaths(selected)
  BY <1>2, <1>4 DEF pathsForDrag
<1>7. filterRedundantPaths(selected) \subseteq selected
  BY DEF filterRedundantPaths
<1>8. movable \subseteq Entries /\ IsFiniteSet(movable)
  <2>1. CASE movable = {dragged}
    BY <2>1, FS_Singleton
  <2>2. CASE movable \subseteq filterRedundantPaths(selected)
    <3>1. movable \subseteq selected
      BY <1>7, <2>2
    <3>2. QED
      BY <1>5, <3>1, FS_Subset
  <2>3. QED
    BY <1>6, <2>1, <2>2
<1>9. movable \subseteq PathSeq /\ dest \in PathSeq
  BY <1>8, EntryPaths
<1>10. /\ order \in Seq(PathSeq) /\ Len(order) = Cardinality(movable)
       /\ \A i \in DOMAIN order : order[i] \in movable
  BY <1>3, <1>8, <1>9, OrderFacts
<1>11. \A i, j \in DOMAIN order : i # j => order[i] # order[j]
  BY <1>3, <1>8, <1>9, OrderFacts
<1>12. \A i \in DOMAIN order : canMoveInto(order[i], dest)
  BY <1>2, <1>10
<1>13. PICK kind, t : /\ kind = (IF Len(order) = 1 THEN "move" ELSE "moveFiles")
                      /\ t = [kind |-> kind, todo |-> order, dest |-> dest, done |-> {}]
  OBVIOUS
<1>14. task' = t
  BY <1>3, <1>13 DEF Begin
<1>15. ASSUME kind = "moveFiles", NEW i \in DOMAIN order, NEW j \in DOMAIN order, i < j
       PROVE  ~IsPrefix(order[i], order[j])
  <2>1. movable # {dragged}
    BY <1>10, <1>13, <1>15, FS_Singleton
  <2>2. order[i] \in filterRedundantPaths(selected) /\ order[j] \in filterRedundantPaths(selected)
    BY <1>6, <1>10, <2>1
  <2>3. i # j
    BY <1>10, <1>15
  <2>4. order[i] # order[j]
    BY <1>11, <2>3
  <2>5. QED
    BY <1>7, <2>2, <2>4 DEF filterRedundantPaths
<1>16. TaskOK(t)
  <2>1. /\ DOMAIN t = {"kind", "todo", "dest", "done"} /\ t.kind = kind /\ t.dest = dest
        /\ t.todo = order /\ t.done = {}
    BY <1>13
  <2>2. kind \in {"move", "moveFiles"} /\ (kind = "move" => Len(order) <= 1)
    <3>1. kind \in {"move", "moveFiles"} /\ (kind = "move" => Len(order) = 1)
      BY <1>13
    <3>2. Len(order) = 1 => Len(order) <= 1
      BY <1>10
    <3>3. QED
      BY <3>1, <3>2
  <2>3. QED
    BY <1>9, <1>10, <1>12, <1>15, <2>1, <2>2 DEF TaskOK, SingleKinds
<1>17. QED
  BY <1>4, <1>5, <1>14, <1>16

\* The Delete key.
LEMMA BeginDelete == ASSUME TreeBase, DeleteKey PROVE TaskOK(task')
<1>1. PICK paths : paths = IF selectedPaths # {} THEN selectedPaths
                           ELSE IF anchorPath # NoPath THEN {anchorPath} ELSE {}
  OBVIOUS
<1>2. PICK order \in SetToSeqs(paths) :
         Begin(IF Len(order) = 1 THEN "delete" ELSE "deleteFiles", order, Root)
  BY <1>1 DEF DeleteKey
<1>3. paths \subseteq Entries /\ IsFiniteSet(paths)
  <2>1. IsFiniteSet({anchorPath}) /\ IsFiniteSet({})
    BY FS_Singleton, FS_EmptySet
  <2>2. QED
    BY <1>1, <2>1 DEF TreeBase, TreeTypes
<1>4. paths \subseteq PathSeq
  BY <1>3, EntryPaths
<1>5. order \in Seq(PathSeq) /\ \A i \in DOMAIN order : order[i] \in paths
  BY <1>2, <1>3, <1>4, OrderFacts
<1>6. PICK kind, t : /\ kind = (IF Len(order) = 1 THEN "delete" ELSE "deleteFiles")
                     /\ t = [kind |-> kind, todo |-> order, dest |-> Root, done |-> {}]
  OBVIOUS
<1>7. task' = t
  BY <1>2, <1>6 DEF Begin
<1>8. /\ DOMAIN t = {"kind", "todo", "dest", "done"} /\ t.kind = kind /\ t.dest = Root
      /\ t.todo = order /\ t.done = {}
  BY <1>6
<1>9. kind \in {"delete", "deleteFiles"} /\ (kind = "delete" => Len(order) <= 1)
  BY <1>6
<1>10. TaskOK(t)
  BY <1>3, <1>5, <1>8, <1>9, EntryPaths DEF TaskOK, SingleKinds
<1>11. QED
  BY <1>7, <1>10

\* What normalizeRelativePath leaves of a path, and where joinPath puts it.
LEMMA CleanPath ==
    ASSUME NEW rel \in PathSeq, NEW dest \in PathSeq, ".." \notin ToSet(dest),
           NEW file \in joinPath(dest, rel)
    PROVE  file \in PathSeq /\ IsPrefix(dest, file) /\ ".." \notin ToSet(file)
<1>1. PICK I : I = {i \in DOMAIN rel : rel[i] \notin {"", ".", ".."}}
  OBVIOUS
<1>2. PICK clean \in Selected(rel, I) : file = dest \o clean
  BY <1>1 DEF joinPath, normalizeRelativePath
<1>3. PICK f \in Counting(I) : clean = [n \in DOMAIN f |-> rel[f[n]]]
  BY <1>2 DEF Selected
<1>4. f \in [1 .. Cardinality(I) -> I]
  BY <1>3 DEF Counting
<1>5. Len(rel) \in Nat /\ DOMAIN rel = 1 .. Len(rel) /\ \A i \in DOMAIN rel : rel[i] \in STRING
  BY DEF PathSeq
<1>6. IsFiniteSet(I)
  <2>1. IsFiniteSet(1 .. Len(rel))
    BY <1>5, FS_Interval
  <2>2. I \subseteq 1 .. Len(rel)
    BY <1>1, <1>5
  <2>3. QED
    BY <2>1, <2>2, FS_Subset
<1>7. PICK n \in Nat : n = Cardinality(I)
  BY <1>6, FS_CardinalityType
<1>8. clean = [m \in 1 .. n |-> rel[f[m]]] /\ \A m \in 1 .. n : f[m] \in I
  BY <1>3, <1>4, <1>7
<1>9. \A m \in 1 .. n : clean[m] \in STRING /\ clean[m] # ".."
  BY <1>1, <1>5, <1>8
<1>10. clean \in [1 .. n -> STRING]
  BY <1>8, <1>9
<1>11. clean \in Seq(STRING) /\ Len(clean) = n
  BY <1>10, SeqDef
<1>12. /\ file \in Seq(STRING) /\ Len(file) = Len(dest) + Len(clean)
       /\ \A i \in 1 .. (Len(dest) + Len(clean)) :
             file[i] = IF i <= Len(dest) THEN dest[i] ELSE clean[i - Len(dest)]
  BY <1>2, <1>11, ConcatProperties DEF PathSeq
<1>13. Len(dest) \in Nat /\ DOMAIN dest = 1 .. Len(dest) /\ DOMAIN file = 1 .. (Len(dest) + n)
  BY <1>11, <1>12 DEF PathSeq
<1>14. IsPrefix(dest, file)
  <2>1. Len(dest) <= Len(file) /\ \A i \in 1 .. Len(dest) : dest[i] = file[i]
    BY <1>11, <1>12, <1>13
  <2>2. QED
    BY <1>12, <2>1, PrefixNames DEF PathSeq
<1>15. ASSUME NEW i \in DOMAIN file PROVE file[i] # ".."
  <2>1. CASE i <= Len(dest)
    <3>1. i \in DOMAIN dest /\ file[i] = dest[i]
      BY <1>11, <1>12, <1>13, <2>1
    <3>2. QED
      BY <3>1 DEF ToSet
  <2>2. CASE ~(i <= Len(dest))
    <3>1. PICK m : m = i - Len(dest)
      OBVIOUS
    <3>2. m \in 1 .. n /\ file[i] = clean[m]
      BY <1>11, <1>12, <1>13, <2>2, <3>1
    <3>3. QED
      BY <1>9, <3>2
  <2>3. QED
    BY <2>1, <2>2
<1>16. QED
  BY <1>12, <1>14, <1>15 DEF ToSet, PathSeq

\* A drop of a file of the user's machine.
LEMMA BeginUpload ==
    ASSUME TreeBase, NEW dest \in Places, NEW rel \in Rels, DropFile(dest, rel)
    PROVE  TaskOK(task')
<1>1. PICK file \in joinPath(dest, rel) : Begin("upload", <<file>>, dest)
  BY DEF DropFile
<1>2. rel \in PathSeq /\ dest \in PathSeq
  BY TreeAssumption, EntryPaths DEF PathSeq
<1>3. ".." \notin ToSet(dest)
  <2>1. CASE dest = Root
    BY <2>1 DEF Root, ToSet
  <2>2. CASE dest # Root
    BY <2>2, TreeAssumption, PathAssumption DEF Places
  <2>3. QED
    BY <2>1, <2>2
<1>4. file \in PathSeq /\ IsPrefix(dest, file) /\ ".." \notin ToSet(file)
  BY <1>1, <1>2, <1>3, CleanPath
<1>5. PICK t : t = [kind |-> "upload", todo |-> <<file>>, dest |-> dest, done |-> {}]
  OBVIOUS
<1>6. task' = t
  BY <1>1, <1>5 DEF Begin
<1>7. TaskOK(t)
  BY <1>2, <1>4, <1>5, OneTask DEF SingleKinds
<1>8. QED
  BY <1>6, <1>7

\* The gestures that begin a change of files.
LEMMA BaseBegins ==
    ASSUME TreeBase,
           \/ \E name \in Names : ConfirmEdit(name)
           \/ \E p \in Entries, d \in Places : Drop(p, d)
           \/ DeleteKey
           \/ \E d \in Places, rel \in Rels : DropFile(d, rel)
    PROVE  TreeBase' /\ task.kind = "idle"
<1>1. TaskOK(task')
  BY BeginEdit, BeginDrop, BeginDelete, BeginUpload
<1>2. \E kind, order, dest : Begin(kind, order, dest)
  BY DEF ConfirmEdit, Drop, DeleteKey, DropFile
<1>3. UNCHANGED <<exists, notices, lists, listed>> /\ task = Idle
  BY <1>2 DEF Begin
<1>4. selectedPaths' \subseteq Entries /\ IsFiniteSet(selectedPaths')
  BY BeginDrop DEF ConfirmEdit, DeleteKey, DropFile, selectVars, TreeBase, TreeTypes
<1>5. anchorPath' \in Entries \cup {NoPath}
  BY DEF ConfirmEdit, DeleteKey, DropFile, Drop, selectVars, TreeBase, TreeTypes
<1>6. inlineEdit' = inlineEdit \/ inlineEdit' = NoEdit
  BY DEF ConfirmEdit, DeleteKey, DropFile, Drop, selectVars
<1>7. inlineEdit'.path \in PathSeq /\ (inlineEdit'.type = "rename" => inlineEdit'.path \in Entries)
  BY <1>6, EntryPaths DEF NoEdit, TreeBase, TreeTypes
<1>8. task.kind = "idle"
  BY <1>3 DEF Idle
<1>9. QED
  BY <1>1, <1>3, <1>4, <1>5, <1>7, <1>8 DEF TreeBase, TreeTypes

\* What a call of the runner may do to the project.
Added(p) ==
    /\ task.kind \in {"create", "upload"} /\ parentOf(p) \in exists \cup {Root}
    /\ Served(p) = exists \cup {p}
Moved(p) ==
    /\ task.kind \in {"rename", "move", "moveFiles"}
    /\ p \in exists /\ Target(p) \notin exists /\ parentOf(Target(p)) \in exists \cup {Root}
    /\ Served(p) = {Relocate(q, p, Target(p)) : q \in exists}
Removed(p) ==
    /\ task.kind \notin {"create", "upload", "rename", "move", "moveFiles"}
    /\ Served(p) = {q \in exists : ~IsPrefix(p, q)}

\* A call adds a path, moves or removes what is under it, or is refused.
LEMMA ServedCases ==
    ASSUME exists \subseteq Entries, NEW p
    PROVE  /\ Served(p) \subseteq Entries
           /\ Served(p) = exists \/ Added(p) \/ Moved(p) \/ Removed(p)
<1>1. Served(p) \subseteq Entries
  BY DEF Served
<1>2. CASE task.kind \in {"create", "upload"}
  BY <1>2 DEF Served, Added
<1>3. CASE task.kind \in {"rename", "move", "moveFiles"}
  BY <1>3 DEF Served, Moved
<1>4. CASE task.kind \notin {"create", "upload", "rename", "move", "moveFiles"}
  BY <1>4 DEF Served, Removed
<1>5. QED
  BY <1>1, <1>2, <1>3, <1>4

\* The path that is worked on now.
LEMMA HeadFacts ==
    ASSUME TreeBase, task.todo # <<>>, NEW p, p = Head(task.todo)
    PROVE  /\ p \in PathSeq /\ Len(task.todo) \in Nat /\ Len(task.todo) > 0
           /\ DOMAIN task.todo = 1 .. Len(task.todo) /\ 1 \in DOMAIN task.todo /\ p = task.todo[1]
           /\ Tail(task.todo) \in Seq(PathSeq) /\ Len(Tail(task.todo)) = Len(task.todo) - 1
           /\ DOMAIN Tail(task.todo) = 1 .. (Len(task.todo) - 1)
           /\ \A i \in 1 .. (Len(task.todo) - 1) : Tail(task.todo)[i] = task.todo[i + 1]
<1>1. PICK s : s = task.todo
  OBVIOUS
<1>2. s \in Seq(PathSeq) /\ s # <<>>
  BY <1>1 DEF TreeBase, TaskOK
<1>3. /\ Head(s) \in PathSeq /\ Tail(s) \in Seq(PathSeq) /\ Len(Tail(s)) = Len(s) - 1
      /\ \A i \in 1 .. Len(Tail(s)) : Tail(s)[i] = s[i + 1]
  BY <1>2, HeadTailProperties
<1>4. Len(s) \in Nat /\ Len(s) > 0 /\ DOMAIN s = 1 .. Len(s) /\ Head(s) = s[1] /\ 1 \in DOMAIN s
  BY <1>2
<1>5. DOMAIN Tail(s) = 1 .. Len(Tail(s))
  BY <1>3
<1>6. QED
  BY <1>1, <1>3, <1>4, <1>5

\* Where a path goes that is renamed or moved: not into itself.
LEMMA TargetFacts ==
    ASSUME TreeBase, task.todo # <<>>, NEW p, p = Head(task.todo), p \in exists,
           task.kind \in {"rename", "move", "moveFiles"}, NEW to, to = Target(p), to # p
    PROVE  /\ to \in PathSeq /\ to # Root /\ ~IsPrefix(p, to) /\ ~IsPrefix(p, parentOf(to))
           /\ task.kind = "rename" => parentOf(to) = parentOf(p)
           /\ task.kind # "rename" => parentOf(to) = task.dest
<1>1. p \in PathSeq /\ p # Root
  BY EntryPaths DEF TreeBase, TreeTypes
<1>2. TaskOK(task) /\ 1 \in DOMAIN task.todo /\ p = task.todo[1] /\ task.dest \in PathSeq
  BY HeadFacts DEF TreeBase, TaskOK
<1>3. CASE task.kind = "rename"
  <2>1. to = task.dest /\ parentOf(p) = parentOf(to) /\ to # Root
    BY <1>2, <1>3 DEF Target, TaskOK
  <2>2. ~IsPrefix(p, parentOf(to))
    BY <1>1, <2>1, PrefixParent
  <2>3. ~IsPrefix(p, to)
    BY <1>1, <1>2, <2>1, <2>2, PrefixParent
  <2>4. QED
    BY <1>2, <1>3, <2>1, <2>2, <2>3
<1>4. CASE task.kind \in {"move", "moveFiles"}
  <2>1. PICK d, l : d = task.dest /\ l = Last(p)
    OBVIOUS
  <2>2. to = Append(d, l) /\ canMoveInto(p, d) /\ d \in PathSeq
    BY <1>2, <1>4, <2>1 DEF Target, TaskOK
  <2>3. Len(p) \in Nat /\ Len(p) > 0
    BY <1>1, ParentNames
  <2>4. l \in STRING
    BY <1>1, <2>1, <2>3 DEF Last, PathSeq
  <2>5. to \in PathSeq /\ to # Root /\ parentOf(to) = d
    BY <2>2, <2>4, ChildPath
  <2>6. ~IsPrefix(p, d)
    BY <2>2 DEF canMoveInto, isInsideOrSelf
  <2>7. ~IsPrefix(p, to)
    BY <1>1, <2>5, <2>6, PrefixParent
  <2>8. QED
    BY <1>4, <2>1, <2>5, <2>6, <2>7
<1>5. QED
  BY <1>3, <1>4

\* A path under the new place of a folder, taken back to the old one.
LEMMA RelocateBack ==
    ASSUME NEW from \in PathSeq, from # Root, NEW to \in PathSeq, to # Root,
           NEW q \in PathSeq, IsPrefix(from, q),
           NEW s \in PathSeq, IsPrefix(to, s), IsPrefix(s, Relocate(q, from, to))
    PROVE  /\ Relocate(s, to, from) \in PathSeq /\ IsPrefix(from, Relocate(s, to, from))
           /\ IsPrefix(Relocate(s, to, from), q)
           /\ Relocate(Relocate(s, to, from), from, to) = s
<1>1. PICK r, u, v, a, b : /\ r = Relocate(q, from, to) /\ u = Relocate(s, to, from)
                           /\ v = Relocate(u, from, to) /\ a = Len(from) /\ b = Len(to)
  OBVIOUS
<1>2. Replaced(r, q, from, to) /\ Replaced(u, s, to, from)
  BY <1>1, RelocateNames
<1>3. /\ r \in PathSeq /\ u \in PathSeq /\ Len(r) = b + (Len(q) - a) /\ Len(u) = a + (Len(s) - b)
      /\ \A i \in 1 .. a : u[i] = from[i]
  BY <1>1, <1>2 DEF Replaced
<1>4. \A i \in 1 .. (Len(q) - a) : r[b + i] = q[a + i]
  BY <1>1, <1>2 DEF Replaced
<1>5. \A i \in 1 .. (Len(s) - b) : u[a + i] = s[b + i]
  BY <1>1, <1>2 DEF Replaced
<1>6. a \in Nat /\ b \in Nat /\ Len(q) \in Nat /\ Len(s) \in Nat /\ a <= Len(q) /\ b <= Len(s)
  BY <1>1, PrefixNames DEF PathSeq
<1>7. Len(s) <= Len(r) /\ \A i \in 1 .. Len(s) : s[i] = r[i]
  BY <1>1, <1>3, PrefixNames
<1>8. \A i \in 1 .. a : from[i] = q[i]
  BY <1>1, PrefixNames
<1>9. \A i \in 1 .. b : to[i] = s[i]
  BY <1>1, PrefixNames
<1>10. IsPrefix(from, u)
  BY <1>1, <1>3, <1>6, PrefixNames
<1>11. ASSUME NEW i \in 1 .. Len(u) PROVE u[i] = q[i]
  <2>1. CASE i <= a
    BY <1>3, <1>6, <1>8, <2>1
  <2>2. CASE ~(i <= a)
    <3>1. PICK j : j = i - a
      OBVIOUS
    <3>2. /\ j \in 1 .. (Len(s) - b) /\ j \in 1 .. (Len(q) - a) /\ a + j = i
          /\ b + j \in 1 .. Len(s)
      BY <1>3, <1>6, <1>7, <2>2, <3>1
    <3>3. u[a + j] = s[b + j]
      BY <1>5, <3>2
    <3>4. s[b + j] = r[b + j]
      BY <1>7, <3>2
    <3>5. r[b + j] = q[a + j]
      BY <1>4, <3>2
    <3>6. QED
      BY <3>2, <3>3, <3>4, <3>5
  <2>3. QED
    BY <2>1, <2>2
<1>12. IsPrefix(u, q)
  <2>1. Len(u) <= Len(q)
    BY <1>3, <1>6, <1>7
  <2>2. QED
    BY <1>3, <1>11, <2>1, PrefixNames
<1>13. v = s
  <2>1. Replaced(v, u, from, to)
    BY <1>1, <1>3, <1>10, RelocateNames
  <2>2. v \in PathSeq /\ Len(v) = b + (Len(u) - a) /\ \A i \in 1 .. b : v[i] = to[i]
    BY <1>1, <2>1 DEF Replaced
  <2>3. \A i \in 1 .. (Len(u) - a) : v[b + i] = u[a + i]
    BY <1>1, <2>1 DEF Replaced
  <2>4. Len(v) = Len(s)
    BY <1>3, <1>6, <2>2
  <2>5. ASSUME NEW i \in 1 .. Len(v) PROVE v[i] = s[i]
    <3>1. CASE i <= b
      BY <1>6, <1>9, <2>2, <3>1
    <3>2. CASE ~(i <= b)
      <4>1. PICK j : j = i - b
        OBVIOUS
      <4>2. j \in 1 .. (Len(s) - b) /\ j \in 1 .. (Len(u) - a) /\ b + j = i
        BY <1>3, <1>6, <2>4, <3>2, <4>1
      <4>3. v[b + j] = u[a + j]
        BY <2>3, <4>2
      <4>4. u[a + j] = s[b + j]
        BY <1>5, <4>2
      <4>5. QED
        BY <4>2, <4>3, <4>4
    <3>3. QED
      BY <3>1, <3>2
  <2>6. QED
    BY <2>2, <2>4, <2>5, SamePath
<1>14. QED
  BY <1>1, <1>3, <1>10, <1>12, <1>13

\* Prefixes of one path are prefixes of each other; a prefix's prefix is one.
LEMMA PrefixOrder ==
    ASSUME NEW s \in PathSeq, NEW t \in PathSeq, NEW u \in PathSeq
    PROVE  /\ IsPrefix(s, t) /\ IsPrefix(t, u) => IsPrefix(s, u)
           /\ IsPrefix(s, u) /\ IsPrefix(t, u) => IsPrefix(s, t) \/ IsPrefix(t, s)
<1>1. Len(s) \in Nat /\ Len(t) \in Nat /\ Len(u) \in Nat
  BY DEF PathSeq
<1>2. IsPrefix(s, t) /\ IsPrefix(t, u) => IsPrefix(s, u)
  BY <1>1, PrefixNames
<1>3. ASSUME IsPrefix(s, u), IsPrefix(t, u) PROVE IsPrefix(s, t) \/ IsPrefix(t, s)
  <2>1. /\ \A i \in 1 .. Len(s) : s[i] = u[i]
        /\ \A i \in 1 .. Len(t) : t[i] = u[i]
    BY <1>3, PrefixNames
  <2>2. CASE Len(s) <= Len(t)
    <3>1. \A i \in 1 .. Len(s) : s[i] = t[i]
      BY <1>1, <2>1, <2>2
    <3>2. QED
      BY <2>2, <3>1, PrefixNames
  <2>3. CASE ~(Len(s) <= Len(t))
    <3>1. Len(t) <= Len(s) /\ \A i \in 1 .. Len(t) : t[i] = s[i]
      BY <1>1, <2>1, <2>3
    <3>2. QED
      BY <3>1, PrefixNames
  <2>4. QED
    BY <2>2, <2>3
<1>4. QED
  BY <1>2, <1>3

\* A relocation keeps every folder of a path.
LEMMA RelocateComplete ==
    ASSUME NEW E, E \subseteq PathSeq, Root \notin E, Complete(E), NEW from \in E,
           NEW to \in PathSeq, to # Root, ~IsPrefix(from, to), ~IsPrefix(from, parentOf(to)),
           parentOf(to) \in E \cup {Root}
    PROVE  Complete({Relocate(q, from, to) : q \in E})
<1>1. PICK N : N = {Relocate(q, from, to) : q \in E}
  OBVIOUS
<1>2. from \in PathSeq /\ from # Root
  OBVIOUS
<1>3. \A q : ~IsPrefix(from, q) => Relocate(q, from, to) = q
  BY DEF Relocate
<1>4. ASSUME NEW r \in N, NEW s \in PathSeq, s # Root, IsPrefix(s, r) PROVE s \in N
  <2>1. PICK q \in E : r = Relocate(q, from, to)
    BY <1>1
  <2>2. q \in PathSeq
    OBVIOUS
  <2>3. CASE ~IsPrefix(from, q)
    <3>1. s \in E
      BY <1>3, <1>4, <2>1, <2>3 DEF Complete
    <3>2. ~IsPrefix(from, s)
      BY <1>2, <1>3, <1>4, <2>1, <2>2, <2>3, PrefixOrder
    <3>3. QED
      BY <1>1, <1>3, <3>1, <3>2
  <2>4. CASE IsPrefix(from, q)
    <3>1. IsPrefix(to, r) /\ r \in PathSeq
      BY <1>2, <2>1, <2>2, <2>4, RelocateFacts, RelocateNames DEF Replaced
    <3>2. IsPrefix(to, s) \/ (IsPrefix(s, to) /\ s # to)
      BY <1>4, <3>1, PrefixOrder
    <3>3. CASE IsPrefix(to, s)
      <4>1. PICK u : u = Relocate(s, to, from)
        OBVIOUS
      <4>2. u \in PathSeq /\ IsPrefix(from, u) /\ IsPrefix(u, q) /\ Relocate(u, from, to) = s
        BY <1>2, <1>4, <2>1, <2>2, <2>4, <3>3, <4>1, RelocateBack
      <4>3. u # Root
        BY <1>2, <4>2, PrefixParent
      <4>4. u \in E
        BY <4>2, <4>3 DEF Complete
      <4>5. QED
        BY <1>1, <4>2, <4>4
    <3>4. CASE IsPrefix(s, to) /\ s # to
      <4>1. IsPrefix(s, parentOf(to)) /\ parentOf(to) \in PathSeq
        BY <1>4, <3>4, PrefixParent, ParentNames
      <4>2. parentOf(to) # Root
        BY <1>4, <4>1, PrefixParent
      <4>3. s \in E
        BY <1>4, <4>1, <4>2 DEF Complete
      <4>4. ~IsPrefix(from, s)
        BY <1>2, <4>1, PrefixOrder
      <4>5. QED
        BY <1>1, <1>3, <4>3, <4>4
    <3>5. QED
      BY <3>2, <3>3, <3>4
  <2>5. QED
    BY <2>3, <2>4
<1>5. QED
  BY <1>1, <1>4 DEF Complete

\* A call keeps every folder of a path, and announces a path of the project.
LEMMA ServedFacts ==
    ASSUME TreeBase, task.todo # <<>>, NEW p, p = Head(task.todo)
    PROVE  /\ Served(p) \subseteq Entries /\ Complete(Served(p))
           /\ Served(p) # exists => p \in Entries
<1>1. exists \subseteq Entries /\ Complete(exists) /\ exists \subseteq PathSeq /\ Root \notin exists
  BY EntryPaths DEF TreeBase, TreeTypes
<1>2. p \in PathSeq /\ 1 \in DOMAIN task.todo /\ p = task.todo[1] /\ TaskOK(task)
  BY HeadFacts DEF TreeBase
<1>3. Served(p) \subseteq Entries
  BY <1>1, ServedCases
<1>4. CASE Served(p) = exists
  BY <1>1, <1>3, <1>4
<1>5. CASE Added(p)
  <2>1. Served(p) = exists \cup {p} /\ parentOf(p) \in exists \cup {Root}
    BY <1>5 DEF Added
  <2>2. p \in Entries
    BY <1>3, <2>1
  <2>3. ASSUME NEW q \in Served(p), NEW s \in PathSeq, s # Root, IsPrefix(s, q) PROVE s \in Served(p)
    <3>1. CASE q \in exists
      BY <1>1, <2>1, <2>3, <3>1 DEF Complete
    <3>2. CASE q = p /\ s # p
      <4>1. IsPrefix(s, parentOf(p))
        BY <1>2, <2>3, <3>2, PrefixParent
      <4>2. parentOf(p) # Root
        BY <2>3, <4>1, PrefixParent
      <4>3. QED
        BY <1>1, <2>1, <2>3, <4>1, <4>2 DEF Complete
    <3>3. QED
      BY <2>1, <3>1, <3>2
  <2>4. QED
    BY <1>3, <2>2, <2>3 DEF Complete
<1>6. CASE Moved(p)
  <2>1. PICK to : to = Target(p)
    OBVIOUS
  <2>2. /\ p \in exists /\ to \notin exists /\ parentOf(to) \in exists \cup {Root}
        /\ Served(p) = {Relocate(q, p, to) : q \in exists}
        /\ task.kind \in {"rename", "move", "moveFiles"}
    BY <1>6, <2>1 DEF Moved
  <2>3. to \in PathSeq /\ to # Root /\ ~IsPrefix(p, to) /\ ~IsPrefix(p, parentOf(to))
    BY <2>1, <2>2, TargetFacts
  <2>4. PICK E : E = exists
    OBVIOUS
  <2>5. Complete({Relocate(q, p, to) : q \in E})
    BY <1>1, <2>2, <2>3, <2>4, RelocateComplete
  <2>6. QED
    BY <1>1, <1>3, <2>2, <2>4, <2>5
<1>7. CASE Removed(p) /\ Served(p) # exists
  <2>1. Served(p) = {q \in exists : ~IsPrefix(p, q)}
    BY <1>7 DEF Removed
  <2>2. p \in Entries
    <3>1. CASE task.kind \in {"delete", "deleteFiles"}
      BY <1>2, <3>1 DEF TaskOK
    <3>2. CASE task.kind \notin {"delete", "deleteFiles"}
      <4>1. task.kind = "idle"
        BY <1>2, <1>7, <3>2 DEF Removed, TaskOK, SingleKinds
      <4>2. task.todo = <<>>
        BY <1>2, <4>1 DEF TaskOK, Idle
      <4>3. QED
        BY <4>2
    <3>3. QED
      BY <3>1, <3>2
  <2>3. ASSUME NEW q \in Served(p), NEW s \in PathSeq, s # Root, IsPrefix(s, q) PROVE s \in Served(p)
    <3>1. q \in exists /\ ~IsPrefix(p, q) /\ q \in PathSeq /\ s \in exists
      BY <1>1, <2>1, <2>3 DEF Complete
    <3>2. ~IsPrefix(p, s)
      BY <1>2, <2>3, <3>1, PrefixOrder
    <3>3. QED
      BY <2>1, <3>1, <3>2
  <2>4. QED
    BY <1>3, <2>2, <2>3 DEF Complete
<1>8. QED
  BY <1>1, <1>4, <1>5, <1>6, <1>7, ServedCases

\* One call of the task.
LEMMA BaseStep == ASSUME TreeBase, Step PROVE TreeBase'
<1>1. PICK p, todo, done : /\ p = Head(task.todo) /\ todo = Tail(task.todo)
                           /\ done = IF Served(p) = exists THEN task.done ELSE task.done \cup {p}
  OBVIOUS
<1>2. /\ task.todo # <<>> /\ exists' = Served(p)
      /\ notices' = IF Served(p) = exists THEN notices ELSE notices \cup {p}
      /\ task' = [task EXCEPT !.todo = todo, !.done = done]
      /\ UNCHANGED <<selectedPaths, anchorPath, inlineEdit, lists, listed>>
  BY <1>1 DEF Step, selectVars, shownVars
<1>3. Served(p) \subseteq Entries /\ Complete(Served(p)) /\ (Served(p) # exists => p \in Entries)
  BY <1>1, <1>2, ServedFacts
<1>4. PICK t : t = task'
  OBVIOUS
<1>5. TaskOK(task)
  BY DEF TreeBase
<1>6. /\ DOMAIN t = {"kind", "todo", "dest", "done"} /\ t.kind = task.kind /\ t.dest = task.dest
      /\ t.todo = todo /\ t.done = done
  BY <1>2, <1>4, <1>5 DEF TaskOK
<1>7. /\ todo \in Seq(PathSeq) /\ Len(todo) = Len(task.todo) - 1 /\ Len(task.todo) \in Nat
      /\ DOMAIN todo = 1 .. (Len(task.todo) - 1) /\ DOMAIN task.todo = 1 .. Len(task.todo)
      /\ Len(task.todo) > 0
  BY <1>1, <1>2, HeadFacts
<1>8. \A i \in DOMAIN todo : i + 1 \in DOMAIN task.todo /\ todo[i] = task.todo[i + 1]
  BY <1>1, <1>2, <1>7, HeadFacts
<1>9. t.kind # "idle"
  BY <1>2, <1>5, <1>6 DEF TaskOK, Idle
<1>10. t.kind \in SingleKinds => Len(t.todo) <= 1 /\ t.todo = <<>>
  <2>1. t.kind \in SingleKinds => Len(task.todo) <= 1
    BY <1>5, <1>6 DEF TaskOK
  <2>2. PICK n, m : n = Len(task.todo) /\ m = Len(todo)
    OBVIOUS
  <2>3. n \in Nat /\ m = n - 1 /\ n > 0
    BY <1>7, <2>2
  <2>4. n <= 1 => m = 0 /\ m <= 1
    BY <2>3
  <2>5. m = 0 => todo = <<>>
    BY <1>7, <2>2, EmptySeq
  <2>6. QED
    BY <1>6, <2>1, <2>2, <2>4, <2>5
<1>11. /\ t.kind \in {"delete", "deleteFiles"} => \A i \in DOMAIN t.todo : t.todo[i] \in Entries
       /\ t.kind \in {"move", "moveFiles"} => \A i \in DOMAIN t.todo : canMoveInto(t.todo[i], t.dest)
  BY <1>5, <1>6, <1>8 DEF TaskOK
<1>12. ASSUME t.kind = "moveFiles", NEW i \in DOMAIN t.todo, NEW j \in DOMAIN t.todo, i < j
       PROVE  ~IsPrefix(t.todo[i], t.todo[j])
  <2>1. i + 1 < j + 1
    BY <1>6, <1>7, <1>12
  <2>2. /\ i + 1 \in DOMAIN task.todo /\ j + 1 \in DOMAIN task.todo
        /\ t.todo[i] = task.todo[i + 1] /\ t.todo[j] = task.todo[j + 1]
    BY <1>6, <1>8
  <2>3. PICK k, l : k = i + 1 /\ l = j + 1
    OBVIOUS
  <2>4. ~IsPrefix(task.todo[k], task.todo[l])
    BY <1>5, <1>6, <1>12, <2>1, <2>2, <2>3 DEF TaskOK
  <2>5. QED
    BY <2>2, <2>3, <2>4
<1>13. TaskOK(t)
  <2>1. t.kind \in {"create", "rename", "upload"} => DOMAIN t.todo = {}
    BY <1>10 DEF SingleKinds
  <2>2. QED
    BY <1>5, <1>6, <1>7, <1>9, <1>10, <1>11, <1>12, <2>1 DEF TaskOK
<1>14. notices' \subseteq Entries
  BY <1>2, <1>3 DEF TreeBase, TreeTypes
<1>15. QED
  BY <1>2, <1>3, <1>4, <1>13, <1>14 DEF TreeBase, TreeTypes

\* The ends of the tasks.
LEMMA BaseFinish == ASSUME TreeBase, FinishOne \/ FinishAll PROVE TreeBase'
<1>1. TaskOK(task')
  BY IdleOK DEF FinishOne, FinishAll
<1>2. UNCHANGED <<exists, notices, selectedPaths, anchorPath, inlineEdit>>
  BY DEF FinishOne, FinishAll, selectVars
<1>3. UNCHANGED lists \/ \E fs : List(fs, FALSE)
  BY DEF FinishOne, FinishAll
<1>4. \A c \in lists' : IsListing(c)
  BY <1>3, ListFacts DEF TreeBase, TreeTypes
<1>5. /\ DOMAIN listed' = Places
      /\ \A f \in Places : DOMAIN listed'[f] = {"loaded", "entries"} /\ listed'[f].entries \subseteq Entries
  <2>1. CASE UNCHANGED listed
    BY <2>1 DEF TreeBase, TreeTypes
  <2>2. DOMAIN Unloaded = {"loaded", "entries"} /\ Unloaded.entries = {}
    BY DEF Unloaded
  <2>3. CASE FinishAll /\ ~UNCHANGED listed
    <3>1. listed' = [f \in Places |-> IF f = Root THEN listed[f] ELSE Unloaded]
      BY <2>3 DEF FinishAll
    <3>2. QED
      BY <2>2, <3>1 DEF TreeBase, TreeTypes
  <2>4. CASE FinishOne /\ ~UNCHANGED listed
    <3>3. PICK from : listed' = [f \in Places |-> ShownAt(f, from)]
      BY <2>4 DEF FinishOne
    <3>4. ASSUME NEW f \in Places
          PROVE  DOMAIN listed'[f] = {"loaded", "entries"} /\ listed'[f].entries \subseteq Entries
      <4>1. CASE f # Root /\ Olds(f, from) = {}
        BY <2>2, <3>3, <4>1 DEF ShownAt
      <4>2. CASE ~(f # Root /\ Olds(f, from) = {})
        <5>1. PICK g : g = IF f = Root THEN Root ELSE CHOOSE h \in Olds(f, from) : TRUE
          OBVIOUS
        <5>2. g \in Places
          BY <4>2, <5>1 DEF Olds, Places
        <5>3. DOMAIN listed[g] = {"loaded", "entries"}
          BY <5>2 DEF TreeBase, TreeTypes
        <5>4. PICK S : S = {Goes(p, from) : p \in listed[g].entries} \cap Entries
          OBVIOUS
        <5>5. listed'[f] = [listed[g] EXCEPT !.entries = S]
          BY <3>3, <4>2, <5>1, <5>4 DEF ShownAt
        <5>6. QED
          BY <5>3, <5>4, <5>5
      <4>3. QED
        BY <4>1, <4>2
    <3>5. QED
      BY <3>3, <3>4
  <2>5. QED
    BY <2>1, <2>3, <2>4
<1>6. QED
  BY <1>1, <1>2, <1>4, <1>5 DEF TreeBase, TreeTypes

\* Every step keeps it.
LEMMA BaseKept == TreeBase /\ [TreeNext]_treeVars => TreeBase'
<1> SUFFICES ASSUME TreeBase, [TreeNext]_treeVars PROVE TreeBase'
  OBVIOUS
<1>1. CASE UNCHANGED treeVars
  BY <1>1 DEF treeVars, selectVars, shownVars, TreeBase, TreeTypes
<1>2. CASE Gesture
  BY <1>2, BaseClicks, BaseBegins, BaseListings DEF Gesture
<1>3. CASE TreeProgress
  BY <1>3, BaseStep, BaseFinish, BaseListings DEF TreeProgress
<1>4. QED
  BY <1>1, <1>2, <1>3 DEF TreeNext

-----------------------------------------------------------------------------
(* The file explorer: nothing is missed.                                   *)

\* What a step of the drag may do to the paths that are still to be moved.
SourcesStep ==
    task.kind = "moveFiles" /\ task' # task =>
        \A i \in DOMAIN task'.todo : task'.todo[i] \in exists => task'.todo[i] \in exists'

\* No move of a drag takes a later source away.
LEMMA SourcesKept == TreeBase /\ [TreeNext]_treeVars => [SourcesStep]_treeVars
<1> SUFFICES ASSUME TreeBase, [TreeNext]_treeVars, task.kind = "moveFiles", task' # task
             PROVE  \A i \in DOMAIN task'.todo : task'.todo[i] \in exists => task'.todo[i] \in exists'
  BY DEF SourcesStep
<1>1. task # Idle
  BY SMTT(30) DEF Idle
<1>2. ~UNCHANGED treeVars
  BY SMTT(30) DEF treeVars
<1>3. Step \/ FinishAll
  BY <1>1, <1>2 DEF TreeNext, Gesture, TreeProgress, NodeClick, ToggleFolder, StartEdit, CancelEdit,
     ConfirmEdit, Drop, DeleteKey, DropFile, OutsideChange, Begin, FinishOne, ServeList, ListDone, Notice
<1>4. CASE FinishAll
  <2>1. task'.todo = <<>>
    BY <1>4 DEF FinishAll, Idle
  <2>2. QED
    BY <2>1
<1>5. CASE Step
  <2>1. PICK p : p = Head(task.todo)
    OBVIOUS
  <2>2. task.todo # <<>> /\ exists' = Served(p) /\ task'.todo = Tail(task.todo)
    BY <1>5, <2>1 DEF Step, TreeBase, TaskOK
  <2>3. /\ p = task.todo[1] /\ Len(task.todo) \in Nat /\ DOMAIN task.todo = 1 .. Len(task.todo)
        /\ DOMAIN Tail(task.todo) = 1 .. (Len(task.todo) - 1)
        /\ \A i \in 1 .. (Len(task.todo) - 1) : Tail(task.todo)[i] = task.todo[i + 1]
    BY <2>1, <2>2, HeadFacts
  <2>4. ASSUME NEW i \in DOMAIN task'.todo, task'.todo[i] \in exists
        PROVE  task'.todo[i] \in exists'
    <3>1. PICK q, j : q = task'.todo[i] /\ j = i + 1
      OBVIOUS
    <3>2. q = task.todo[j] /\ j \in DOMAIN task.todo /\ 1 \in DOMAIN task.todo /\ 1 < j
      BY <2>2, <2>3, <3>1
    <3>3. ~IsPrefix(p, q)
      BY <2>3, <3>2 DEF TreeBase, TaskOK
    <3>4. q \in exists
      BY <2>4, <3>1
    <3>5. Served(p) = exists \/ Moved(p)
      BY ServedCases DEF TreeBase, TreeTypes, Added, Removed
    <3>6. CASE Moved(p)
      <4>1. Relocate(q, p, Target(p)) = q
        BY <3>3 DEF Relocate
      <4>2. q \in Served(p)
        BY <3>4, <3>6, <4>1 DEF Moved
      <4>3. QED
        BY <2>2, <3>1, <4>2
    <3>7. QED
      BY <2>2, <3>1, <3>4, <3>5, <3>6
  <2>5. QED
    BY <2>4
<1>6. QED
  BY <1>3, <1>4, <1>5

ChildrenIn(E, f) == {p \in E : p # Root /\ parentOf(p) = f}

\* Paths that relocate to one are one.
LEMMA RelocateApart ==
    ASSUME NEW E, E \subseteq PathSeq, Root \notin E, Complete(E), NEW from \in E,
           NEW to \in PathSeq, to # Root, to \notin E,
           NEW x \in E \cup {Root}, NEW y \in E \cup {Root},
           Relocate(x, from, to) = Relocate(y, from, to)
    PROVE  x = y
<1>1. from \in PathSeq /\ from # Root /\ x \in PathSeq /\ y \in PathSeq
  BY EntryPaths
<1>2. ASSUME NEW u \in E \cup {Root}, NEW v \in E \cup {Root}, IsPrefix(from, u), ~IsPrefix(from, v),
             Relocate(u, from, to) = Relocate(v, from, to)
      PROVE  FALSE
  <2>1. u \in PathSeq /\ v \in PathSeq
    BY EntryPaths
  <2>2. Relocate(v, from, to) = v
    BY <1>2 DEF Relocate
  <2>3. IsPrefix(to, v)
    BY <1>1, <1>2, <2>1, <2>2, RelocateFacts
  <2>4. v # Root
    BY <2>3, PrefixParent
  <2>5. to \in E
    BY <2>3, <2>4 DEF Complete
  <2>6. QED
    BY <2>5
<1>3. CASE IsPrefix(from, x) /\ IsPrefix(from, y)
  BY <1>1, <1>3, RelocateOnce
<1>4. CASE ~IsPrefix(from, x) /\ ~IsPrefix(from, y)
  BY <1>4 DEF Relocate
<1>5. QED
  BY <1>2, <1>3, <1>4

\* What a folder holds after a relocation is what it held, relocated.  The exceptions are
\* the folder that is left and the one that is entered, when they differ.
LEMMA RelocatedChildren ==
    ASSUME NEW E, E \subseteq PathSeq, Root \notin E, Complete(E), NEW from \in E,
           NEW to \in PathSeq, to # Root, to \notin E, ~IsPrefix(from, to),
           ~IsPrefix(from, parentOf(to)), NEW f \in E \cup {Root},
           \/ parentOf(to) = parentOf(from)
           \/ Relocate(f, from, to) \notin {parentOf(from), parentOf(to)}
    PROVE  {Relocate(x, from, to) : x \in ChildrenIn(E, f)}
              = ChildrenIn({Relocate(x, from, to) : x \in E}, Relocate(f, from, to))
<1>1. from \in PathSeq /\ from # Root /\ f \in PathSeq
  BY EntryPaths
<1>2. \A x : ~IsPrefix(from, x) => Relocate(x, from, to) = x
  BY DEF Relocate
<1>3. ~IsPrefix(from, parentOf(from)) /\ ~IsPrefix(from, Root) /\ Relocate(from, from, to) = to
  BY <1>1, PrefixParent, RelocateFacts
<1>4. \A x \in E : parentOf(x) \in E \cup {Root}
  <2>1. ASSUME NEW x \in E PROVE parentOf(x) \in E \cup {Root}
    <3>1. x \in PathSeq /\ x # Root /\ parentOf(x) \in PathSeq
      BY ParentNames
    <3>2. parentOf(x) # Root => IsPrefix(parentOf(x), x)
      BY <3>1, PrefixParent
    <3>3. QED
      BY <3>1, <3>2 DEF Complete
  <2>2. QED
    BY <2>1
<1>5. ASSUME NEW x \in E PROVE Relocate(x, from, to) # Root
  <2>1. x \in PathSeq /\ x # Root
    OBVIOUS
  <2>2. CASE IsPrefix(from, x)
    BY <1>1, <2>1, <2>2, RelocateFacts
  <2>3. CASE ~IsPrefix(from, x)
    BY <1>2, <2>1, <2>3
  <2>4. QED
    BY <2>2, <2>3
<1>6. ASSUME NEW x \in E, x # from
      PROVE  parentOf(Relocate(x, from, to)) = Relocate(parentOf(x), from, to)
  <2>1. x \in PathSeq
    OBVIOUS
  <2>2. CASE IsPrefix(from, x)
    BY <1>1, <1>6, <2>1, <2>2, RelocateFacts
  <2>3. CASE ~IsPrefix(from, x)
    <3>1. ~IsPrefix(from, parentOf(x))
      BY <1>1, <2>1, <2>3, PrefixParent
    <3>2. QED
      BY <1>2, <2>3, <3>1
  <2>4. QED
    BY <2>2, <2>3
<1>7. ASSUME NEW x \in E
      PROVE  parentOf(x) = f <=> parentOf(Relocate(x, from, to)) = Relocate(f, from, to)
  <2>1. CASE x # from
    <3>1. parentOf(x) \in E \cup {Root}
      BY <1>4
    <3>2. Relocate(parentOf(x), from, to) = Relocate(f, from, to) => parentOf(x) = f
      BY <3>1, RelocateApart
    <3>3. QED
      BY <1>6, <2>1, <3>2
  <2>2. CASE x = from
    <3>1. Relocate(x, from, to) = to
      BY <1>3, <2>2
    <3>2. Relocate(parentOf(from), from, to) = parentOf(from) /\ parentOf(from) \in E \cup {Root}
      BY <1>2, <1>3, <1>4
    <3>3. Relocate(parentOf(from), from, to) = Relocate(f, from, to) => parentOf(from) = f
      BY <3>2, RelocateApart
    <3>4. CASE parentOf(to) = parentOf(from)
      BY <2>2, <3>1, <3>2, <3>3, <3>4
    <3>5. CASE Relocate(f, from, to) \notin {parentOf(from), parentOf(to)}
      BY <2>2, <3>1, <3>2, <3>5
    <3>6. QED
      BY <3>4, <3>5
  <2>3. QED
    BY <2>1, <2>2
<1>8. QED
  BY <1>5, <1>7 DEF ChildrenIn

\* A folder that is there, and what is known of what it shows: it is right, an answer to a
\* listing of it is to come, or an event that will cause one.
Alive(f) == f \in exists \cup {Root}
Current(f) == listed[f].entries = Children(f)
Awaited(f) == \E c \in lists : c.f = f /\ c.at \in {"sent", "ok"}
Noticed(f) == \E p \in notices : parentOf(p) = f

\* An answer that will be shown as it is.
Usable(c) == c.at = "ok" /\ ~c.old
Accurate(c) == Alive(c.f) /\ c.got = Children(c.f)

\* Between two changes.
AtRest ==
    /\ \A c \in lists : Usable(c) => Accurate(c)
    /\ \A f \in Places : listed[f].loaded => Alive(f) /\ (Current(f) \/ Awaited(f) \/ Noticed(f))

\* A change has begun, and nothing has happened on the runner.
Undone ==
    /\ notices = {}
    /\ \A c \in lists : Usable(c) => Accurate(c)
    /\ \A f \in Places : listed[f].loaded => Alive(f) /\ Current(f)

\* A path was created: only its folder may be shown without it.
Created ==
    /\ Alive(task.dest)
    /\ \A c \in lists : Usable(c) => Alive(c.f) /\ (c.f # task.dest => c.got = Children(c.f))
    /\ \A f \in Places : listed[f].loaded => Alive(f) /\ (f # task.dest => Current(f))

\* E is what the folder f shows, or will show, once its paths are put where they went.
Fits(f, E, from) ==
    Goes(f, from) # NoPath =>
        /\ Alive(Goes(f, from))
        /\ \/ {Goes(p, from) : p \in E} \cap Entries = Children(Goes(f, from))
           \/ task.kind = "move" /\ Goes(f, from) \in {parentOf(from), task.dest}

\* The path from was renamed, moved or deleted.
Relocating(from) ==
    /\ task.done = {from} /\ from \in Entries
    /\ task.kind = "move" => Alive(parentOf(from)) /\ Alive(task.dest)
    /\ \A q \in exists : ~IsPrefix(from, q)
    /\ \A f \in Places : listed[f].loaded => Fits(f, listed[f].entries, from)
    /\ \A c \in lists : Usable(c) => Fits(c.f, c.got, from)

Seen ==
    /\ task.kind = "idle" => AtRest
    /\ task.kind # "idle" /\ task.done = {} => Undone
    /\ task.kind = "create" /\ task.done # {} => Created
    /\ task.kind \in {"rename", "move", "delete"} => \A from \in task.done : Relocating(from)

\* Every change is under way to the screen, unless two overlapped.
TreeInv == TreeBase /\ (overlapped \/ Seen)

\* A change that has not happened yet may end as it began.
LEMMA UndoneSeen ==
    /\ Undone => AtRest
    /\ Undone /\ task.done = {} => Seen
    /\ AtRest /\ task.kind = "idle" => Seen
BY DEF Undone, AtRest, Seen

\* Steps that only touch listings under way, and drop an event that is seen to.
LEMMA SeenLists ==
    ASSUME Seen, UNCHANGED <<exists, listed, task>>, notices' \subseteq notices,
           \A c \in lists' : Usable(c) => \E d \in lists : Usable(d) /\ d.f = c.f /\ d.got = c.got,
           \A d \in lists : \E c \in lists' : c.f = d.f /\ c.at = d.at,
           \A f \in Places : listed[f].loaded /\ Noticed(f) => Noticed(f)' \/ Awaited(f)'
    PROVE  Seen'
<1>1. \A f : /\ Alive(f)' = Alive(f) /\ Children(f)' = Children(f) /\ Current(f)' = Current(f)
             /\ Awaited(f) => Awaited(f)'
  BY DEF Alive, Children, Current, Awaited
<1>2. ASSUME AtRest PROVE AtRest'
  <2>1. \A c \in lists' : Usable(c) => Accurate(c)'
    BY <1>1, <1>2 DEF AtRest, Accurate
  <2>2. QED
    BY <1>1, <1>2, <2>1 DEF AtRest, Usable
<1>3. ASSUME Undone PROVE Undone'
  <2>1. \A c \in lists' : Usable(c) => Accurate(c)'
    BY <1>1, <1>3 DEF Undone, Accurate
  <2>2. QED
    BY <1>1, <1>3, <2>1 DEF Undone, Usable
<1>4. ASSUME Created PROVE Created'
  BY <1>1, <1>4 DEF Created, Usable
<1>5. \A p, from : Goes(p, from)' = Goes(p, from)
  BY DEF Goes, Target
<1>6. \A f, E, from : Fits(f, E, from)' = Fits(f, E, from)
  BY <1>1, <1>5 DEF Fits
<1>7. ASSUME NEW from, Relocating(from) PROVE Relocating(from)'
  <2>1. \A c \in lists' : Usable(c) => Fits(c.f, c.got, from)
    BY <1>7 DEF Relocating
  <2>2. QED
    BY <1>1, <1>6, <1>7, <2>1 DEF Relocating, Usable
<1>8. QED
  BY <1>2, <1>3, <1>4, <1>7 DEF Seen

\* At first everything shown is what is there.
LEMMA SeenInit == TreeInit => Seen
<1> SUFFICES ASSUME TreeInit PROVE Seen
  OBVIOUS
<1>1. task.kind = "idle" /\ task.done = {}
  BY DEF TreeInit, Idle
<1>2. ASSUME NEW f \in Places, listed[f].loaded PROVE Alive(f) /\ Current(f)
  <2>1. listed[f] = IF f = Root \/ f \in expanded THEN Listing(f) ELSE Unloaded
    BY DEF TreeInit
  <2>2. f = Root \/ f \in expanded
    BY <1>2, <2>1 DEF Unloaded
  <2>3. Alive(f)
    BY <2>2, TreeAssumption DEF TreeInit, Alive
  <2>4. QED
    BY <2>1, <2>2, <2>3 DEF Current, Listing
<1>3. AtRest
  BY <1>2 DEF AtRest, TreeInit
<1>4. QED
  BY <1>1, <1>3, UndoneSeen

\* Clicks, keys and the inline input.
LEMMA SeenClicks ==
    ASSUME TreeBase, Seen,
           \/ \E p \in Entries, multi \in BOOLEAN : NodeClick(p, multi)
           \/ \E f \in Folders : ToggleFolder(f)
           \/ \E type \in {"create", "rename"} : StartEdit(type)
           \/ CancelEdit
    PROVE  Seen'
<1>1. UNCHANGED <<exists, listed, task, notices>>
  BY DEF NodeClick, ToggleFolder, StartEdit, CancelEdit, selectVars, shownVars
<1>2. \A f : Noticed(f)' = Noticed(f)
  BY <1>1 DEF Noticed
<1>3. UNCHANGED lists \/ \E f : List({f}, TRUE)
  BY DEF NodeClick, ToggleFolder, StartEdit, CancelEdit, selectVars, shownVars
<1>4. CASE UNCHANGED lists
  BY <1>1, <1>2, <1>4, SeenLists
<1>5. ASSUME NEW f, List({f}, TRUE) PROVE Seen'
  <2>1. PICK fs, yes : fs = {f} /\ yes = TRUE
    OBVIOUS
  <2>2. /\ \A c \in lists' : c.at = "ok" /\ ~c.old =>
              \E d \in lists : d.at = "ok" /\ ~d.old /\ d.f = c.f /\ d.got = c.got
        /\ \A d \in lists : \E c \in lists' : c.f = d.f /\ c.at = d.at
    BY <1>5, ListFacts DEF TreeBase
  <2>3. \A c \in lists' : Usable(c) => \E d \in lists : Usable(d) /\ d.f = c.f /\ d.got = c.got
    BY <2>2 DEF Usable
  <2>4. QED
    BY <1>1, <1>2, <2>2, <2>3, SeenLists
<1>6. QED
  BY <1>3, <1>4, <1>5

\* An event: the folder of its path is listed again.
LEMMA SeenNotice ==
    ASSUME TreeBase, Seen, NEW q \in notices, Notice(q) PROVE Seen'
<1>1. /\ UNCHANGED <<exists, listed, task>> /\ notices' = notices \ {q}
      /\ List(refreshAncestors(q), FALSE)
  BY DEF Notice, shownVars
<1>2. PICK fs, no : fs = refreshAncestors(q) /\ no = FALSE
  OBVIOUS
<1>3. /\ \A c \in lists' : ~(c.at = "ok" /\ ~c.old)
      /\ \A d \in lists : \E c \in lists' : c.f = d.f /\ c.at = d.at
      /\ \A f \in fs : \E c \in lists' : c.f = f /\ c.at = "sent"
  BY <1>1, <1>2, ListFacts DEF TreeBase
<1>4. \A c \in lists' : ~Usable(c)
  BY <1>3 DEF Usable
<1>5. q \in Entries /\ q \in PathSeq /\ q # Root /\ parentOf(q) \in Places /\ parentOf(q) \in PathSeq
  BY EntryPaths DEF TreeBase, TreeTypes
<1>6. parentOf(q) # q
  BY <1>5, PrefixParent
<1>7. parentOf(q) # Root => IsPrefix(parentOf(q), q)
  BY <1>5, PrefixParent
<1>8. listed[parentOf(q)].loaded => parentOf(q) \in fs
  BY <1>2, <1>5, <1>6, <1>7 DEF refreshAncestors, Places
<1>9. ASSUME NEW f \in Places, listed[f].loaded, Noticed(f) PROVE Noticed(f)' \/ Awaited(f)'
  <2>1. PICK p \in notices : parentOf(p) = f
    BY <1>9 DEF Noticed
  <2>2. CASE p = q
    BY <1>3, <1>8, <1>9, <2>1, <2>2 DEF Awaited
  <2>3. CASE p # q
    BY <1>1, <2>1, <2>3 DEF Noticed
  <2>4. QED
    BY <2>2, <2>3
<1>10. QED
  BY <1>1, <1>3, <1>4, <1>9, SeenLists

\* git, the assistant or a run changes a file while nothing else is under way.
LEMMA SeenOutside ==
    ASSUME TreeBase, Seen, NEW p \in Entries, OutsideChange(p), ~overlapped' PROVE Seen'
<1>1. /\ task = Idle /\ lists = {} /\ notices = {} /\ notices' = {p}
      /\ exists' = (exists \ {p}) \cup ({p} \ exists)
      /\ UNCHANGED <<task, lists, listed>>
      /\ p \notin Folders /\ parentOf(p) \in exists \cup {Root}
  BY DEF OutsideChange
<1>2. p # Root
  BY EntryPaths
<1>3. \A f \in Places : Alive(f)' = Alive(f)
  BY <1>1, <1>2 DEF Alive, Places
<1>4. ASSUME NEW f, f # parentOf(p) PROVE Children(f)' = Children(f)
  BY <1>1, <1>4 DEF Children
<1>5. AtRest
  BY <1>1 DEF Seen, Idle
<1>6. \A f : ~Awaited(f) /\ ~Noticed(f)
  BY <1>1 DEF Awaited, Noticed
<1>7. Noticed(parentOf(p))'
  BY <1>1 DEF Noticed
<1>8. ASSUME NEW f \in Places, listed'[f].loaded PROVE Alive(f)' /\ (Current(f)' \/ Noticed(f)')
  <2>1. Alive(f) /\ Current(f)
    BY <1>1, <1>5, <1>6, <1>8 DEF AtRest
  <2>2. f # parentOf(p) => Current(f)'
    BY <1>1, <1>4, <2>1 DEF Current
  <2>3. f = parentOf(p) => Noticed(f)'
    BY <1>1 DEF Noticed
  <2>4. QED
    BY <1>3, <2>1, <2>2, <2>3
<1>9. AtRest'
  BY <1>1, <1>8 DEF AtRest
<1>10. task'.kind = "idle" /\ task'.done = {}
  BY <1>1 DEF Idle
<1>11. QED
  BY <1>9, <1>10 DEF Seen

\* A change begins while nothing else is under way.
LEMMA SeenBegins ==
    ASSUME TreeBase, Seen, ~overlapped', task.kind = "idle",
           \E kind, order, dest : Begin(kind, order, dest)
    PROVE  Seen'
<1>0. PICK kind, order, dest : Begin(kind, order, dest)
  OBVIOUS
<1>1. /\ lists = {} /\ notices = {} /\ UNCHANGED <<exists, notices, lists, listed>>
      /\ task'.done = {}
  BY <1>0 DEF Begin
<1>2. AtRest
  BY DEF Seen
<1>3. \A f : Alive(f)' = Alive(f) /\ Current(f)' = Current(f) /\ ~Awaited(f) /\ ~Noticed(f)
  BY <1>1 DEF Alive, Current, Children, Awaited, Noticed
<1>4. Undone'
  BY <1>1, <1>2, <1>3 DEF AtRest, Undone
<1>5. AtRest'
  BY <1>1, <1>2, <1>3 DEF AtRest
<1>6. QED
  BY <1>1, <1>4, <1>5 DEF Seen

\* Nothing is left where a path was renamed, moved or deleted.
LEMMA NothingGoes ==
    ASSUME TreeBase, NEW from, Relocating(from)
    PROVE  /\ \A f : Alive(f) => Goes(f, from) = f
           /\ \A f : {Goes(p, from) : p \in Children(f)} \cap Entries = Children(f)
<1>1. from \in PathSeq /\ from # Root
  BY EntryPaths DEF Relocating
<1>2. \A q \in exists \cup {Root} : ~IsPrefix(from, q)
  BY <1>1, PrefixParent DEF Relocating
<1>3. \A q \in exists \cup {Root} : Goes(q, from) = q
  BY <1>2 DEF Goes
<1>4. \A f : \A p \in Children(f) : Goes(p, from) = p /\ p \in Entries
  BY <1>3 DEF Children, TreeBase, TreeTypes
<1>5. QED
  BY <1>3, <1>4 DEF Alive

\* What is listed now is right, whatever else is under way.
LEMMA ListedFits ==
    ASSUME TreeBase, NEW from, Relocating(from), NEW f, Alive(f)
    PROVE  Fits(f, Children(f), from)
BY NothingGoes DEF Fits

\* The runner answers a listing.
LEMMA SeenServed ==
    ASSUME TreeBase, Seen, NEW c \in lists, ServeList(c) PROVE Seen'
<1>1. PICK at, got, d : /\ at = (IF c.f = Root \/ c.f \in exists THEN "ok" ELSE "failed")
                        /\ got = Children(c.f) /\ d = [c EXCEPT !.at = at, !.got = got]
  OBVIOUS
<1>2. lists' = (lists \ {c}) \cup {d} /\ UNCHANGED <<exists, notices, task, listed>> /\ c.at = "sent"
  BY <1>1 DEF ServeList, shownVars
<1>3. d.f = c.f /\ d.at = at /\ d.got = got
  BY <1>1 DEF TreeBase, TreeTypes, IsListing
<1>4. d.at = "ok" => Alive(d.f) /\ d.got = Children(d.f)
  BY <1>1, <1>3 DEF Alive
<1>5. \A f : /\ Alive(f)' = Alive(f) /\ Children(f)' = Children(f) /\ Current(f)' = Current(f)
             /\ Noticed(f)' = Noticed(f)
  BY <1>2 DEF Alive, Children, Current, Noticed
<1>6. ASSUME NEW f, Alive(f), Awaited(f) PROVE Awaited(f)'
  <2>1. PICK e \in lists : e.f = f /\ e.at \in {"sent", "ok"}
    BY <1>6 DEF Awaited
  <2>2. CASE e = c
    BY <1>1, <1>2, <1>3, <1>6, <2>1, <2>2 DEF Awaited, Alive
  <2>3. CASE e # c
    BY <1>2, <2>1, <2>3 DEF Awaited
  <2>4. QED
    BY <2>2, <2>3
<1>7. \A e \in lists' : Usable(e) => e = d \/ e \in lists
  BY <1>2
<1>8. Usable(d) => Accurate(d)
  BY <1>4 DEF Usable, Accurate
<1>9. ASSUME AtRest PROVE AtRest'
  <2>1. \A e \in lists' : Usable(e) => Accurate(e)'
    BY <1>5, <1>7, <1>8, <1>9 DEF AtRest, Accurate
  <2>2. QED
    BY <1>2, <1>5, <1>6, <1>9, <2>1 DEF AtRest, Usable
<1>10. ASSUME Undone PROVE Undone'
  <2>1. \A e \in lists' : Usable(e) => Accurate(e)'
    BY <1>5, <1>7, <1>8, <1>10 DEF Undone, Accurate
  <2>2. QED
    BY <1>2, <1>5, <1>10, <2>1 DEF Undone, Usable
<1>11. ASSUME Created PROVE Created'
  <2>1. \A e \in lists' : Usable(e) => Alive(e.f) /\ (e.f # task.dest => e.got = Children(e.f))
    BY <1>7, <1>8, <1>11 DEF Created, Accurate
  <2>2. QED
    BY <1>2, <1>5, <1>11, <2>1 DEF Created, Usable
<1>12. \A f, E, from : Fits(f, E, from)' = Fits(f, E, from)
  <2>1. \A p, from : Goes(p, from)' = Goes(p, from)
    BY <1>2 DEF Goes, Target
  <2>2. QED
    BY <1>2, <1>5, <2>1 DEF Fits
<1>13. ASSUME NEW from, Relocating(from) PROVE Relocating(from)'
  <2>1. Usable(d) => Fits(d.f, d.got, from)
    <3>1. PICK f : f = d.f
      OBVIOUS
    <3>2. Alive(f) => Fits(f, Children(f), from)
      BY <1>13, ListedFits
    <3>3. QED
      BY <1>4, <3>1, <3>2 DEF Usable
  <2>2. \A e \in lists' : Usable(e) => Fits(e.f, e.got, from)
    BY <1>7, <1>13, <2>1 DEF Relocating
  <2>3. QED
    BY <1>2, <1>5, <1>12, <1>13, <2>2 DEF Relocating, Usable
<1>14. QED
  BY <1>2, <1>9, <1>10, <1>11, <1>13 DEF Seen

\* The answer reaches the explorer.
LEMMA SeenListDone ==
    ASSUME TreeBase, Seen, NEW c \in lists, ListDone(c), ~overlapped' PROVE Seen'
<1>1. lists' = lists \ {c} /\ UNCHANGED <<exists, notices, task>>
  BY DEF ListDone
<1>2. \A f : /\ Alive(f)' = Alive(f) /\ Children(f)' = Children(f) /\ Noticed(f)' = Noticed(f)
             /\ Awaited(f) => Awaited(f)' \/ (c.f = f /\ c.at = "ok")
  <2>1. c.at = "ok" \/ c.at = "failed"
    BY DEF ListDone
  <2>2. \A f : Awaited(f) => Awaited(f)' \/ (c.f = f /\ c.at = "ok")
    BY <1>1, <2>1 DEF Awaited
  <2>3. QED
    BY <1>1, <2>2 DEF Alive, Children, Noticed
<1>3. /\ c.at = "ok" => Usable(c) /\ \A f \in Places : listed'[f] = IF f = c.f
                                      THEN [loaded |-> TRUE, entries |-> c.got] ELSE listed[f]
      /\ c.at # "ok" => listed' = listed
  BY DEF ListDone, Usable, TreeBase, TreeTypes
<1>4. ASSUME NEW f \in Places
      PROVE  \/ listed'[f] = listed[f] /\ (Awaited(f) => Awaited(f)')
             \/ f = c.f /\ Usable(c) /\ listed'[f].entries = c.got
  BY <1>2, <1>3
<1>5. ASSUME AtRest PROVE AtRest'
  <2>1. \A e \in lists' : Usable(e) => Accurate(e)'
    BY <1>1, <1>2, <1>5 DEF AtRest, Accurate
  <2>2. ASSUME NEW f \in Places, listed'[f].loaded
        PROVE  Alive(f)' /\ (Current(f)' \/ Awaited(f)' \/ Noticed(f)')
    <3>1. CASE listed'[f] = listed[f] /\ (Awaited(f) => Awaited(f)')
      BY <1>2, <1>5, <2>2, <3>1 DEF AtRest, Current
    <3>2. CASE f = c.f /\ Usable(c) /\ listed'[f].entries = c.got
      BY <1>2, <1>5, <3>2 DEF AtRest, Accurate, Current
    <3>3. QED
      BY <1>4, <3>1, <3>2
  <2>3. QED
    BY <2>1, <2>2 DEF AtRest, Usable
<1>6. ASSUME Undone PROVE Undone'
  <2>1. \A e \in lists' : Usable(e) => Accurate(e)'
    BY <1>1, <1>2, <1>6 DEF Undone, Accurate
  <2>2. ASSUME NEW f \in Places, listed'[f].loaded PROVE Alive(f)' /\ Current(f)'
    BY <1>2, <1>4, <1>6, <2>2 DEF Undone, Accurate, Current
  <2>3. QED
    BY <1>1, <1>6, <2>1, <2>2 DEF Undone, Usable
<1>7. ASSUME Created PROVE Created'
  <2>1. ASSUME NEW f \in Places, listed'[f].loaded PROVE Alive(f)' /\ (f # task.dest => Current(f)')
    BY <1>2, <1>4, <1>7, <2>1 DEF Created, Current
  <2>2. QED
    BY <1>1, <1>2, <1>7, <2>1 DEF Created, Usable
<1>8. \A f, E, from : Fits(f, E, from)' = Fits(f, E, from)
  <2>1. \A p, from : Goes(p, from)' = Goes(p, from)
    BY <1>1 DEF Goes, Target
  <2>2. QED
    BY <1>1, <1>2, <2>1 DEF Fits
<1>9. ASSUME NEW from, Relocating(from) PROVE Relocating(from)'
  <2>1. ASSUME NEW f \in Places, listed'[f].loaded PROVE Fits(f, listed'[f].entries, from)
    BY <1>4, <1>9, <2>1 DEF Relocating
  <2>2. QED
    BY <1>1, <1>2, <1>8, <1>9, <2>1 DEF Relocating, Usable
<1>10. QED
  BY <1>1, <1>5, <1>6, <1>7, <1>9 DEF Seen

\* Everything shown, or on its way, fits what the runner has just done to p.
FitsAfter(p) == \A f, E : Alive(f) /\ E = Children(f) => Fits(f, E, p)'

\* A rename or a move on the runner.
LEMMA MovedFits ==
    ASSUME TreeBase, task.todo # <<>>, NEW p, p = Head(task.todo), Moved(p),
           exists' = Served(p), task'.kind = task.kind, task'.dest = task.dest,
           task.kind \in {"rename", "move"}
    PROVE  /\ FitsAfter(p) /\ \A q \in exists' : ~IsPrefix(p, q)
           /\ task.kind = "move" => Alive(parentOf(p))' /\ Alive(task.dest)'
<1>1. PICK to, E : to = Target(p) /\ E = exists
  OBVIOUS
<1>2. /\ p \in E /\ to \notin E /\ parentOf(to) \in E \cup {Root} /\ to # p
      /\ exists' = {Relocate(q, p, to) : q \in E}
  BY <1>1 DEF Moved
<1>3. /\ E \subseteq Entries /\ E \subseteq PathSeq /\ Root \notin E /\ Complete(E)
      /\ p \in PathSeq /\ p # Root /\ exists' \subseteq Entries
  BY <1>1, <1>2, EntryPaths, ServedFacts DEF TreeBase, TreeTypes
<1>4. /\ to \in PathSeq /\ to # Root /\ ~IsPrefix(p, to) /\ ~IsPrefix(p, parentOf(to))
      /\ task.kind = "rename" => parentOf(to) = parentOf(p)
      /\ task.kind # "rename" => parentOf(to) = task.dest
  BY <1>1, <1>2, TargetFacts
<1>5. \A x : Goes(x, p)' = Relocate(x, p, to)
  <2>1. Target(p)' = to
    BY <1>1 DEF Target
  <2>2. QED
    BY <2>1 DEF Goes, Relocate
<1>6. ~IsPrefix(p, Root) /\ ~IsPrefix(p, parentOf(p))
  BY <1>3, PrefixParent
<1>7. \A x : ~IsPrefix(p, x) => Relocate(x, p, to) = x
  BY DEF Relocate
<1>8. ASSUME NEW f, Alive(f) PROVE Alive(Relocate(f, p, to))'
  BY <1>1, <1>2, <1>6, <1>7, <1>8 DEF Alive
<1>9. ASSUME NEW f, NEW C, Alive(f), C = Children(f) PROVE Fits(f, C, p)'
  <2>1. PICK g : g = Relocate(f, p, to)
    OBVIOUS
  <2>2. Goes(f, p)' = g /\ Alive(g)'
    BY <1>5, <1>8, <1>9, <2>1
  <2>3. f \in E \cup {Root} /\ C = ChildrenIn(E, f)
    BY <1>1, <1>9 DEF Alive, Children, ChildrenIn
  <2>4. CASE parentOf(to) = parentOf(p) \/ g \notin {parentOf(p), parentOf(to)}
    <3>1. {Relocate(x, p, to) : x \in ChildrenIn(E, f)}
              = ChildrenIn({Relocate(x, p, to) : x \in E}, g)
      BY <1>2, <1>3, <1>4, <2>1, <2>3, <2>4, RelocatedChildren
    <3>2. {Relocate(x, p, to) : x \in C} = Children(g)' /\ Children(g)' \subseteq Entries
      BY <1>2, <1>3, <2>3, <3>1 DEF ChildrenIn, Children
    <3>3. {Goes(x, p)' : x \in C} \cap Entries = Children(g)'
      BY <1>5, <3>2
    <3>4. QED
      BY <2>2, <3>3 DEF Fits
  <2>5. CASE ~(parentOf(to) = parentOf(p) \/ g \notin {parentOf(p), parentOf(to)})
    <3>1. task.kind = "move" /\ g \in {parentOf(p), task.dest}
      BY <1>4, <2>5
    <3>2. QED
      BY <2>2, <3>1 DEF Fits
  <2>6. QED
    BY <2>4, <2>5
<1>10. ASSUME NEW q \in exists' PROVE ~IsPrefix(p, q)
  <2>1. PICK x \in E : q = Relocate(x, p, to)
    BY <1>2
  <2>2. CASE ~IsPrefix(p, x)
    BY <1>7, <2>1, <2>2
  <2>3. CASE IsPrefix(p, x)
    <3>1. IsPrefix(p, q) => IsPrefix(to, p)
      BY <1>3, <1>4, <2>1, <2>3, RelocateFacts
    <3>2. ~IsPrefix(to, p)
      BY <1>2, <1>3, <1>4 DEF Complete
    <3>3. QED
      BY <3>1, <3>2
  <2>4. QED
    BY <2>2, <2>3
<1>11. ASSUME task.kind = "move" PROVE Alive(parentOf(p))' /\ Alive(task.dest)'
  <2>1. parentOf(p) \in PathSeq
    BY <1>3, ParentNames
  <2>2. parentOf(p) \in E \cup {Root}
    <3>1. parentOf(p) # Root => IsPrefix(parentOf(p), p)
      BY <1>3, <2>1, PrefixParent
    <3>2. QED
      BY <1>2, <1>3, <2>1, <3>1 DEF Complete
  <2>3. task.dest \in E \cup {Root} /\ ~IsPrefix(p, task.dest)
    BY <1>2, <1>4, <1>11
  <2>4. \A x \in E \cup {Root} : ~IsPrefix(p, x) => Alive(x)'
    BY <1>2, <1>7 DEF Alive
  <2>5. PICK d, e : d = task.dest /\ e = parentOf(p)
    OBVIOUS
  <2>6. Alive(d)' /\ Alive(e)'
    BY <1>6, <2>2, <2>3, <2>4, <2>5
  <2>7. QED
    BY <2>5, <2>6
<1>12. QED
  BY <1>9, <1>10, <1>11 DEF FitsAfter

\* A deletion on the runner.
LEMMA RemovedFits ==
    ASSUME TreeBase, NEW p, p \in Entries, Removed(p), exists' = Served(p),
           task.kind = "delete", task'.kind = task.kind
    PROVE  FitsAfter(p) /\ \A q \in exists' : ~IsPrefix(p, q)
<1>1. exists' = {q \in exists : ~IsPrefix(p, q)}
  BY DEF Removed
<1>2. \A x : Goes(x, p)' = IF IsPrefix(p, x) THEN NoPath ELSE x
  BY DEF Goes
<1>3. NoPath \notin Entries /\ exists \subseteq Entries /\ p \in PathSeq /\ p # Root
  BY EntryPaths DEF TreeBase, TreeTypes
<1>4. ASSUME NEW f, NEW C, Alive(f), C = Children(f) PROVE Fits(f, C, p)'
  <2>1. CASE IsPrefix(p, f)
    BY <1>2, <2>1 DEF Fits
  <2>2. CASE ~IsPrefix(p, f)
    <3>1. Goes(f, p)' = f /\ Alive(f)'
      BY <1>1, <1>2, <1>4, <2>2 DEF Alive
    <3>2. {Goes(x, p)' : x \in C} \cap Entries = Children(f)'
      BY <1>1, <1>2, <1>3, <1>4 DEF Children
    <3>3. QED
      BY <3>1, <3>2 DEF Fits
  <2>3. QED
    BY <2>1, <2>2
<1>5. QED
  BY <1>1, <1>4 DEF FitsAfter

\* One call of a handler.
LEMMA SeenStep == ASSUME TreeBase, Seen, Step PROVE Seen'
<1>1. PICK p : p = Head(task.todo)
  OBVIOUS
<1>2. /\ task.todo # <<>> /\ exists' = Served(p) /\ UNCHANGED <<lists, listed>>
      /\ notices' = IF Served(p) = exists THEN notices ELSE notices \cup {p}
      /\ task'.kind = task.kind /\ task'.dest = task.dest
      /\ task'.done = IF Served(p) = exists THEN task.done ELSE task.done \cup {p}
  BY <1>1 DEF Step, shownVars, TreeBase, TaskOK
<1>3. task.kind # "idle"
  BY <1>2 DEF TreeBase, TaskOK, Idle
<1>4. task.kind \in SingleKinds => task.done = {}
  BY <1>2 DEF TreeBase, TaskOK
<1>5. CASE task.kind \notin SingleKinds /\ task.done # {}
  <2>1. task'.done # {} /\ task'.kind \notin {"idle", "create", "rename", "move", "delete"}
    BY <1>2, <1>3, <1>5 DEF SingleKinds
  <2>2. QED
    BY <2>1 DEF Seen
<1>6. CASE task.done = {} /\ Served(p) = exists
  <2>1. UNCHANGED <<exists, notices, lists, listed>> /\ task'.done = {}
    BY <1>2, <1>6
  <2>2. Undone
    BY <1>3, <1>6 DEF Seen
  <2>3. \A f : Alive(f)' = Alive(f) /\ Children(f)' = Children(f) /\ Current(f)' = Current(f)
    BY <2>1 DEF Alive, Children, Current
  <2>4. \A c \in lists' : Usable(c) => Accurate(c)'
    BY <2>1, <2>2, <2>3 DEF Undone, Accurate
  <2>5. Undone'
    BY <2>1, <2>2, <2>3, <2>4 DEF Undone, Usable
  <2>6. QED
    BY <1>2, <1>3, <2>1, <2>5 DEF Seen
<1>7. CASE task.done = {} /\ Served(p) # exists
  <2>1. task'.done = {p} /\ p \in Entries
    BY <1>1, <1>2, <1>7, ServedFacts
  <2>2. Undone
    BY <1>3, <1>7 DEF Seen
  <2>3. Added(p) \/ Moved(p) \/ Removed(p)
    BY <1>7, ServedCases DEF TreeBase, TreeTypes
  <2>4. \A f \in Places : listed[f].loaded => Alive(f) /\ listed[f].entries = Children(f)
    BY <2>2 DEF Undone, Current
  <2>5. \A c \in lists : Usable(c) => Alive(c.f) /\ c.got = Children(c.f)
    BY <2>2 DEF Undone, Accurate
  <2>6. ASSUME task.kind = "create" PROVE Created'
    <3>1. Added(p)
      BY <2>3, <2>6 DEF Moved, Removed
    <3>2. parentOf(p) = task.dest
      BY <1>1, <1>2, <2>6, HeadFacts DEF TreeBase, TaskOK
    <3>3. exists' = exists \cup {p} /\ task.dest \in exists \cup {Root}
      BY <1>2, <3>1, <3>2 DEF Added
    <3>4. \A f : Alive(f) => Alive(f)'
      BY <3>3 DEF Alive
    <3>5. \A f : f # task.dest => Children(f)' = Children(f)
      BY <3>2, <3>3 DEF Children
    <3>6. Alive(task.dest)'
      BY <1>2, <3>3 DEF Alive
    <3>7. \A f \in Places : listed'[f].loaded => Alive(f)' /\ (f # task.dest => Current(f)')
      BY <1>2, <2>4, <3>4, <3>5 DEF Current
    <3>8. \A c \in lists' : Usable(c) => Alive(c.f)' /\ (c.f # task.dest => c.got = Children(c.f)')
      BY <1>2, <2>5, <3>4, <3>5
    <3>9. QED
      BY <1>2, <3>6, <3>7, <3>8 DEF Created, Usable
  <2>7. ASSUME task.kind \in {"rename", "move", "delete"} PROVE Relocating(p)'
    <3>1. /\ FitsAfter(p) /\ \A q \in exists' : ~IsPrefix(p, q)
          /\ task.kind = "move" => Alive(parentOf(p))' /\ Alive(task.dest)'
      <4>1. CASE task.kind = "delete"
        <5>1. Removed(p)
          BY <2>3, <4>1 DEF Added, Moved
        <5>2. QED
          BY <1>2, <2>1, <4>1, <5>1, RemovedFits
      <4>2. CASE task.kind \in {"rename", "move"}
        <5>1. Moved(p)
          BY <2>3, <4>2 DEF Added, Removed
        <5>2. QED
          BY <1>1, <1>2, <4>2, <5>1, MovedFits
      <4>3. QED
        BY <2>7, <4>1, <4>2
    <3>2. \A f \in Places : listed'[f].loaded => Fits(f, listed[f].entries, p)'
      <4>1. ASSUME NEW f \in Places, listed'[f].loaded PROVE Fits(f, listed[f].entries, p)'
        <5>1. PICK E : E = listed[f].entries
          OBVIOUS
        <5>2. Alive(f) /\ E = Children(f)
          BY <1>2, <2>4, <4>1, <5>1
        <5>3. Fits(f, E, p)'
          BY <3>1, <5>2 DEF FitsAfter
        <5>4. QED
          BY <1>2, <5>1, <5>3
      <4>2. QED
        BY <4>1
    <3>3. \A c \in lists' : Usable(c) => Fits(c.f, c.got, p)'
      BY <1>2, <2>5, <3>1 DEF FitsAfter
    <3>4. task.kind = "move" => Alive(parentOf(p))' /\ Alive(task.dest)'
      BY <1>2, <3>1
    <3>5. QED
      BY <1>2, <2>1, <3>1, <3>2, <3>3, <3>4 DEF Relocating, Usable
  <2>8. QED
    BY <1>2, <1>3, <2>1, <2>6, <2>7 DEF Seen
<1>8. QED
  BY <1>4, <1>5, <1>6, <1>7

\* A refresh after a change: no answer that was under way counts as fresh.
LEMMA Refreshed ==
    ASSUME TreeBase, NEW fs, List(fs, FALSE)
    PROVE  /\ \A c \in lists' : ~Usable(c)
           /\ \A f \in fs : Awaited(f)'
<1>1. PICK no : no = FALSE
  OBVIOUS
<1>2. /\ \A c \in lists' : ~(c.at = "ok" /\ ~c.old)
      /\ \A f \in fs : \E c \in lists' : c.f = f /\ c.at = "sent"
  BY <1>1, ListFacts DEF TreeBase
<1>3. QED
  BY <1>2 DEF Usable, Awaited

\* A task that changed nothing ends as it began.
LEMMA UndoneEnds ==
    ASSUME Undone, task' = Idle, UNCHANGED <<exists, notices, lists, listed>> PROVE Seen'
<1>1. \A f : Alive(f)' = Alive(f) /\ Children(f)' = Children(f) /\ Current(f)' = Current(f)
  BY DEF Alive, Children, Current
<1>2. \A c \in lists' : Usable(c) => Accurate(c)'
  BY <1>1 DEF Undone, Accurate
<1>3. AtRest'
  BY <1>1, <1>2 DEF Undone, AtRest, Usable
<1>4. task'.kind = "idle" /\ task'.done = {}
  BY DEF Idle
<1>5. QED
  BY <1>3, <1>4 DEF Seen

\* A rename, a move or a deletion is put into the tree.
LEMMA SeenFinishOne == ASSUME TreeBase, Seen, FinishOne PROVE Seen'
<1>1. /\ task.kind \in {"rename", "move", "delete"} /\ task' = Idle /\ UNCHANGED <<exists, notices>>
  BY DEF FinishOne
<1>2. CASE task.done = {} /\ UNCHANGED <<listed, lists>>
  <2>1. Undone
    BY <1>1, <1>2 DEF Seen
  <2>2. QED
    BY <1>1, <1>2, <2>1, UndoneEnds
<1>3. ASSUME NEW from \in task.done, listed' = [f \in Places |-> ShownAt(f, from)],
             List(IF task.kind = "move" THEN {parentOf(from), task.dest} ELSE {}, FALSE)
      PROVE  Seen'
  <2>1. Relocating(from)
    BY <1>1 DEF Seen
  <2>2. PICK fs : fs = IF task.kind = "move" THEN {parentOf(from), task.dest} ELSE {}
    OBVIOUS
  <2>3. (\A c \in lists' : ~Usable(c)) /\ (\A f \in fs : Awaited(f)')
    BY <1>3, <2>2, Refreshed
  <2>4. ASSUME NEW f \in Places, listed'[f].loaded PROVE Alive(f)' /\ (Current(f)' \/ Awaited(f)')
    <3>1. PICK g : g = IF f = Root THEN Root ELSE CHOOSE h \in Olds(f, from) : TRUE
      OBVIOUS
    <3>2. f # Root => Olds(f, from) # {}
      BY <1>3, <2>4 DEF ShownAt, Unloaded
    <3>3. PICK S : S = {Goes(p, from) : p \in listed[g].entries} \cap Entries
      OBVIOUS
    <3>4. listed'[f] = [listed[g] EXCEPT !.entries = S]
      BY <1>3, <3>1, <3>2, <3>3 DEF ShownAt
    <3>5. from \in PathSeq /\ from # Root /\ ~IsPrefix(from, Root)
      BY <2>1, EntryPaths, PrefixParent DEF Relocating
    <3>6. g \in Places /\ Goes(g, from) = f
      <4>1. CASE f = Root
        BY <3>1, <3>5, <4>1 DEF Goes, Places
      <4>2. CASE f # Root
        <5>1. g \in Olds(f, from)
          BY <3>1, <3>2, <4>2
        <5>2. QED
          BY <5>1 DEF Olds, Places
      <4>3. QED
        BY <4>1, <4>2
    <3>7. DOMAIN listed[g] = {"loaded", "entries"}
      BY <3>6 DEF TreeBase, TreeTypes
    <3>8. listed[g].loaded /\ listed'[f].entries = S
      BY <2>4, <3>4, <3>7
    <3>9. Fits(g, listed[g].entries, from)
      BY <2>1, <3>6, <3>8 DEF Relocating
    <3>10. f # NoPath
      BY EntryPaths, TreeAssumption DEF Places
    <3>11. Alive(f) /\ (S = Children(f) \/ f \in fs)
      BY <2>2, <3>3, <3>6, <3>9, <3>10 DEF Fits
    <3>12. Alive(f)' /\ Children(f)' = Children(f)
      BY <1>1, <3>11 DEF Alive, Children
    <3>13. QED
      BY <2>3, <3>8, <3>11, <3>12 DEF Current
  <2>5. AtRest'
    BY <2>3, <2>4 DEF AtRest, Usable
  <2>6. task'.kind = "idle" /\ task'.done = {}
    BY <1>1 DEF Idle
  <2>7. QED
    BY <2>5, <2>6 DEF Seen
<1>4. QED
  BY <1>2, <1>3 DEF FinishOne

\* A creation is listed; an upload or several paths forget what was loaded.
LEMMA SeenFinishAll == ASSUME TreeBase, Seen, FinishAll PROVE Seen'
<1>1. /\ task.kind \in {"create", "moveFiles", "deleteFiles", "upload"} /\ task' = Idle
      /\ UNCHANGED <<exists, notices>> /\ task'.kind = "idle" /\ task'.done = {}
  BY DEF FinishAll, Idle
<1>2. CASE task.kind \in {"create", "upload"} /\ task.done = {}
  <2>1. Undone /\ UNCHANGED <<listed, lists>>
    BY <1>1, <1>2 DEF Seen, FinishAll
  <2>2. QED
    BY <1>1, <2>1, UndoneEnds
<1>3. CASE task.kind = "create" /\ task.done # {}
  <2>1. PICK fs : fs = {task.dest}
    OBVIOUS
  <2>2. Created /\ UNCHANGED listed /\ List(fs, FALSE)
    BY <1>3, <2>1 DEF Seen, FinishAll
  <2>3. (\A c \in lists' : ~Usable(c)) /\ (\A f \in fs : Awaited(f)')
    BY <2>2, Refreshed
  <2>4. \A f : Alive(f)' = Alive(f) /\ Current(f)' = Current(f)
    BY <1>1, <2>2 DEF Alive, Current, Children
  <2>5. AtRest'
    BY <2>1, <2>2, <2>3, <2>4 DEF Created, AtRest, Usable
  <2>6. QED
    BY <1>1, <2>5 DEF Seen
<1>4. CASE task.kind # "create" /\ ~(task.kind = "upload" /\ task.done = {})
  <2>1. PICK fs : fs = {Root}
    OBVIOUS
  <2>2. /\ listed' = [f \in Places |-> IF f = Root THEN listed[f] ELSE Unloaded]
        /\ List(fs, FALSE)
    BY <1>4, <2>1 DEF FinishAll
  <2>3. (\A c \in lists' : ~Usable(c)) /\ Awaited(Root)'
    BY <2>1, <2>2, Refreshed
  <2>4. \A f \in Places : listed'[f].loaded => f = Root
    BY <2>2 DEF Unloaded
  <2>5. Alive(Root)'
    BY DEF Alive
  <2>6. AtRest'
    BY <2>3, <2>4, <2>5 DEF AtRest, Usable
  <2>7. QED
    BY <1>1, <2>6 DEF Seen
<1>5. QED
  BY <1>1, <1>2, <1>3, <1>4

\* The explorer starts with what is on the runner.
LEMMA TreeStarts == TreeInit => TreeInv
BY BaseInit, SeenInit DEF TreeInv

\* Every step of the explorer keeps what it knows of the runner's folders.
LEMMA TreeKept == TreeInv /\ [TreeNext]_treeVars => TreeInv'
<1> SUFFICES ASSUME TreeInv, [TreeNext]_treeVars, ~overlapped' PROVE Seen'
  BY BaseKept DEF TreeInv
<1>1. TreeBase
  BY DEF TreeInv
<1>2. ~overlapped
  <2>1. CASE UNCHANGED treeVars
    BY <2>1 DEF treeVars, shownVars
  <2>2. CASE Gesture
    BY <2>2 DEF Gesture, NodeClick, ToggleFolder, StartEdit, CancelEdit, ConfirmEdit, Drop, DeleteKey,
       DropFile, OutsideChange, Begin, shownVars
  <2>3. CASE TreeProgress
    BY <2>3 DEF TreeProgress, Step, FinishOne, FinishAll, ServeList, ListDone, Notice, shownVars
  <2>4. QED
    BY <2>1, <2>2, <2>3 DEF TreeNext
<1>3. Seen
  BY <1>2 DEF TreeInv
<1>4. CASE UNCHANGED treeVars
  <2>1. UNCHANGED <<exists, listed, task, lists, notices>>
    BY <1>4 DEF treeVars, shownVars
  <2>2. \A f : Noticed(f)' = Noticed(f)
    BY <2>1 DEF Noticed
  <2>3. QED
    BY <1>3, <2>1, <2>2, SeenLists
<1>5. CASE \/ \E p \in Entries : NodeClick(p, TRUE) \/ NodeClick(p, FALSE)
           \/ \E f \in Folders : ToggleFolder(f)
           \/ \E type \in {"create", "rename"} : StartEdit(type)
           \/ CancelEdit
  BY <1>1, <1>3, <1>5, SeenClicks
<1>6. CASE \/ \E name \in Names : ConfirmEdit(name)
           \/ \E p \in Entries, d \in Places : Drop(p, d)
           \/ DeleteKey
           \/ \E d \in Places, rel \in Rels : DropFile(d, rel)
  <2>1. \E kind, order, dest : Begin(kind, order, dest)
    BY <1>6 DEF ConfirmEdit, Drop, DeleteKey, DropFile
  <2>2. task.kind = "idle"
    BY <1>1, <1>6, BaseBegins
  <2>3. QED
    BY <1>1, <1>3, <2>1, <2>2, SeenBegins
<1>7. CASE \E p \in Entries : OutsideChange(p)
  BY <1>1, <1>3, <1>7, SeenOutside
<1>8. CASE TreeProgress
  BY <1>1, <1>3, <1>8, SeenStep, SeenFinishOne, SeenFinishAll, SeenServed, SeenListDone, SeenNotice
     DEF TreeProgress
<1>9. QED
  BY <1>4, <1>5, <1>6, <1>7, <1>8 DEF TreeNext, Gesture

\* What a user may rely on.
LEMMA TreeTells == TreeInv => TreeTypeOK /\ TreeCurrent /\ UploadStaysInside
<1> SUFFICES ASSUME TreeInv PROVE TreeTypeOK /\ TreeCurrent /\ UploadStaysInside
  OBVIOUS
<1>1. TreeTypeOK
  BY VisibleEntries DEF TreeInv, TreeBase, TreeTypes, TreeTypeOK
<1>2. UploadStaysInside
  BY DEF TreeInv, TreeBase, TaskOK, UploadStaysInside
<1>3. ASSUME lists = {}, notices = {}, task = Idle, ~overlapped, NEW f \in Places, listed[f].loaded
      PROVE  listed[f].entries = Children(f)
  <2>1. AtRest
    BY <1>3 DEF TreeInv, Seen, Idle
  <2>2. ~Awaited(f) /\ ~Noticed(f)
    BY <1>3 DEF Awaited, Noticed
  <2>3. QED
    BY <1>3, <2>1, <2>2 DEF AtRest, Current
<1>4. QED
  BY <1>1, <1>2, <1>3 DEF TreeCurrent

-----------------------------------------------------------------------------
(* The panels together.                                                    *)

\* MovesKeepSources: a drag of several paths takes no later source away.
LEMMA SourcesAreKept == Spec => MovesKeepSources
<1>1. Init => TreeInv
  BY TreeStarts DEF Init
<1>2. TreeInv /\ [TreeNext]_treeVars => [SourcesStep]_treeVars
  BY SourcesKept DEF TreeInv
<1>3. Spec => []TreeInv
  BY <1>1, TreeKept, IdeSteps, PTL DEF Spec
<1>4. Spec => [][SourcesStep]_treeVars
  BY <1>3, <1>2, IdeSteps, PTL DEF Spec
<1>5. [SourcesStep]_treeVars =>
         [task.kind = "moveFiles" /\ task' # task =>
            \A i \in DOMAIN task'.todo :
                task'.todo[i] \in exists => task'.todo[i] \in exists']_treeVars
  BY DEF SourcesStep
<1>6. QED
  BY <1>4, <1>5, PTL DEF MovesKeepSources

\* PanelsFaithful: unless changes overlap, the explorer shows what is on the runner once
\* nothing is under way; the changes view hides no change; an upload stays in the folder
\* it was dropped on; events come from the project on screen alone.
THEOREM PanelsAreFaithful == Spec => []PanelsFaithful
<1>1. Init => TreeInv /\ GitInv /\ WatcherInv
  BY TreeStarts, GitSound, WatcherSound DEF Init
<1>2. Spec => []TreeInv
  BY <1>1, TreeKept, IdeSteps, PTL DEF Spec
<1>3. Spec => []GitInv
  BY <1>1, GitStepKeeps, IdeSteps, PTL DEF Spec
<1>4. Spec => []WatcherInv
  BY <1>1, WatcherStep, IdeSteps, PTL DEF Spec
<1>5. TreeInv /\ GitInv /\ WatcherInv => PanelsFaithful
  BY TreeTells, GitSound, WatcherSound DEF PanelsFaithful
<1>6. QED
  BY <1>2, <1>3, <1>4, <1>5, PTL

\* UserWorkKept: unsaved text, the work tree, the files of a drag and the options that
\* were applied change only by a step that the user asked for.
THEOREM WorkStaysTheUsers == Spec => UserWorkKept
BY TextIsKept, WorkIsKept, SourcesAreKept, ApplyingKeeps DEF UserWorkKept

=============================================================================
